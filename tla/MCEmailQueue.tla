----------------------------- MODULE MCEmailQueue -----------------------------
(* A campaign that is scheduled when the queue first reads it, or one that   *)
(* may also be a draft or already started.                                   *)
EXTENDS EmailQueue

MCScheduled == {"scheduled"}
MCAny == {"draft", "scheduled", "sending"}
=============================================================================
