-------------------------------- MODULE Kyc --------------------------------
(***************************************************************************)
(* Identity verification of one user (controllers/settings/kyc.js and      *)
(* controllers/admin/kyc.js): the row of kyc_verifications with its status *)
(* and flags, and the documents.                                           *)
(*                                                                         *)
(* The user uploads documents; admins decide on a document, or on the row  *)
(* as a whole; whoever changes a flag then recomputes the status.  Every   *)
(* handler reads and writes in separate calls.  Left out: the flags that   *)
(* decide nothing (bvn, bank, selfie), and the copy of the outcome in      *)
(* profiles, which nothing reads.                                          *)
(*                                                                         *)
(* kyc_verifications is external (no DDL in the repository): one row for a *)
(* user, referenced by the documents.                                      *)
(***************************************************************************)
EXTENDS Naturals, FiniteSets

CONSTANTS
  DocTypes,   \* types of documents that have a flag
  Uploaded,   \* those the user uploads (a bound)
  Needed,     \* the flags that make an account verified: identity, address, nin
  MaxDocs,    \* a bound on the rows of kyc_documents
  Sessions,   \* handlers in flight at the same time
  Faults      \* a handler may die, a statement may fail

ASSUME KycAssumption ==
  /\ MaxDocs \in Nat /\ Faults \in BOOLEAN
  /\ "nin" \in Needed \ DocTypes /\ Uploaded \subseteq DocTypes

VARIABLES
  kyc,         \* status and flags of the row; status "none" when there is none
  doc,         \* kyc_documents
  work,        \* where each handler in flight stands
  byHand,      \* history: flags approved on the row, not through documents
  slips        \* history: "status" once a status was written that somebody else's
               \* change had outdated, or was left unwritten; "flag" likewise

vars == <<kyc, doc, work, byHand, slips>>

Docs == 1..MaxDocs
Idle == [at |-> "idle"]
NoRow == [status |-> "none"]
NoKyc == [status |-> "none", flags |-> {}]

Init ==
  /\ \E status \in {"none", "not_started"} : kyc = [NoKyc EXCEPT !.status = status]
  /\ doc = [d \in Docs |-> NoRow]
  /\ work = [s \in Sessions |-> Idle]
  /\ byHand = {}
  /\ slips = {}

Goto(s, step) == work' = [work EXCEPT ![s] = step]
Slip(kind, when) == slips' = IF when THEN slips \cup {kind} ELSE slips

HasRow == kyc.status # "none"
OfType(t) == {d \in Docs : doc[d] # NoRow /\ doc[d].type = t}
SetStatus(status) == kyc' = [kyc EXCEPT !.status = IF HasRow THEN status ELSE @]
SetFlags(flags) == kyc' = [kyc EXCEPT !.flags = IF HasRow THEN flags ELSE @]

\* Somebody has changed a flag and not recomputed the status yet.
Settling == \E s \in Sessions : work[s].at \in {"weighing", "writing"}

\* Somebody has decided on a document of the type and not set its flag yet.
Flagging(t) ==
  \E s \in Sessions : work[s].at \in {"counting", "flagging"} /\ work[s].type = t

-----------------------------------------------------------------------------
\* uploadDocument: the row is made, or put back to pending whatever it was, then
\* the document is inserted and its files stored.

StartUpload(s, t) ==
  /\ work[s] = Idle
  /\ Goto(s, [at |-> "marking", type |-> t, read |-> kyc])
  /\ Slip("status", Settling)
  /\ UNCHANGED <<kyc, doc, byHand>>

\* A row inserted by somebody else meanwhile, or deleted by somebody's roll-back,
\* is an error.
MarkPending(s) ==
  LET read == work[s].read
      stale == (read.status = "none") = HasRow
  IN
  /\ work[s].at = "marking"
  /\ \/ /\ ~stale
        /\ kyc' = [kyc EXCEPT !.status = "pending"]
        /\ Goto(s, [work[s] EXCEPT !.at = "inserting"])
     \/ /\ Faults \/ stale
        /\ Goto(s, IF read.status = "none" THEN Idle ELSE [at |-> "restoring", read |-> read])
        /\ UNCHANGED kyc
  /\ UNCHANGED <<doc, byHand, slips>>

InsertDocument(s, d) ==
  LET read == work[s].read IN
  /\ work[s].at = "inserting"
  /\ doc[d] = NoRow /\ \A e \in Docs : e < d => doc[e] # NoRow
  /\ \/ /\ HasRow
        /\ doc' = [doc EXCEPT ![d] = [type |-> work[s].type, status |-> "pending"]]
        /\ Goto(s, [at |-> "storing", doc |-> d, read |-> read])
     \/ /\ Faults \/ ~HasRow
        /\ Goto(s, [at |-> "restoring", read |-> read])
        /\ UNCHANGED doc
  /\ UNCHANGED <<kyc, byHand, slips>>

StoreFiles(s) ==
  /\ work[s].at = "storing"
  /\ Goto(s, Idle)
  /\ UNCHANGED <<kyc, doc, byHand, slips>>

\* The roll-back deletes the document, decided or not, and does not look at the
\* error ...
DropDocument(s) ==
  LET d == work[s].doc IN
  /\ Faults /\ work[s].at = "storing"
  /\ \/ /\ doc' = [doc EXCEPT ![d] = NoRow]
        /\ Slip("flag", doc[d].status # "pending" \/ Flagging(doc[d].type))
     \/ UNCHANGED <<doc, slips>>
  /\ Goto(s, [at |-> "restoring", read |-> work[s].read])
  /\ UNCHANGED <<kyc, byHand>>

\* ... and then the row, if this handler made it and no other document needs it,
\* or writes back the status it had.
RestoreStatus(s) ==
  LET read == work[s].read IN
  /\ work[s].at = "restoring"
  /\ IF read.status # "none" THEN SetStatus(read.status)
     ELSE kyc' = IF \A d \in Docs : doc[d] = NoRow THEN NoKyc ELSE kyc
  /\ Slip("status", kyc \notin {read, [read EXCEPT !.status = "pending"]})
  /\ Goto(s, Idle)
  /\ UNCHANGED <<doc, byHand>>

\* saveNIN: a row for the admins to find.  Nothing sets the flag nin.
ReadForNin(s) ==
  /\ work[s] = Idle
  /\ kyc.status \in {"none", "not_started"}
  /\ Goto(s, [at |-> "nin", was |-> kyc.status])
  /\ UNCHANGED <<kyc, doc, byHand, slips>>

WriteForNin(s) ==
  /\ work[s].at = "nin"
  /\ IF work[s].was = "none" /\ HasRow THEN UNCHANGED kyc
     ELSE kyc' = IF work[s].was = "none" \/ HasRow
                 THEN [kyc EXCEPT !.status = "pending"] ELSE kyc
  /\ Goto(s, Idle)
  /\ UNCHANGED <<doc, byHand, slips>>

\* External: no code sets nin_verified, it is set in the database.
VerifyNin ==
  /\ HasRow
  /\ SetFlags(kyc.flags \cup {"nin"})
  /\ UNCHANGED <<doc, work, byHand, slips>>

-----------------------------------------------------------------------------
\* approveDocument and rejectDocument take the same steps.

ReadDocument(s, d, verdict) ==
  /\ work[s] = Idle
  /\ doc[d] # NoRow /\ doc[d].status # verdict
  /\ Goto(s, [at |-> "deciding", doc |-> d, verdict |-> verdict])
  /\ UNCHANGED <<kyc, doc, byHand, slips>>

ApproveDocument(s, d) == ReadDocument(s, d, "verified")
RejectDocument(s, d) == ReadDocument(s, d, "rejected")

DecideDocument(s) ==
  LET d == work[s].doc IN
  /\ work[s].at = "deciding"
  /\ IF doc[d] = NoRow THEN Goto(s, Idle) /\ UNCHANGED doc
     ELSE /\ doc' = [doc EXCEPT ![d].status = work[s].verdict]
          /\ Goto(s, [at |-> "counting", type |-> doc[d].type])
  /\ UNCHANGED <<kyc, byHand, slips>>

\* Mutant: one verified document is enough.
AnyVerified(t) == \E d \in OfType(t) : doc[d].status = "verified"

AllVerified(t) == \A d \in OfType(t) : doc[d].status = "verified"

CountDocuments(s) ==
  LET t == work[s].type IN
  /\ work[s].at = "counting"
  /\ Goto(s, IF OfType(t) = {} THEN Idle
             ELSE [at |-> "flagging", type |-> t, all |-> AllVerified(t)])
  /\ UNCHANGED <<kyc, doc, byHand, slips>>

WriteFlag(s) ==
  LET t == work[s].type
      all == work[s].all
  IN
  /\ work[s].at = "flagging"
  /\ SetFlags(IF all THEN kyc.flags \cup ({t} \cap Needed) ELSE kyc.flags \ {t})
  /\ byHand' = byHand \ {t}
  /\ Slip("flag", \E r \in Sessions \ {s} :
            work[r].at \in {"counting", "flagging"} /\ work[r].type = t)
  /\ Goto(s, [at |-> "weighing"])
  /\ UNCHANGED <<doc>>

-----------------------------------------------------------------------------
\* approveKyc and rejectKyc, of one type or of all; the flag nin is in neither.

ApproveKyc(s, types) ==
  /\ work[s] = Idle /\ HasRow
  /\ kyc' = [status |-> IF types = DocTypes THEN "verified" ELSE kyc.status,
             flags |-> kyc.flags \cup (types \cap Needed)]
  /\ byHand' = byHand \cup (types \cap Needed)
  /\ Goto(s, [at |-> "weighing"])
  /\ UNCHANGED <<doc, slips>>

RejectKyc(s, types) ==
  /\ work[s] = Idle /\ HasRow
  /\ kyc' = [status |-> "rejected", flags |-> kyc.flags \ types]
  /\ byHand' = byHand \ types
  /\ Goto(s, [at |-> "weighing"])
  /\ UNCHANGED <<doc, slips>>

\* updateKycOverallStatus.

\* Mutant: a status once verified is left alone.
OutcomeKept(row) ==
  IF Needed \subseteq row.flags THEN "verified" ELSE row.status

Outcome(row) ==
  IF Needed \subseteq row.flags THEN "verified"
  ELSE IF row.status = "verified" THEN "pending" ELSE row.status

ReadFlags(s) ==
  /\ work[s].at = "weighing"
  /\ Goto(s, IF HasRow /\ Outcome(kyc) # kyc.status
             THEN [at |-> "writing", read |-> kyc] ELSE Idle)
  /\ UNCHANGED <<kyc, doc, byHand, slips>>

WriteStatus(s) ==
  LET read == work[s].read IN
  /\ work[s].at = "writing"
  /\ SetStatus(Outcome(read))
  /\ Slip("status", kyc # read)
  /\ Goto(s, Idle)
  /\ UNCHANGED <<doc, byHand>>

Die(s) ==
  /\ Faults /\ work[s] # Idle
  /\ slips' = slips
       \cup (IF work[s].at \in {"weighing", "writing"} THEN {"status"} ELSE {})
       \cup (IF work[s].at \in {"counting", "flagging"} THEN {"flag"} ELSE {})
  /\ Goto(s, Idle)
  /\ UNCHANGED <<kyc, doc, byHand>>

-----------------------------------------------------------------------------
UserStep(s) ==
  \/ \E t \in Uploaded : StartUpload(s, t)
  \/ \E d \in Docs : InsertDocument(s, d)
  \/ MarkPending(s) \/ StoreFiles(s) \/ DropDocument(s) \/ RestoreStatus(s)
  \/ ReadForNin(s) \/ WriteForNin(s)

AdminStep(s) ==
  \/ \E d \in Docs : ApproveDocument(s, d) \/ RejectDocument(s, d)
  \/ \E types \in {{t} : t \in DocTypes} \cup {DocTypes} :
       ApproveKyc(s, types) \/ RejectKyc(s, types)
  \/ DecideDocument(s) \/ CountDocuments(s) \/ WriteFlag(s)
  \/ ReadFlags(s) \/ WriteStatus(s)

Next ==
  \/ \E s \in Sessions : UserStep(s) \/ AdminStep(s) \/ Die(s)
  \/ VerifyNin

Spec == Init /\ [][Next]_vars

-----------------------------------------------------------------------------
\* Properties.

Statuses == {"none", "not_started", "pending", "verified", "rejected"}

\* The shape of the rows; a document is of a type the user may upload.
TypeOK ==
  /\ kyc \in [status : Statuses, flags : SUBSET Needed]
  /\ doc \in [Docs -> {NoRow} \cup
                [type : Uploaded, status : {"pending", "verified", "rejected"}]]
  /\ byHand \subseteq Needed
  /\ slips \subseteq {"status", "flag"}

\* "Account is verified only when NIN, identity, and address are all approved":
\* outside the moment between a decision and its recomputation, whatever uploads
\* failed and were rolled back.  A status computed from a row that has changed,
\* or a handler that stops before computing it, breaks it.
VerifiedBacked ==
  "status" \notin slips /\ ~Settling =>
    (kyc.status = "verified" => Needed \subseteq kyc.flags)

\* A flag that was set through documents is that of documents that are still
\* there and of which none was rejected, however decisions and uploads of the
\* same type alternate; a document uploaded later may be pending.  Two decisions
\* at a time, a roll-back of a decided document, or a handler that stops between
\* document and flag break it.
FlagFollowsDocuments ==
  "flag" \notin slips =>
    \A t \in (kyc.flags \cap DocTypes) \ byHand :
      \/ Flagging(t)
      \/ /\ \E d \in OfType(t) : doc[d].status = "verified"
         /\ \A d \in OfType(t) : doc[d].status # "rejected"
=============================================================================
