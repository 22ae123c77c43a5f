----------------------------- MODULE PushDelivery -----------------------------
(***************************************************************************)
(* One push notification event of one user, as sendPushToUser of           *)
(* utils/pushNotifications.js delivers it: the claim that suppresses       *)
(* duplicates (claim_push_notification_event), the row in the bell, the    *)
(* sends to every device, the result written back, and the retry job.      *)
(* Calls for the event come from several places at once: Senders.          *)
(***************************************************************************)
EXTENDS Integers, FiniteSets

CONSTANTS
  Devices,      \* browsers the user may have subscribed
  Senders,      \* calls of sendPushToUser that may be under way
  MaxAttempts,  \* max_attempts, 5 in the code
  MaxFaults     \* bound on crashes, failed statements and lost answers

ASSUME PushAssumption ==
  /\ IsFiniteSet(Devices) /\ IsFiniteSet(Senders)
  /\ MaxAttempts \in Nat \ {0} /\ MaxFaults \in Nat

VARIABLES
  event,       \* push_notification_events.status, "none" without a row
  attempts,    \* .attempt_count
  young,       \* .created_at is within retry_window
  leased,      \* .last_attempt_at is within the last five minutes
  bell,        \* the row of notifications exists
  subscribed,  \* devices with a row of push_subscriptions
  send,        \* where each call of sendPushToUser stands
  shown,       \* history: pushes each device got
  rowless,     \* history: a call that ended without looking for the event
  faults

eventRow == <<event, attempts, young, leased>>
pushVars == <<eventRow, bell, subscribed, send, shown, rowless, faults>>

NoCall == [at |-> "idle"]
Terminal == {"sent", "no_subscriptions"}

PushInit ==
  /\ event = "none" /\ attempts = 0 /\ young = TRUE /\ leased = FALSE
  /\ bell = FALSE
  /\ subscribed \in SUBSET Devices
  /\ send = [s \in Senders |-> NoCall]
  /\ shown = [d \in Devices |-> 0]
  /\ rowless = FALSE
  /\ faults = 0

Fault == faults < MaxFaults /\ faults' = faults + 1
NoFault == UNCHANGED faults

Goto(s, step) == send' = [send EXCEPT ![s] = step]

\* The calls that will write their result to the event's row.
Holders == {s \in Senders : send[s].at \in {"belling", "reading", "sending"} /\ send[s].row}

-----------------------------------------------------------------------------
(* The claim. *)

Call(s) == send[s] = NoCall /\ Goto(s, [at |-> "claiming"])

\* Mutant: an event without a device is tried again once there is one.
RetryableUndelivered == {"failed", "no_subscriptions"}

Retryable == {"failed"}

\* The two conditions of the UPDATE: window and budget, and a failure or a lapsed lease.
Reclaimable ==
  /\ young /\ attempts < MaxAttempts
  /\ \/ event \in Retryable
     \/ event = "processing" /\ ~leased

Take ==
  /\ event = "none" \/ Reclaimable
  /\ event' = "processing" /\ attempts' = attempts + 1 /\ leased' = TRUE

\* claim_push_notification_event(): INSERT, else UPDATE, else a duplicate.
ClaimEvent(s) ==
  /\ send[s].at = "claiming"
  /\ \/ Take /\ Goto(s, [at |-> "belling", row |-> TRUE])
     \/ /\ event # "none" /\ ~Reclaimable
        /\ Goto(s, NoCall) /\ UNCHANGED <<event, attempts, leased>>
  /\ NoFault
  /\ UNCHANGED <<young, bell, subscribed, shown, rowless>>

\* The RPC answers with an error, or its answer is lost after the claim.
ClaimErrors(s) ==
  /\ send[s].at = "claiming"
  /\ Fault
  /\ Goto(s, [at |-> "legacy"])
  /\ Take \/ UNCHANGED <<event, attempts, leased>>
  /\ UNCHANGED <<young, bell, subscribed, shown, rowless>>

\* The fallback: a plain insert, whose status is the column's default, 'sent'.
LegacyInsert(s) ==
  /\ send[s].at = "legacy"
  /\ IF event = "none"
       THEN /\ event' = "sent" /\ attempts' = 1 /\ leased' = TRUE
            /\ Goto(s, [at |-> "belling", row |-> TRUE])
       ELSE Goto(s, NoCall) /\ UNCHANGED <<event, attempts, leased>>
  /\ NoFault
  /\ UNCHANGED <<young, bell, subscribed, shown, rowless>>

\* The insert fails as well: the push is sent without an event.
LegacyFails(s) ==
  /\ send[s].at = "legacy"
  /\ Goto(s, [at |-> "belling", row |-> FALSE])
  /\ rowless' = TRUE
  /\ NoFault
  /\ UNCHANGED <<eventRow, bell, subscribed, shown>>

-----------------------------------------------------------------------------
(* The bell, the sends and the result. *)

RecordBell(s) ==
  /\ send[s].at = "belling"
  /\ bell' = TRUE
  /\ Goto(s, [send[s] EXCEPT !.at = "reading"])
  /\ NoFault
  /\ UNCHANGED <<eventRow, subscribed, shown, rowless>>

\* A failed upsert of the bell is only logged.
BellFails(s) ==
  /\ send[s].at = "belling"
  /\ Fault
  /\ Goto(s, [send[s] EXCEPT !.at = "reading"])
  /\ UNCHANGED <<eventRow, bell, subscribed, shown, rowless>>

Sending(s, todo, outcomes) ==
  Goto(s, [at |-> "sending", row |-> send[s].row, todo |-> todo, outcomes |-> outcomes])

ReadSubscriptions(s) ==
  /\ send[s].at = "reading"
  /\ Sending(s, subscribed, {})
  /\ NoFault
  /\ UNCHANGED <<eventRow, bell, subscribed, shown, rowless>>

\* The query fails, or the VAPID keys are missing: the result is 'failed'.
ReadFails(s) ==
  /\ send[s].at = "reading"
  /\ Fault
  /\ Sending(s, {}, {"failed"})
  /\ UNCHANGED <<eventRow, bell, subscribed, shown, rowless>>

Done(s, d, outcome) == Sending(s, send[s].todo \ {d}, send[s].outcomes \cup {outcome})

\* One device of Promise.all. "Unsure" is a push that arrives though its call fails.
Deliver(s, d) ==
  /\ send[s].at = "sending" /\ d \in send[s].todo
  /\ \/ /\ Done(s, d, "sent") /\ NoFault
        /\ shown' = [shown EXCEPT ![d] = @ + 1]
        /\ UNCHANGED subscribed
     \/ /\ Done(s, d, "failed") /\ NoFault
        /\ UNCHANGED <<shown, subscribed>>
     \/ /\ Done(s, d, "removed") /\ NoFault
        /\ subscribed' = subscribed \ {d}
        /\ UNCHANGED shown
     \/ /\ Done(s, d, "failed") /\ Fault
        /\ shown' = [shown EXCEPT ![d] = @ + 1]
        /\ UNCHANGED subscribed
  /\ UNCHANGED <<eventRow, bell, rowless>>

\* Mutant: one failed device makes the whole event failed.
StatusAllOrNothing(outcomes) ==
  IF "failed" \in outcomes THEN "failed"
  ELSE IF "sent" \in outcomes THEN "sent" ELSE "no_subscriptions"

\* No outcome at all: there was no subscription.
Status(outcomes) ==
  IF "sent" \in outcomes THEN "sent"
  ELSE IF "failed" \in outcomes THEN "failed" ELSE "no_subscriptions"

\* recordNotificationResult: the row is named by its id only.
RecordResult(s) ==
  /\ send[s].at = "sending" /\ send[s].todo = {}
  /\ event' = IF send[s].row THEN Status(send[s].outcomes) ELSE event
  /\ Goto(s, NoCall)
  /\ NoFault
  /\ UNCHANGED <<attempts, young, leased, bell, subscribed, shown, rowless>>

RecordFails(s) ==
  /\ send[s].at = "sending" /\ send[s].todo = {}
  /\ Fault
  /\ Goto(s, NoCall)
  /\ UNCHANGED <<eventRow, bell, subscribed, shown, rowless>>

-----------------------------------------------------------------------------
(* Around the calls. *)

\* Five minutes pass. While the call that holds the event still runs, a fault.
LeasePasses ==
  /\ event = "processing" /\ leased
  /\ leased' = FALSE
  /\ IF Holders = {} THEN NoFault ELSE Fault
  /\ UNCHANGED <<event, attempts, young, bell, subscribed, send, shown, rowless>>

GrowsOld ==
  /\ event # "none" /\ young
  /\ young' = FALSE
  /\ NoFault
  /\ UNCHANGED <<event, attempts, leased, bell, subscribed, send, shown, rowless>>

Subscribe(d) ==
  /\ d \notin subscribed
  /\ subscribed' = subscribed \cup {d}
  /\ NoFault
  /\ UNCHANGED <<eventRow, bell, send, shown, rowless>>

Unsubscribe(d) ==
  /\ d \in subscribed
  /\ subscribed' = subscribed \ {d}
  /\ NoFault
  /\ UNCHANGED <<eventRow, bell, send, shown, rowless>>

\* Mutant: the job takes the stale leases and leaves the failures.
SweepStaleOnly(s) ==
  /\ event = "processing" /\ ~leased /\ young
  /\ Call(s)
  /\ NoFault
  /\ UNCHANGED <<eventRow, bell, subscribed, shown, rowless>>

\* retryUndeliveredNotifications, from the cron job and from savePushSubscription.
Sweep(s) ==
  /\ event = "failed" /\ young
  /\ Call(s)
  /\ NoFault
  /\ UNCHANGED <<eventRow, bell, subscribed, shown, rowless>>

SenderStep(s) ==
  \/ ClaimEvent(s) \/ ClaimErrors(s) \/ LegacyInsert(s) \/ LegacyFails(s)
  \/ RecordBell(s) \/ BellFails(s)
  \/ ReadSubscriptions(s) \/ ReadFails(s)
  \/ \E d \in Devices : Deliver(s, d)
  \/ RecordResult(s) \/ RecordFails(s)

World ==
  \/ LeasePasses \/ GrowsOld
  \/ \E d \in Devices : Subscribe(d) \/ Unsubscribe(d)

-----------------------------------------------------------------------------
Steps ==
  {NoCall} \cup [at : {"claiming", "legacy"}]
    \cup [at : {"belling", "reading"}, row : BOOLEAN]
    \cup [at : {"sending"}, row : BOOLEAN, todo : SUBSET Devices,
          outcomes : SUBSET {"sent", "failed", "removed"}]

PushTypeOK ==
  /\ event \in {"none", "processing", "failed"} \cup Terminal
  /\ attempts \in 0..MaxAttempts
  /\ young \in BOOLEAN /\ leased \in BOOLEAN /\ bell \in BOOLEAN /\ rowless \in BOOLEAN
  /\ subscribed \subseteq Devices
  /\ send \in [Senders -> Steps]
  /\ shown \in [Devices -> Nat]
  /\ faults \in 0..MaxFaults
=============================================================================
