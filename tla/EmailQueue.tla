------------------------------ MODULE EmailQueue ------------------------------
(***************************************************************************)
(* The send queue of one email campaign: the rows of                       *)
(* email_campaign_recipients, claimed in batches and sent by the worker of *)
(* jobs/emailCampaignQueue.js in every process that runs it, while admins  *)
(* start and cancel the campaign (controllers/admin/emailCampaigns.js) and *)
(* the scheduler promotes it (jobs/emailCampaignScheduler.js).             *)
(*                                                                         *)
(* The recipients are those added by hand: a campaign without an audience  *)
(* filter, whose rows exist before it is started.                          *)
(***************************************************************************)
EXTENDS Integers, FiniteSets, FiniteSetsExt

CONSTANTS
  Rows,            \* recipients of the campaign
  Workers,         \* processes, each running one tick at a time
  Handlers,        \* admin requests and scheduler ticks in flight
  BatchSize,       \* EMAIL_QUEUE_BATCH_SIZE
  MaxAttempts,     \* MAX_CAMPAIGN_SEND_ATTEMPTS, 3 in the code
  InitialStatus,   \* where the campaign stands when the queue is first read
  MaxFaults        \* bound on crashes, failed statements and lost answers

ASSUME EmailQueueAssumption ==
  /\ IsFiniteSet(Rows) /\ Rows # {} /\ IsFiniteSet(Workers)
  /\ BatchSize \in Nat \ {0} /\ MaxAttempts \in Nat \ {0}
  /\ InitialStatus \subseteq {"draft", "scheduled", "sending"}
  /\ MaxFaults \in Nat

VARIABLES
  campaign,  \* email_campaigns.status
  status,    \* email_campaign_recipients.status
  retries,   \* .retry_count
  stale,     \* rows whose claimed_at is older than the stale window
  unsub,     \* rows whose address is in email_unsubscribes
  work,      \* where each worker's tick stands
  handler,   \* where each admin handler or scheduler tick stands
  accepted,  \* history: messages the mail servers took for a row
  lost,      \* history: of these, those the queue has no record of
  late,      \* history: recipients each worker mailed since the cancellation
  crashed,   \* history: a tick ended in mid-work
  faults

queue == <<status, retries, stale>>
history == <<accepted, lost, late, crashed>>
vars == <<campaign, queue, unsub, work, handler, history, faults>>

Idle == [at |-> "idle"]

Goto(w, step) == work' = [work EXCEPT ![w] = step]

\* The row a worker is at, and the rows of its batch still ahead.
Held(w) == CASE work[w].at = "idle" -> {}
             [] work[w].at = "marking" -> work[w].left \cup {work[w].row}
             [] OTHER -> work[w].left

Retryable(r) == status[r] = "failed" /\ retries[r] < MaxAttempts

\* Mutant: rows being sent by another worker are not counted.
OpenExceptClaimed == {r \in Rows : status[r] = "pending" \/ Retryable(r)}

\* Mutant: a recipient given up on still counts as work to do.
OpenWithGivenUp == {r \in Rows : status[r] # "sent"}

\* What the queue still has to do, as finalizeCampaignsIfDone counts it.
Open == {r \in Rows : status[r] \in {"pending", "processing"} \/ Retryable(r)}

\* Mutant: rows left by a dead worker are never claimed again.
ClaimableFresh == {r \in Rows : status[r] = "pending" \/ Retryable(r)}

\* Due: a retry whose delay has passed, or a claim gone stale, included.
Claimable == {r \in Rows : \/ status[r] = "pending"
                           \/ Retryable(r)
                           \/ status[r] = "processing" /\ r \in stale}

-----------------------------------------------------------------------------
Init ==
  /\ campaign \in InitialStatus
  /\ status = [r \in Rows |-> "pending"]
  /\ retries = [r \in Rows |-> 0]
  /\ stale = {} /\ unsub = {}
  /\ work = [w \in Workers |-> Idle]
  /\ handler = [h \in Handlers |-> Idle]
  /\ accepted = [r \in Rows |-> 0] /\ lost = [r \in Rows |-> 0]
  /\ late = [w \in Workers |-> 0] /\ crashed = FALSE
  /\ faults = 0

Fault == faults < MaxFaults /\ faults' = faults + 1
NoFault == UNCHANGED faults

\* claim_email_campaign_recipients(), FOR UPDATE SKIP LOCKED, one statement.
Claim(w) ==
  /\ work[w] = Idle
  /\ \E batch \in SUBSET Claimable :
       /\ batch # {}
       /\ \/ Cardinality(batch) = BatchSize
          \/ batch = Claimable /\ Cardinality(batch) < BatchSize
       /\ status' = [r \in Rows |-> IF r \in batch THEN "processing" ELSE status[r]]
       /\ stale' = stale \ batch
       /\ Goto(w, [at |-> "claimed", left |-> batch,
                   tries |-> [r \in batch |-> retries[r]]])
  /\ UNCHANGED <<campaign, retries, unsub, handler, history, faults>>

\* The campaign as it is now goes with every row of the batch.
LoadCampaign(w) ==
  /\ work[w].at = "claimed"
  /\ Goto(w, [at |-> "loaded", left |-> work[w].left, tries |-> work[w].tries,
              campaign |-> campaign])
  /\ UNCHANGED <<campaign, queue, unsub, handler, history, faults>>

\* The SELECT failed: releaseClaims.
ReleaseClaims(w) ==
  /\ work[w].at = "claimed"
  /\ Fault
  /\ status' = [r \in Rows |-> IF r \in work[w].left THEN "pending" ELSE status[r]]
  /\ stale' = stale \ work[w].left
  /\ Goto(w, Idle)
  /\ UNCHANGED <<campaign, retries, unsub, handler, history>>

\* The unsubscribes of the batch, read once; an error reads as none.
CheckUnsubs(w) ==
  /\ work[w].at = "loaded"
  /\ \/ /\ Goto(w, [at |-> "batch", left |-> work[w].left, tries |-> work[w].tries,
                    campaign |-> work[w].campaign, unsub |-> unsub \cap work[w].left])
        /\ NoFault
     \/ /\ Fault
        /\ Goto(w, [at |-> "batch", left |-> work[w].left, tries |-> work[w].tries,
                    campaign |-> work[w].campaign, unsub |-> {}])
  /\ UNCHANGED <<campaign, queue, unsub, handler, history>>

\* Mutant: the batch is sent whatever became of the campaign.
DroppedUnsubscribed(w) == work[w].unsub

Dropped(w) == IF work[w].campaign = "cancelled" THEN work[w].left ELSE work[w].unsub

\* Go on with the rows left, the campaign and the unsubscribes as read before.
InBatch(w, left) ==
  Goto(w, [at |-> "batch", left |-> left, tries |-> work[w].tries,
           campaign |-> work[w].campaign, unsub |-> work[w].unsub])

\* A row of a cancelled campaign or of someone who unsubscribed.
Drop(w, r) ==
  /\ work[w].at = "batch"
  /\ r \in work[w].left \cap Dropped(w)
  /\ status' = [status EXCEPT ![r] = "failed"]
  /\ retries' = [retries EXCEPT ![r] = MaxAttempts]
  /\ stale' = stale \ {r}
  /\ InBatch(w, work[w].left \ {r})
  /\ UNCHANGED <<campaign, unsub, handler, history, faults>>

\* The UPDATE returned an error, which nobody looks at.
DropFails(w, r) ==
  /\ work[w].at = "batch"
  /\ r \in work[w].left \cap Dropped(w)
  /\ Fault
  /\ InBatch(w, work[w].left \ {r})
  /\ UNCHANGED <<campaign, queue, unsub, handler, history>>

\* One attempt has up to two tries: sendMarketingMail asks the HTTP API, and when that
\* throws, be it of a timeout, the SMTP server.  A try is ok, refused, or unheard of: the
\* message was taken and the answer did not arrive.  These are those that may be unheard.
Unheard(ok) == 0 .. (IF ok THEN 1 ELSE 2)

Send(w, r) ==
  /\ work[w].at = "batch"
  /\ r \in work[w].left \ Dropped(w)
  /\ \E ok \in BOOLEAN : \E unheard \in Unheard(ok) :
       /\ IF unheard > 0 THEN Fault ELSE NoFault
       /\ accepted' = [accepted EXCEPT ![r] = @ + unheard + IF ok THEN 1 ELSE 0]
       /\ lost' = [lost EXCEPT ![r] = @ + unheard]
       /\ late' = [late EXCEPT ![w] = @ + IF campaign = "cancelled" THEN 1 ELSE 0]
       /\ Goto(w, [at |-> "marking", left |-> work[w].left \ {r},
                   tries |-> work[w].tries, campaign |-> work[w].campaign,
                   unsub |-> work[w].unsub, row |-> r, ok |-> ok])
  /\ UNCHANGED <<campaign, queue, unsub, handler, crashed>>

\* markSent, or markFailed with the retry count read at the claim.
Mark(w) ==
  LET r == work[w].row
      n == work[w].tries[r] + 1
  IN
  /\ work[w].at = "marking"
  /\ status' = [status EXCEPT ![r] = IF work[w].ok THEN "sent" ELSE "failed"]
  /\ retries' = [retries EXCEPT ![r] = IF work[w].ok THEN @ ELSE n]
  /\ stale' = stale \ {r}
  /\ InBatch(w, work[w].left)
  /\ UNCHANGED <<campaign, unsub, handler, history, faults>>

\* Again an UPDATE whose error nobody looks at.
MarkFails(w) ==
  /\ work[w].at = "marking"
  /\ Fault
  /\ lost' = [lost EXCEPT ![work[w].row] = @ + IF work[w].ok THEN 1 ELSE 0]
  /\ InBatch(w, work[w].left)
  /\ UNCHANGED <<campaign, queue, unsub, handler, accepted, late, crashed>>

\* finalizeCampaignsIfDone: two counts and an update, in three statements.
CountOpen(w) ==
  /\ work[w].at = "batch" /\ work[w].left = {}
  /\ Goto(w, IF Open = {} THEN [at |-> "drained", left |-> {}] ELSE Idle)
  /\ UNCHANGED <<campaign, queue, unsub, handler, history, faults>>

CountSent(w) ==
  /\ work[w].at = "drained"
  /\ Goto(w, [at |-> "closing", left |-> {},
              to |-> IF \E r \in Rows : status[r] = "sent" THEN "sent" ELSE "failed"])
  /\ UNCHANGED <<campaign, queue, unsub, handler, history, faults>>

\* .eq("status", "sending")
Close(w) ==
  /\ work[w].at = "closing"
  /\ campaign' = IF campaign = "sending" THEN work[w].to ELSE campaign
  /\ Goto(w, Idle)
  /\ UNCHANGED <<queue, unsub, handler, history, faults>>

\* The process dies, or a call of the tick throws or fails: what it was about to
\* record is not recorded, the closing of the campaign included.
Crash(w) ==
  /\ work[w] # Idle
  /\ Fault
  /\ lost' = IF work[w].at = "marking" /\ work[w].ok
             THEN [lost EXCEPT ![work[w].row] = @ + 1] ELSE lost
  /\ crashed' = TRUE
  /\ Goto(w, Idle)
  /\ UNCHANGED <<campaign, queue, unsub, handler, accepted, late>>

\* Mutant: the stale window is shorter than a batch.
AgeEarly(r) ==
  /\ status[r] = "processing" /\ r \notin stale
  /\ stale' = stale \cup {r}
  /\ UNCHANGED <<campaign, status, retries, unsub, work, handler, history, faults>>

\* EMAIL_QUEUE_STALE_MINUTES pass over a claim.  The setting "must comfortably
\* exceed the longest realistic batch runtime": only a claim that no running
\* tick holds goes stale.
Age(r) ==
  /\ status[r] = "processing" /\ r \notin stale
  /\ \A w \in Workers : r \notin Held(w)
  /\ stale' = stale \cup {r}
  /\ UNCHANGED <<campaign, status, retries, unsub, work, handler, history, faults>>

Unsubscribe(r) ==
  /\ unsub' = unsub \cup {r}
  /\ UNCHANGED <<campaign, queue, work, handler, history, faults>>

-----------------------------------------------------------------------------
\* Handlers that move the campaign: each reads its status, then writes it.

Fetched == [send |-> {"draft", "scheduled"}, schedule |-> {"draft", "scheduled"},
            cancel |-> {"scheduled", "sending"}, promote |-> {"scheduled"}]
Written == [send |-> "sending", schedule |-> "scheduled",
            cancel |-> "cancelled", promote |-> "sending"]

Fetch(h, job) ==
  /\ handler[h] = Idle
  /\ campaign \in Fetched[job]
  /\ handler' = [handler EXCEPT ![h] = [at |-> job]]
  /\ UNCHANGED <<campaign, queue, unsub, work, history, faults>>

\* Only the scheduler's UPDATE repeats the status it read.
Write(h) ==
  /\ handler[h] # Idle
  /\ campaign' = IF handler[h].at = "promote" /\ campaign # "scheduled"
                 THEN campaign ELSE Written[handler[h].at]
  /\ handler' = [handler EXCEPT ![h] = Idle]
  /\ late' = IF campaign' = "cancelled" /\ campaign # "cancelled"
             THEN [w \in Workers |-> 0] ELSE late
  /\ UNCHANGED <<queue, unsub, work, accepted, lost, crashed, faults>>

-----------------------------------------------------------------------------
WorkerStep(w) ==
  \/ Claim(w)
  \/ LoadCampaign(w)
  \/ CheckUnsubs(w)
  \/ \E r \in Rows : Drop(w, r) \/ Send(w, r)
  \/ Mark(w)
  \/ CountOpen(w)
  \/ CountSent(w)
  \/ Close(w)

Next ==
  \/ \E w \in Workers :
       \/ WorkerStep(w)
       \/ ReleaseClaims(w)
       \/ \E r \in Rows : DropFails(w, r)
       \/ MarkFails(w)
       \/ Crash(w)
  \/ \E r \in Rows : Age(r) \/ Unsubscribe(r)
  \/ \E h \in Handlers : Write(h) \/ \E job \in DOMAIN Fetched : Fetch(h, job)

\* The cron fires every minute in every process, and time passes.
Fairness ==
  /\ \A w \in Workers : WF_vars(WorkerStep(w))
  /\ \A r \in Rows : WF_vars(Age(r))

Spec == Init /\ [][Next]_vars
FairSpec == Spec /\ Fairness

-----------------------------------------------------------------------------
\* Properties.

CampaignStatuses == {"draft", "scheduled", "sending", "sent", "failed", "cancelled"}
RowStatuses == {"pending", "processing", "sent", "failed"}
Stages == {"idle", "claimed", "loaded", "batch", "marking", "drained", "closing"}

\* The shape of the two tables, and counts within their bounds.
TypeOK ==
  /\ campaign \in CampaignStatuses
  /\ status \in [Rows -> RowStatuses]
  /\ retries \in [Rows -> 0..MaxAttempts]
  /\ stale \subseteq Rows /\ unsub \subseteq Rows
  /\ \A w \in Workers : work[w].at \in Stages /\ Held(w) \subseteq Rows
  /\ \A h \in Handlers : handler[h].at \in DOMAIN Fetched \cup {"idle"}
  /\ accepted \in [Rows -> Nat] /\ lost \in [Rows -> Nat] /\ late \in [Workers -> Nat]
  /\ crashed \in BOOLEAN /\ faults \in 0..MaxFaults

\* A recipient gets the mail again only for a message the queue could not know of:
\* the answer of the mail server was lost (then the SMTP fallback, or the retry, sends
\* a second one), or the worker died, or its UPDATE failed, after the server took
\* it.  The claim lets no two workers hold a row, "another tick in this process, or
\* another replica", and what is marked sent stays so.
MailedOnce == \A r \in Rows : accepted[r] <= 1 + lost[r]

\* A campaign the queue closed has nothing left to send, and is 'failed' only
\* if it reached nobody.
ClosedWhenDrained ==
  /\ campaign \in {"sent", "failed"} => Open = {}
  /\ campaign = "failed" => \A r \in Rows : status[r] = "failed"

\* After a cancellation each worker mails at most the recipients of its batch.
CancelStopsTheQueue == \A w \in Workers : late[w] <= BatchSize

\* Every recipient is in the end sent the mail or given up on, also those
\* whose worker died holding them.
EveryRecipientDecided ==
  \A r \in Rows : <>(\/ status[r] = "sent"
                     \/ status[r] = "failed" /\ retries[r] = MaxAttempts)

\* A campaign that is being sent while it has work left does not stay so:
\* whichever worker marks the last row counts after it, also when statements
\* failed or answers were lost.  A worker that dies between the two, or its closing
\* UPDATE failing, leaves it at "sending", and so do rows all sent before the start.
CampaignFinishes ==
  campaign = "sending" /\ Open # {} ~> campaign # "sending" \/ crashed

\* The queue sends nothing for a campaign nobody started: the scheduler
\* "flips the campaign to 'sending' so jobs/emailCampaignQueue.js's own tick
\* picks up the newly-queued recipients".
NothingBeforeStart ==
  campaign \in {"draft", "scheduled"} => \A r \in Rows : accepted[r] = 0
=============================================================================
