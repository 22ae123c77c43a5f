----------------------------- MODULE PaymentNotice -----------------------------
(***************************************************************************)
(* How a paid reference becomes a recorded contribution and one            *)
(* notification to the organizer (controllers/deposit.js). Paystack        *)
(* delivers charge.success until it is answered 2xx, and may deliver it    *)
(* again after that. handleWebhook records the payment through the edge    *)
(* function verify-paystack-payment, unless it is recorded already, and    *)
(* notifies; the edge function, whoever called it, asks for the receipt,   *)
(* whose handler notifies too. PushDelivery is what a notification does.   *)
(*                                                                         *)
(* The edge function is not in the repository: a call of it that answers   *)
(* 2xx has recorded the payment, and one that does not may have.           *)
(***************************************************************************)
EXTENDS PushDelivery

CONSTANTS
  Hooks,    \* deliveries of the webhook in handling at once
  Receipt,  \* the call of sendReceiptNotification
  Sweeper   \* a run of retryUndeliveredNotifications

ASSUME NoticeAssumption == Senders = Hooks \cup {Receipt, Sweeper}

VARIABLES
  recorded,  \* a paid row of contributions has the reference
  receipt,   \* the edge function's call for the receipt: "none", "due", "done"
  hook,      \* where each delivery of the webhook stands
  answered   \* Paystack got a 2xx answer

noticeVars == <<recorded, receipt, hook, answered>>
allVars == <<pushVars, noticeVars>>

NoticeInit ==
  /\ PushInit
  /\ recorded = FALSE /\ receipt = "none"
  /\ hook = [h \in Hooks |-> "idle"]
  /\ answered = FALSE

HookGoes(h, from, to) == hook[h] = from /\ hook' = [hook EXCEPT ![h] = to]

\* The edge function records the payment and, the first time, asks for a receipt.
Record ==
  /\ recorded' = TRUE
  /\ receipt' = IF recorded THEN receipt ELSE "due"

\* The edge function records the payment for an admin (reconcilePayment), for the
\* payer's browser, or for a webhook that gave the call up.
EdgeRecords ==
  /\ ~recorded
  /\ Record
  /\ UNCHANGED <<hook, answered, pushVars>>

-----------------------------------------------------------------------------
(* handleWebhook *)

Receive(h) ==
  /\ HookGoes(h, "idle", "checking")
  /\ UNCHANGED <<recorded, receipt, answered, pushVars>>

\* Mutant: a payment recorded by someone else is answered at once.
CheckAndAnswer(h) ==
  /\ HookGoes(h, "checking", IF recorded THEN "idle" ELSE "verifying")
  /\ answered' = (answered \/ recorded)
  /\ UNCHANGED <<recorded, receipt, pushVars>>

\* Safety-net check #1.
CheckRecorded(h) ==
  /\ HookGoes(h, "checking", IF recorded THEN "noticing" ELSE "verifying")
  /\ UNCHANGED <<recorded, receipt, answered, pushVars>>

\* The lookup failed, which is not fatal.
CheckFails(h) ==
  /\ HookGoes(h, "checking", "verifying")
  /\ Fault
  /\ UNCHANGED <<recorded, receipt, answered>>
  /\ UNCHANGED <<eventRow, bell, subscribed, send, shown, rowless>>

EdgeAnswers(h) ==
  /\ HookGoes(h, "verifying", "noticing")
  /\ Record
  /\ UNCHANGED <<answered, pushVars>>

\* Mutant: a failed verification is acknowledged, so Paystack stops.
EdgeFailsAcknowledged(h) ==
  /\ HookGoes(h, "verifying", "idle")
  /\ answered' = TRUE
  /\ Fault
  /\ UNCHANGED <<recorded, receipt, eventRow, bell, subscribed, send, shown, rowless>>

\* An error, or 25 seconds without an answer: 500, and Paystack delivers again.
EdgeFails(h) ==
  /\ HookGoes(h, "verifying", "idle")
  /\ Fault
  /\ UNCHANGED <<recorded, receipt, answered>>
  /\ UNCHANGED <<eventRow, bell, subscribed, send, shown, rowless>>

\* notifyContributionByReference found the contribution and calls sendPushToUser.
Notify(h) ==
  /\ HookGoes(h, "noticing", "pushing")
  /\ Call(h)
  /\ UNCHANGED <<recorded, receipt, answered>>
  /\ UNCHANGED <<eventRow, bell, subscribed, shown, rowless, faults>>

\* Its reads failed and came back empty: nothing is sent, nothing is reported.
NotifySkipped(h) ==
  /\ HookGoes(h, "noticing", "pushing")
  /\ rowless' = TRUE
  /\ Fault
  /\ UNCHANGED <<recorded, receipt, answered, eventRow, bell, subscribed, send, shown>>

AnswerHook(h) ==
  /\ HookGoes(h, "pushing", "idle")
  /\ send[h] = NoCall
  /\ answered' = TRUE
  /\ UNCHANGED <<recorded, receipt, pushVars>>

-----------------------------------------------------------------------------
(* sendReceiptNotification, and processes that die *)

ReceiptNotifies ==
  /\ receipt = "due" /\ receipt' = "done"
  /\ Call(Receipt)
  /\ UNCHANGED <<recorded, hook, answered>>
  /\ UNCHANGED <<eventRow, bell, subscribed, shown, rowless, faults>>

\* The call is lost, or refused before it notifies.
ReceiptLost ==
  /\ receipt = "due" /\ receipt' = "done"
  /\ Fault
  /\ UNCHANGED <<recorded, hook, answered>>
  /\ UNCHANGED <<eventRow, bell, subscribed, send, shown, rowless>>

Crash(s) ==
  /\ send[s] # NoCall \/ (s \in Hooks /\ hook[s] # "idle")
  /\ Goto(s, NoCall)
  /\ hook' = [h \in Hooks |-> IF h = s THEN "idle" ELSE hook[h]]
  /\ Fault
  /\ UNCHANGED <<recorded, receipt, answered, eventRow, bell, subscribed, shown, rowless>>

HookStep(h) ==
  \/ CheckRecorded(h) \/ CheckFails(h) \/ EdgeAnswers(h) \/ EdgeFails(h)
  \/ Notify(h) \/ NotifySkipped(h) \/ AnswerHook(h)

PushStep(s) == SenderStep(s) /\ UNCHANGED noticeVars
Retry == Sweep(Sweeper) /\ UNCHANGED noticeVars

NoticeNext ==
  \/ EdgeRecords
  \/ \E h \in Hooks : Receive(h) \/ HookStep(h)
  \/ ReceiptNotifies \/ ReceiptLost
  \/ \E s \in Senders : PushStep(s) \/ Crash(s)
  \/ Retry
  \/ World /\ UNCHANGED noticeVars

NoticeSpec == NoticeInit /\ [][NoticeNext]_allVars

\* Handlers run on, Paystack delivers until it is answered, the job runs every 5 minutes.
Fairness ==
  /\ \A h \in Hooks : WF_allVars(HookStep(h))
  /\ \A s \in Senders : WF_allVars(PushStep(s))
  /\ WF_allVars(~answered /\ \E h \in Hooks : Receive(h))
  /\ WF_allVars(ReceiptNotifies)
  /\ WF_allVars(Retry)

FairSpec == NoticeSpec /\ Fairness

-----------------------------------------------------------------------------
NoticeTypeOK ==
  /\ PushTypeOK
  /\ recorded \in BOOLEAN /\ answered \in BOOLEAN
  /\ receipt \in {"none", "due", "done"}
  /\ hook \in [Hooks -> {"idle", "checking", "verifying", "noticing", "pushing"}]

(* However many deliveries, receipts and retries ask for it, a device shows  *)
(* the payment once, and once more for each fault at most: "Concurrent       *)
(* webhook/callback/job paths cannot both send it".                          *)
PushedOnce == \A d \in Devices : shown[d] <= 1 + faults

(* An event that was delivered, or had no device to go to, stays so: no      *)
(* retry, new subscription or late result brings it back once nobody holds   *)
(* it.                                                                       *)
Settled == event \in Terminal /\ Holders = {}
DoneIsFinal == [][Settled => event' = event]_allVars

(* Paystack stops delivering only a payment that is recorded and whose       *)
(* notification was taken up, unless the reads of the notifier failed.       *)
AnsweredMeansNotified == answered => recorded /\ (event # "none" \/ rowless)

(* Every payment Paystack reports is recorded and its notification taken up  *)
(* in the end, whatever call fails or dies on the way.                       *)
PaymentGetsNotice == <>(recorded /\ (event # "none" \/ rowless))

(* A notification that was taken up is delivered, or found without device,   *)
(* or given up for its age or its attempts; only one left 'processing' by a  *)
(* call that died or could not write its result is stranded.                 *)
Stranded == event = "processing" /\ Holders = {}
EventDecided ==
  event # "none" ~> \/ event \in Terminal
                    \/ attempts = MaxAttempts \/ ~young
                    \/ Stranded
=============================================================================
