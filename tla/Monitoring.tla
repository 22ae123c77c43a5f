------------------------------ MODULE Monitoring ------------------------------
(***************************************************************************)
(* The payment monitoring of the admin panel:                              *)
(* controllers/admin/paymentMonitoring.js.  A payment is one               *)
(* pending_payment_context row with what the other tables hold of its      *)
(* reference at one moment:                                                *)
(*   age       minutes since checkout                                      *)
(*   rows      statuses of the contributions that carry the reference      *)
(*   recorded  minutes since the contribution was created                  *)
(*   log       payment_recovery_log, written by verify-paystack-payment    *)
(*   actions   payment_admin_actions, in order                             *)
(* An operation on a payment is the set of what it may be afterwards; the  *)
(* panel's lists are sets of references of a function from references to   *)
(* payments.                                                               *)
(***************************************************************************)
EXTENDS Integers, Sequences, FiniteSets, Functions

Grace == 5                       \* ORPHAN_THRESHOLD_MINUTES
Lookback == 7 * 24 * 60          \* LOOKBACK_DAYS
RecoverySources == {"scheduled_recovery", "admin_reconcile"}
Sources == RecoverySources \cup {"frontend_callback", "webhook"}
AdminActions == {"retry", "manual_reconcile", "retry_all", "mark_resolved", "add_note"}

Monitored == [age : Nat, rows : SUBSET {"paid", "pending"}, recorded : Int,
              log : Seq([source : Sources, success : BOOLEAN]),
              actions : Seq(AdminActions)]

-----------------------------------------------------------------------------
\* loadPaymentMonitoringState.

Resolved(p) == p.actions # << >> /\ p.actions[Len(p.actions)] = "mark_resolved"
FailedAttempt(p) == \E i \in DOMAIN p.log : ~p.log[i].success
Recovered(p) == \E i \in DOMAIN p.log : p.log[i].success /\ p.log[i].source \in RecoverySources

Category(p, row) ==
  CASE row = "paid" /\ Recovered(p) -> "recovered"
    [] row = "paid" /\ ~Recovered(p) -> "successful"
    [] row # "paid" /\ Resolved(p) -> "resolved"
    [] row # "paid" /\ ~Resolved(p) /\ p.age < Grace -> "pending"
    [] row # "paid" /\ ~Resolved(p) /\ p.age >= Grace /\ FailedAttempt(p) -> "failed"
    [] OTHER -> "orphaned"

\* contributions.find(..) takes any row of the reference.
Categories(p) == {Category(p, row) : row \in IF p.rows = {} THEN {"none"} ELSE p.rows}

\* Of the window, the youngest up to a limit (500).
Loaded(payments, limit) ==
  LET window == {r \in DOMAIN payments : payments[r].age <= Lookback}
  IN  {T \in SUBSET window :
         /\ IF Cardinality(window) <= limit THEN T = window ELSE Cardinality(T) = limit
         /\ \A t \in T, r \in window \ T : payments[t].age <= payments[r].age}

-----------------------------------------------------------------------------
\* getPaymentMonitoring, on what was loaded.

Tab(items, cats) == {r \in DOMAIN items : Categories(items[r]) \cap cats # {}}
AwaitingTab(items) == Tab(items, {"pending", "orphaned", "failed"})
AwaitingRecovery(items) == Tab(items, {"orphaned", "failed"})
AwaitingContribution(items) ==
  {r \in DOMAIN items : items[r].rows = {} /\ ~Resolved(items[r])}

\* Math.round(num / den) of naturals; null when there is nothing to divide by.
Rate(num, den) == IF den = 0 THEN {} ELSE {(2 * num + den) \div (2 * den)}

SuccessRate(log, source) ==
  LET of == {i \in DOMAIN log : log[i].source = source}
  IN  Rate(100 * Cardinality({i \in of : log[i].success}), Cardinality(of))

\* How long recovered payments were broken; clocks that disagree are left out.
TimeToRecovery(items) ==
  LET broken == [r \in DOMAIN items |-> items[r].age - items[r].recorded]
      samples == {r \in Tab(items, {"recovered"}) : broken[r] >= 0}
  IN  Rate(SumFunctionOnSet(broken, samples), Cardinality(samples))

\* Seconds to the next multiple of five minutes.
NextSweep(minute, second) == (5 - (minute % 5)) * 60 - second

Stats(items, today, minute, second, log) ==
  LET Today(cat) == {r \in Tab(items, {cat}) : items[r].recorded <= today}
  IN  [successfulToday |-> Cardinality(Today("successful")),
       recoveredToday |-> Cardinality(Today("recovered")),
       pendingVerification |-> Cardinality(Tab(items, {"pending"})),
       orphaned |-> Cardinality(Tab(items, {"orphaned"})),
       failedRecoveries |-> Cardinality(Tab(items, {"failed"})),
       mttr |-> TimeToRecovery(items),
       awaitingRecovery |-> Cardinality(AwaitingRecovery(items)),
       awaitingContribution |-> Cardinality(AwaitingContribution(items)),
       nextSweep |-> NextSweep(minute, second),
       successRate |-> [s \in Sources |-> SuccessRate(log, s)]]

-----------------------------------------------------------------------------
\* What happens to a payment.

\* The edge function records it or fails; its log entry is best effort.  A replay of
\* a recorded payment is a success.
Verified(p, source) ==
  LET Logs(ok) == {p.log, Append(p.log, [source |-> source, success |-> ok])}
  IN  {[p EXCEPT !.rows = @ \cup {"paid"}, !.log = l] : l \in Logs(TRUE)}
        \cup {[p EXCEPT !.log = l] : l \in Logs(FALSE)}

\* logAdminAction: whether the insert succeeded is not looked at.
Logged(p, action) == {p, [p EXCEPT !.actions = Append(@, action)]}

\* controllers/admin/payments.js; leaves nothing in the actions.
ReconcilePayment(p) == Verified(p, "admin_reconcile")

\* retryPayment, manualReconcilePayment and one payment of retryAllFailed.
Retried(p, action) == UNION {Logged(q, action) : q \in Verified(p, "admin_reconcile")}
RetryPayment(p) == Retried(p, "retry")
ManualReconcilePayment(p) == Retried(p, "manual_reconcile")
ResolvePayment(p) == Logged(p, "mark_resolved")
AddPaymentNote(p) == Logged(p, "add_note")

\* retryAllFailed: chosen from one load, three at a time; when its turn comes a payment
\* may no longer be what it was then.
RetryAllChosen(items) == Tab(items, {"failed"})
RetryAllFailed(p) == Retried(p, "retry_all")

\* Minutes pass.
Aged(p, minutes) == [p EXCEPT !.age = @ + minutes, !.recorded = @ + minutes]

Happens(p) ==
  (UNION {Verified(p, source) : source \in Sources})
    \cup ReconcilePayment(p) \cup RetryPayment(p) \cup ManualReconcilePayment(p) \cup RetryAllFailed(p)
    \cup ResolvePayment(p) \cup AddPaymentNote(p)
=============================================================================
