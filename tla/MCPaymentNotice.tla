---------------------------- MODULE MCPaymentNotice ----------------------------
(* A delivery of the webhook, the receipt and a run of the retry job at once. *)
EXTENDS PaymentNotice, Monitoring

MCSenders == Hooks \cup {Receipt, Sweeper}

-----------------------------------------------------------------------------
(* The monitoring panel, on a payment of every kind.                          *)
Entry(source, ok) == [source |-> source, success |-> ok]
Payment(age, rows, since, log, actions) ==
  [age |-> age, rows |-> rows, recorded |-> since, log |-> log, actions |-> actions]

Clean == Payment(30, {"paid"}, 29, <<Entry("webhook", TRUE)>>, << >>)
Missed == Payment(30, {"paid"}, 9, <<Entry("webhook", FALSE), Entry("scheduled_recovery", TRUE)>>, << >>)
Skewed == Payment(30, {"paid"}, 31, <<Entry("admin_reconcile", TRUE)>>, << >>)
Fresh == Payment(4, {}, 0, <<Entry("webhook", FALSE)>>, << >>)
Lost == Payment(5, {}, 0, << >>, << >>)
Failing == Payment(5, {}, 0, <<Entry("webhook", FALSE)>>, <<"retry">>)
Unpaid == Payment(90, {"pending"}, 80, << >>, << >>)
Closed == Payment(90, {}, 0, <<Entry("webhook", FALSE)>>, <<"add_note", "mark_resolved">>)
Old == Payment(Lookback + 1, {}, 0, << >>, << >>)

Panel ==
  [clean |-> Clean, missed |-> Missed, skewed |-> Skewed, fresh |-> Fresh, lost |-> Lost,
   failing |-> Failing, unpaid |-> Unpaid, closed |-> Closed, old |-> Old]

ASSUME CharacterizedCategories ==
  /\ Categories(Clean) = {"successful"}
  /\ \A p \in {Missed, Skewed} : Categories(p) = {"recovered"}
  /\ Categories(Fresh) = {"pending"}
  /\ \A p \in {Lost, Unpaid, Old} : Categories(p) = {"orphaned"}
  /\ Categories(Failing) = {"failed"}
  /\ Categories(Closed) = {"resolved"}
  /\ Categories([Failing EXCEPT !.rows = {"paid", "pending"}]) = {"successful", "failed"}
  /\ Categories(Aged(Fresh, 1)) = {"failed"}

(* The window has every payment but the old one, and the youngest ones first.  *)
ASSUME LoadedWindow ==
  /\ Loaded(Panel, 500) = {DOMAIN Panel \ {"old"}}
  /\ \A T \in Loaded(Panel, 4) : {"fresh", "lost", "failing"} \subseteq T
  /\ Cardinality(Loaded(Panel, 4)) = 3

(* An unpaid contribution is awaited in the list and not in the number, and a  *)
(* recovery older than its checkout does not count in the mean.                *)
ASSUME CharacterizedStats ==
  LET items == [r \in DOMAIN Panel \ {"old"} |-> Panel[r]]
      s == Stats(items, 29, 58, 13, Missed.log \o Missed.log \o Clean.log)
  IN  /\ s.successfulToday = 1 /\ s.recoveredToday = 1
      /\ s.pendingVerification = 1 /\ s.orphaned = 2 /\ s.failedRecoveries = 1
      /\ s.awaitingRecovery = 3 /\ s.awaitingContribution = 3
      /\ Cardinality(AwaitingTab(items)) = 4
      /\ s.mttr = {21}
      /\ s.nextSweep = 107
      /\ s.successRate["webhook"] = {33}
      /\ s.successRate["scheduled_recovery"] = {100}
      /\ s.successRate["admin_reconcile"] = {}

ASSUME SweepIsNear ==
  \A minute, second \in 0..59 : NextSweep(minute, second) \in 1..300

(* What may happen to each of them, twice: the panel's categories move from    *)
(* one to the next as a reader of the panel expects, but for two surprises:    *)
(* a clean payment turns recovered, and a closed one is open again.            *)
Twice(p) == UNION {Happens(q) : q \in Happens(p)}
Reaches(p) == UNION {Categories(q) : q \in Twice(p)}
ASSUME Reached ==
  /\ Reaches(Clean) = {"successful", "recovered"}
  /\ Reaches(Missed) = {"recovered"}
  /\ Reaches(Lost) = {"orphaned", "failed", "resolved", "successful", "recovered"}
  /\ Reaches(Closed) = {"resolved", "failed", "successful", "recovered"}
  /\ Reaches(Fresh) = {"pending", "resolved", "successful", "recovered"}

(* A payment that was chosen as failed and is recorded before its turn comes   *)
(* is retried all the same, and stays recorded.                                *)
ASSUME ChosenIsStale ==
  LET paid == {q \in Verified(Failing, "webhook") : q.rows = {"paid"}}
  IN  /\ RetryAllChosen([r \in {"a"} |-> Failing]) = {"a"}
      /\ \A q \in paid : \A then \in RetryAllFailed(q) :
           then \in Monitored /\ Categories(then) \subseteq {"successful", "recovered"}
=============================================================================
