---------------------------- MODULE MCWithdrawals ----------------------------
(* A fundraising collection whose contributors bear the fees, two payments  *)
(* that credit 400 and 200 kobo, and two withdrawal rows of 201: both fit    *)
(* when everything has settled, they race for the first payment, and a       *)
(* refresh that knows nothing of the collection counts a kobo or two too     *)
(* many, with which one fits into the second payment and both in the first.  *)
EXTENDS Withdrawals, Fees, Wallets, TLC

MCPayments == {"p", "q"}
MCGross == ("p" :> 410) @@ ("q" :> 205)
MCCredit(p, type, bearer) == CHOOSE n \in Credited(MCGross[p], type, bearer) : TRUE
MCNet == [p \in MCPayments |-> MCCredit(p, "fundraising", "contributor")]
MCNetByDefault == [p \in MCPayments |-> MCCredit(p, "fixed", "organizer")]
MCAmounts == {201}
MCSymmetry == Permutations(Rows) \cup Permutations(Sessions)

(* The figures of tests/financial.characterization.test.js that do not reach *)
(* the cap, in kobo.                                                         *)
ASSUME CharacterizedFees ==
  /\ Fees(500000, "fixed") = {[platform |-> 2500, gateway |-> 7500]}
  /\ TotalPayable(500000, "fixed", "organizer") = {500000}
  /\ TotalPayable(500000, "fixed", "contributor") = {510000}
  /\ Credited(510000, "fixed", "contributor") = {500000}
  /\ Credited(0, "fixed", "contributor") = {0}
  /\ TotalFees(0, "mystery") = {0}
  /\ Fees(100000, "mystery") = {[platform |-> 500, gateway |-> 1500]}

(* A collection of every type, and requests in both formats.                 *)
Tier(id, price) == [id |-> id, name |-> id, price |-> price]
Types == {"fixed", "tiered", "ticket", "open_pool", "fundraising"}
Collections ==
  [type : Types, bearer : {"contributor", "organizer"}, amount : {20001},
   tiers : {<<Tier("vip", 30003), Tier("regular", 10000)>>},
   minimum : {0, 20002}, cap : {0, 1}]
Picks == [id : {None, "vip"}, name : {None, "regular"}, quantity : {1, 2}]
Requests ==
  [metadata : BOOLEAN, bearer : {None, "contributor"},
   amount : {0, 20001, 20100, 30003, 60006}, contribution : {10000, 20003},
   pick : Picks, tickets : {<< >>} \cup {<<p, p>> : p \in Picks}]

(* Whatever a contributor is charged on top of an amount is what the receipt *)
(* calls fees, and the wallet counts the amount again to within a kobo: the  *)
(* two formats of initializePayment and the recomputation agree.             *)
ASSUME ChargedIsCredited ==
  \A c \in Collections, q \in Requests :
    \A r \in Initialized(c, q, 0) :
      LET asked == CASE q.metadata -> {r.stored}
                     [] c.type = "fixed" -> {c.amount}
                     [] c.type = "tiered" -> {30003}
                     [] OTHER -> {q.contribution}
      IN  \/ c.bearer = "organizer"
          \/ ~q.metadata /\ c.type \in {"ticket", "open_pool"}  \* fees already in
          \/ \A a \in asked :
               /\ \E t \in Receipts(c, {a}, r.charged) : t.platform + t.gateway = t.fees
               /\ Credited(r.charged, c.type, "contributor") \subseteq (a - 1)..(a + 1)

(* Where only the gateway fee is capped the single refinement does not give  *)
(* the amount back: between 66.7 and 202 times the cap.                      *)
ASSUME RefinedOnceDrifts ==
  \E gross \in TotalPayable(150 * FeeCap, "fixed", "contributor") :
    150 * FeeCap \notin Credited(gross, "fixed", "contributor")

(* Two collections of one account, at noon of day 2: c holds settled money, *)
(* money of this morning and a withdrawal of each kind; d was overdrawn.    *)
MCNow == 2 * Day + 12
MCLedger ==
  [paid |-> {"old", "new", "odd", "less"},
   net |-> ("old" :> 5000) @@ ("new" :> 2000) @@ ("odd" :> 10) @@ ("less" :> 1000),
   gross |-> ("old" :> 5100) @@ ("new" :> 2040) @@ ("odd" :> 10) @@ ("less" :> 1020),
   created |-> ("old" :> {51}) @@ ("new" :> {52}) @@ ("odd" :> {}) @@ ("less" :> {20}),
   requests |-> {"done", "open", "gone", "over"},
   amount |-> ("done" :> 1000) @@ ("open" :> 500) @@ ("gone" :> 700) @@ ("over" :> 5000),
   status |-> ("done" :> "approved") @@ ("open" :> "processing") @@ ("gone" :> "rejected")
                @@ ("over" :> "completed"),
   home |-> [r \in {"old", "new", "odd", "done", "open", "gone"} |-> "c"]
              @@ [r \in {"less", "over"} |-> "d"]]
MCOwner == [c \in {"c", "d"} |-> "host"]

(* The figures of tests/financial.characterization.test.js; the settled side *)
(* of the cutoff ends right before 04:00; a row without a time is settled.   *)
ASSUME CharacterizedWallet ==
  /\ SettlementCutoff(MCNow) = 52 /\ SettlementCutoff(52) = 52 /\ SettlementCutoff(51) = 28
  /\ WalletBalances(RowsOf(MCLedger, {"c"}), SettlementCutoff(MCNow)) =
       [net |-> 7010, gross |-> 7150, pending |-> 2000, withdrawn |-> 1000, available |-> 4010,
        ledger |-> 6010]
  /\ WalletBalances(RowsOf(MCLedger, {"d"}), SettlementCutoff(MCNow)).available = 0

(* Host and admin agree on what can be withdrawn, and call it differently;   *)
(* nobody else sees a collection; pooled, the overdraft of d eats up what    *)
(* is shown for c, so AccountWithinCollections is not an equation.           *)
ASSUME ViewsCompared ==
  LET now == SettlementCutoff(MCNow)
      account == AccountView(MCLedger, {"c", "d"}, {"c"}, now)
  IN  /\ \E host \in HostView(MCLedger, MCOwner, "host", "c", now) :
           /\ host.available = 3510 /\ host.available = AdminView(MCLedger, "c", now).withdrawable
           /\ host.withdrawn = host.successful + host.approved
           /\ host.available < AdminView(MCLedger, "c", now).available
      /\ HostView(MCLedger, MCOwner, "other", "c", now) = {}
      /\ account.available = 0 /\ account.active = 1 /\ account.total = 2010
      /\ AdminAccountView(MCLedger, {"c", "d"}, {"c"}, now) = [shown |-> account, withdrawn |-> 6000]

(* The cases of tests/financialReconcile.test.js; and money that left before *)
(* it settled, which the audit does not see: it compares with all of net.    *)
MCWallet == [updated |-> 1, net |-> 7010, gross |-> 7150, pending |-> 2000, withdrawn |-> 1000,
             available |-> 4010, ledger |-> 6010]
ASSUME Reconciles ==
  LET Of(l, c, wallets, cutoff) == Reconciled(l, c, wallets, l.paid, cutoff)
      stale == [MCWallet EXCEPT !.available = 4000, !.net = 7011]
      early == [MCLedger EXCEPT !.status = [@ EXCEPT !["gone"] = "approved"],
                                !.amount = [@ EXCEPT !["gone"] = 5500]]
  IN  /\ Of(MCLedger, "c", {MCWallet}, 52) = {[drift |-> {}, issues |-> {}, ok |-> TRUE]}
      /\ \A r \in Of(MCLedger, "c", {stale}, 52) : r.drift = {"available"} /\ ~r.ok
      /\ \A r \in Of(MCLedger, "c", {MCWallet}, 76) : r.drift = {"available", "pending"}
      /\ \A r \in Of(MCLedger, "c", {}, 52) : r.drift = {"wallet"} /\ r.issues = {"NO_WALLET"}
      /\ \A r \in Of(MCLedger, "c", {MCWallet, [stale EXCEPT !.updated = 0]}, 52) :
           r.drift = {} /\ r.issues = {"MULTIPLE_WALLETS"}
      /\ \A r \in Of(MCLedger, "d", {MCWallet}, 52) : r.issues = {"OVER_WITHDRAWN"}
      /\ \A r \in Of(early, "c", {MCWallet}, 52) : r.issues = {}
      /\ WalletBalances(RowsOf(early, {"c"}), 52).withdrawn > 5010
      /\ DOMAIN Report(MCLedger, [c \in {"c", "d"} |-> IF c = "d" THEN "deleted" ELSE "active"],
                       [c \in {"c", "d"} |-> {MCWallet}], {}, 52) = {"c"}

(* Two tables with rows of one time: the merged feed is exactly the newest.  *)
ASSUME FeedOfSmallTables ==
  \A at \in [{"a", "b", "x", "y"} -> 1..3], k \in 0..3 :
    Feed({"a", "b"}, {"x", "y"}, at, k) = Newest({"a", "b", "x", "y"}, at, k)
ASSUME ActivityTypes ==
  [s \in {"approved", "failed", "processing", "pending"} |-> ActivityType(s)] =
    ("approved" :> "withdrawal_approved") @@ ("failed" :> "withdrawal_rejected")
      @@ ("processing" :> "withdrawal_pending") @@ ("pending" :> "withdrawal_requested")
=============================================================================
