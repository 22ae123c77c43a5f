------------------------------- MODULE Wallets -------------------------------
(***************************************************************************)
(* What the books say: the wallet of a collection and of an account as the *)
(* host's dashboard and the admin panel show it, and the reconciliation    *)
(* that looks for drift and impossible states.  Nothing here writes.       *)
(*                                                                         *)
(* A ledger is what the queries of one such report returned:               *)
(*   paid        'paid' contributions; net and gross are what              *)
(*               normalizeContributions makes of them (Fees)               *)
(*   created     the time of a contribution, {} where the column is null   *)
(*   requests    withdrawal rows, with amount and status                   *)
(*   home        the collection of a contribution or a withdrawal          *)
(* The queries run side by side with no snapshot, so `paid' and `requests' *)
(* may stem from two moments: nothing below relates the two.               *)
(***************************************************************************)
EXTENDS Integers, FiniteSets, Functions

PaidOut == {"completed", "successful", "success", "approved"}  \* COMPLETED_WITHDRAWAL_STATUSES
InFlight == {"pending", "processing"}                          \* PENDING_WITHDRAWAL_STATUSES
Day == 24
SettlementHour == 4

AtLeast0(n) == IF n < 0 THEN 0 ELSE n

\* The last 04:00 UTC at or before now, in hours.
SettlementCutoff(now) ==
  LET today == now - (now % Day) + SettlementHour
  IN  IF now >= today THEN today ELSE today - Day

-----------------------------------------------------------------------------
\* computeWalletBalances.

Unsettled(l, cutoff) == {c \in l.paid : \E t \in l.created[c] : t >= cutoff}
Requested(l, statuses) ==
  SumFunctionOnSet(l.amount, {w \in l.requests : l.status[w] \in statuses})

WalletBalances(l, cutoff) ==
  LET net == SumFunctionOnSet(l.net, l.paid)
      unsettled == SumFunctionOnSet(l.net, Unsettled(l, cutoff))
      left == Requested(l, PaidOut)
      free == AtLeast0(net - unsettled - left)
  IN  [net |-> net, gross |-> SumFunctionOnSet(l.gross, l.paid), pending |-> unsettled,
       withdrawn |-> left, available |-> free, ledger |-> free + unsettled]

\* computeWithdrawalEligibility with computePendingWithdrawals.
Withdrawable(l, cutoff) ==
  AtLeast0(WalletBalances(l, cutoff).available - Requested(l, InFlight))

-----------------------------------------------------------------------------
\* The dashboard and the admin's live wallet.

\* The rows of some collections, pooled.
RowsOf(l, cs) ==
  [l EXCEPT !.paid = {c \in @ : l.home[c] \in cs}, !.requests = {w \in @ : l.home[w] \in cs}]

\* getDashboardStats; cs are the user's collections, of any status.  Without one there
\* is nothing to read and every figure is 0, as it is here.
AccountView(l, cs, active, cutoff) ==
  LET own == RowsOf(l, cs)
      b == WalletBalances(own, cutoff)
  IN  [collections |-> Cardinality(cs), active |-> Cardinality(cs \cap active),
       total |-> b.ledger, available |-> Withdrawable(own, cutoff), pending |-> b.pending,
       raised |-> b.net, requested |-> Requested(own, InFlight)]

\* getUserWalletLive has the withdrawn total besides.
AdminAccountView(l, cs, active, cutoff) ==
  [shown |-> AccountView(l, cs, active, cutoff), withdrawn |-> Requested(RowsOf(l, cs), PaidOut)]

\* getCollectionDashboardStats: nothing for a collection of somebody else.  Its
\* `available' has the open requests taken off.
HostView(l, owner, user, c, cutoff) ==
  LET own == RowsOf(l, {c})
      b == WalletBalances(own, cutoff)
  IN  IF owner[c] # user THEN {}
      ELSE {[raised |-> b.net, total |-> b.ledger, available |-> Withdrawable(own, cutoff),
             pending |-> b.pending, requested |-> Requested(own, InFlight),
             withdrawn |-> b.withdrawn,
             successful |-> Requested(own, {"success", "successful", "completed"}),
             approved |-> Requested(own, {"approved"}), count |-> Cardinality(own.paid)]}

\* getCollectionWalletLive: the admin's `available' has not; `withdrawable' has.
AdminView(l, c, cutoff) ==
  LET own == RowsOf(l, {c})
      b == WalletBalances(own, cutoff)
  IN  [raised |-> b.net, gross |-> b.gross, total |-> b.ledger, ledger |-> b.ledger,
       available |-> b.available, pending |-> b.pending, withdrawable |-> Withdrawable(own, cutoff),
       requested |-> Requested(own, InFlight), withdrawn |-> b.withdrawn,
       count |-> Cardinality(own.paid)]

-----------------------------------------------------------------------------
\* collectionActivities.

ActivityType(s) ==
  CASE s \in PaidOut -> "withdrawal_approved"
    [] s \in {"rejected", "declined", "failed", "reversed"} -> "withdrawal_rejected"
    [] s = "processing" -> "withdrawal_pending"
    [] OTHER -> "withdrawal_requested"

\* ORDER BY at DESC LIMIT k: whichever of several rows of one time.
Newest(S, at, k) ==
  {T \in SUBSET S :
     /\ IF Cardinality(S) <= k THEN T = S ELSE Cardinality(T) = k
     /\ \A t \in T, s \in S \ T : at[t] >= at[s]}

\* The newest k of each table, merged, and the newest k of those.
Feed(contributions, withdrawals, at, k) ==
  UNION {Newest(A \cup B, at, k) :
           A \in Newest(contributions, at, k), B \in Newest(withdrawals, at, k)}

-----------------------------------------------------------------------------
\* Reconciliation: utils/financialReconcile.js and its script.

Slack == 1                                  \* DEFAULT_TOLERANCE, in kobo
WalletFields == {"net", "gross", "pending", "available", "ledger", "withdrawn"}

\* Stored wallets: rows with a time and the six columns.  There may be several of a
\* collection; the latest counts, as it does for getCollectionWallet.
Active(wallets) == {w \in wallets : \A v \in wallets : w.updated >= v.updated}

\* diffWallet.
Drift(expected, stored) ==
  {f \in WalletFields : stored[f] - expected[f] > Slack \/ expected[f] - stored[f] > Slack}

\* checkInvariants: what may be wrong with the rows, and with the figures made of them.
Issue(code, when) == IF when THEN {code} ELSE {}
RowIssues(l, wallets, referenced) ==
  Issue("NO_WALLET", wallets = {})
    \cup Issue("MULTIPLE_WALLETS", Cardinality(wallets) > 1)
    \cup Issue("PAID_WITHOUT_REFERENCE", ~(l.paid \subseteq referenced))
FigureIssues(e) ==
  Issue("LEDGER_IDENTITY_BROKEN",
        e.available + e.pending - e.ledger > Slack \/ e.ledger - e.available - e.pending > Slack)
    \cup Issue("NEGATIVE_AVAILABLE", e.available < -Slack)
    \cup Issue("NEGATIVE_PENDING", e.pending < -Slack)
    \cup Issue("OVER_WITHDRAWN", e.withdrawn > e.net + Slack)
    \cup Issue("AVAILABLE_EXCEEDS_RAISED", e.available > e.net + Slack)

\* reconcileCollection; without a wallet the only drift is that there is none.
Reconciled(l, c, wallets, referenced, cutoff) ==
  LET own == RowsOf(l, {c})
      e == WalletBalances(own, cutoff)
      issues == RowIssues(own, wallets, referenced) \cup FigureIssues(e)
  IN  {[drift |-> d, issues |-> issues, ok |-> d \cup issues = {}] :
         d \in IF wallets = {} THEN {{"wallet"}} ELSE {Drift(e, w) : w \in Active(wallets)}}

\* reconcileFinancials: every collection that is not deleted, or some of them.
Report(l, state, wallets, referenced, cutoff) ==
  [c \in {d \in DOMAIN state : state[d] # "deleted"} |->
     Reconciled(l, c, wallets[c], referenced, cutoff)]
=============================================================================
