------------------------- MODULE Withdrawals_proofs -------------------------
(***************************************************************************)
(* For any number of rows, handlers and payments, and any amounts:         *)
(*   - a withdrawal is approved at most once (PayoutInv);                  *)
(*   - the row lock of request_withdrawal_atomic() admits one session      *)
(*     (LockInv);                                                          *)
(*   - open and completed withdrawals stay within what settled, in the     *)
(*     controller up to two named windows, in the database function up to  *)
(*     a stored balance that was out of date (Covered);                    *)
(*   - the balance an approval stores lacks the amount approved (Deducted);*)
(*   - the stored balance holds nothing an approval took out (Stored).     *)
(***************************************************************************)
EXTENDS WithdrawalsAtomic, Fees, Wallets, Sums_proofs, TLAPS

-----------------------------------------------------------------------------
(* Approved at most once.                                                  *)

\* A row still open was never approved, and no row is approved twice.  That
\* PaidOutOnce survives an approval needs the first part: the UPDATE of
\* ApproveUpdate only succeeds on a row that is open when it runs.
PayoutInv ==
  /\ status \in [Rows -> Statuses]
  /\ payouts \in [Rows -> Nat]
  /\ \A w \in Rows : /\ payouts[w] <= 1
                     /\ status[w] \in {"none", "pending"} => payouts[w] = 0

LEMMA InitPayout == Init => PayoutInv
BY DEF Init, PayoutInv, Statuses

LEMMA KeepsPayout ==
  ASSUME PayoutInv, UNCHANGED <<status, payouts>>
  PROVE  PayoutInv'
BY DEF PayoutInv

\* Inserting a row leaves it unapproved.
LEMMA InsertKeepsPayout ==
  ASSUME PayoutInv, NEW s \in Sessions, NEW w \in Rows, InsertRow(s, w)
  PROVE  PayoutInv'
<1>1. /\ status[w] = "none"
      /\ status' = [status EXCEPT ![w] = "pending"]
      /\ payouts' = payouts
  BY DEF InsertRow
<1>2. status' \in [Rows -> Statuses] BY <1>1 DEF PayoutInv, Statuses
<1>3. QED BY <1>1, <1>2 DEF PayoutInv

\* The status predicate of the UPDATE: only an open row gains a payout.
LEMMA ApproveKeepsPayout ==
  ASSUME PayoutInv, NEW s \in Sessions, ApproveUpdate(s)
  PROVE  PayoutInv'
<1> DEFINE w == work[s].row
<1>1. CASE status[w] # "pending"
  <2>1. UNCHANGED <<status, payouts>> BY <1>1 DEF ApproveUpdate
  <2>2. QED BY <2>1, KeepsPayout
<1>2. CASE status[w] = "pending"
  <2>1. /\ status' = [status EXCEPT ![w] = "approved"]
        /\ payouts' = [payouts EXCEPT ![w] = @ + 1]
    BY <1>2 DEF ApproveUpdate
  <2>2. status' \in [Rows -> Statuses] /\ payouts' \in [Rows -> Nat]
    <3>1. status' \in [Rows -> Statuses] BY <2>1 DEF PayoutInv, Statuses
    <3>2. \A v \in Rows : payouts[v] + 1 \in Nat BY DEF PayoutInv
    <3>3. payouts' \in [Rows -> Nat]
      BY <2>1, <3>2 DEF PayoutInv
    <3>4. QED BY <3>1, <3>3
  <2>3. ASSUME NEW v \in Rows
        PROVE  /\ payouts'[v] <= 1
               /\ status'[v] \in {"none", "pending"} => payouts'[v] = 0
    <3>1. CASE v = w
      <4>1. payouts[v] = 0 BY <3>1, <1>2 DEF PayoutInv
      <4>2. payouts'[v] = 1 /\ status'[v] = "approved"
        BY <3>1, <4>1, <2>1 DEF PayoutInv
      <4>3. QED BY <4>2
    <3>2. CASE v # w
      BY <3>2, <2>1 DEF PayoutInv
    <3>3. QED BY <3>1, <3>2
  <2>4. QED BY <2>2, <2>3 DEF PayoutInv
<1>3. QED BY <1>1, <1>2

\* A rejection, of whatever row in whatever state, opens no row.
LEMMA RejectKeepsPayout ==
  ASSUME PayoutInv, NEW s \in Sessions, RejectUpdate(s)
  PROVE  PayoutInv'
<1>1. /\ status' = [status EXCEPT ![work[s].row] = "rejected"]
      /\ payouts' = payouts
  BY DEF RejectUpdate, history
<1>2. status' \in [Rows -> Statuses] BY <1>1 DEF PayoutInv, Statuses
<1>3. QED BY <1>1, <1>2 DEF PayoutInv

LEMMA NextPayout == PayoutInv /\ [Next]_vars => PayoutInv'
<1> SUFFICES ASSUME PayoutInv, [Next]_vars PROVE PayoutInv'
  OBVIOUS
<1>1. CASE UNCHANGED vars
  BY <1>1, KeepsPayout DEF vars
<1>2. CASE (\E p \in Payments : Pay(p)) \/ Cutoff \/ Settle
  BY <1>2, KeepsPayout DEF Pay, Cutoff, Settle, tables, history
<1>3. ASSUME NEW s \in Sessions, RefreshStep(s) \/ Die(s)
      PROVE  PayoutInv'
  BY <1>3, KeepsPayout
     DEF RefreshStep, ReadCollection, ReadContributions, ReadWithdrawals, WriteWallet, Die,
         tables, history
<1>4. ASSUME NEW s \in Sessions, RequestStep(s)
      PROVE  PayoutInv'
  <2>1. ASSUME NEW a \in Amounts, Request(s, a) PROVE PayoutInv'
    BY <2>1, KeepsPayout DEF Request, tables, history
  <2>2. CASE CheckCap(s)
    BY <2>2, KeepsPayout DEF CheckCap, tables, history
  <2>3. QED BY <1>4, <2>1, <2>2, InsertKeepsPayout DEF RequestStep
<1>5. ASSUME NEW s \in Sessions, AdminStep(s)
      PROVE  PayoutInv'
  <2>1. ASSUME NEW w \in Rows, ApproveRead(s, w) \/ RejectRead(s, w)
        PROVE  PayoutInv'
    BY <2>1, KeepsPayout DEF ApproveRead, RejectRead, tables, history
  <2>2. QED BY <1>5, <2>1, ApproveKeepsPayout, RejectKeepsPayout DEF AdminStep
<1>6. QED BY <1>1, <1>2, <1>3, <1>4, <1>5 DEF Next

\* No withdrawal is paid out twice (PaidOutOnce): the update of
\* approveWithdrawal is the only line that counts a payout, and its status
\* predicate holds at most once for a row.
THEOREM PaidOutAtMostOnce == Spec => []PaidOutOnce
<1>1. PayoutInv => PaidOutOnce BY DEF PayoutInv, PaidOutOnce
<1>2. QED BY <1>1, InitPayout, NextPayout, PTL DEF Spec

-----------------------------------------------------------------------------
(* The row lock.                                                           *)

\* No two sessions are inside the function.
LockInv ==
  /\ work = [s \in Sessions |-> work[s]]
  /\ \A s, t \in Sessions : InRpc(s) /\ InRpc(t) => s = t

LEMMA InitLock == Init => LockInv
<1> SUFFICES ASSUME Init PROVE LockInv
  OBVIOUS
<1>1. work = [s \in Sessions |-> work[s]]
  BY DEF Init
<1>2. \A s \in Sessions : work[s].at = "idle"
  BY DEF Init, Idle
<1>3. QED BY <1>1, <1>2 DEF LockInv, InRpc

\* A step of a session that ends outside the function, or stays in it.
LEMMA OutsideKeepsLock ==
  ASSUME LockInv, NEW s \in Sessions, NEW step, Goto(s, step),
         step.at \in {"rpcLocked", "rpcSummed"} => InRpc(s)
  PROVE  LockInv'
<1>1. \A t \in Sessions : work'[t] = IF t = s THEN step ELSE work[t]
  BY DEF Goto, LockInv
<1>2. work' = [t \in Sessions |-> work'[t]]
  BY DEF Goto, LockInv
<1>3. \A t \in Sessions : InRpc(t)' => InRpc(t)
  BY <1>1 DEF InRpc
<1>4. QED BY <1>2, <1>3 DEF LockInv

\* The lock is taken when it is free.
LEMMA TakesLock ==
  ASSUME LockInv, NEW s \in Sessions, NEW a \in Amounts, RpcLock(s, a)
  PROVE  LockInv'
<1>1. /\ \A t \in Sessions : t # s => work'[t] = work[t]
      /\ work' = [t \in Sessions |-> work'[t]]
      /\ WalletUnlocked
  BY DEF RpcLock, Goto, LockInv
<1>2. \A t \in Sessions : InRpc(t)' => t = s
  BY <1>1 DEF InRpc, WalletUnlocked
<1>3. QED BY <1>1, <1>2 DEF LockInv

\* The sum is made by the session that holds the lock, which keeps it or leaves;
\* with the insert it commits.
LEMMA FunctionKeepsLock ==
  ASSUME LockInv, NEW s \in Sessions, RpcSum(s) \/ \E w \in Rows : RpcInsert(s, w)
  PROVE  LockInv'
<1>1. CASE RpcSum(s)
  BY <1>1, OutsideKeepsLock DEF RpcSum, InRpc
<1>2. CASE \E w \in Rows : RpcInsert(s, w)
  BY <1>2, OutsideKeepsLock DEF RpcInsert, Refresh
<1>3. QED BY <1>1, <1>2

\* Reads and writes of a refresh.
LEMMA RefreshKeepsLock ==
  ASSUME LockInv, NEW s \in Sessions, RefreshStep(s)
  PROVE  LockInv'
<1>1. ASSUME NEW step, step.at = "reading", AfterRead(s, step)
      PROVE  LockInv'
  <2>1. CASE step.todo # {}
    BY <1>1, <2>1, OutsideKeepsLock DEF AfterRead
  <2>2. CASE step.todo = {}
    BY <1>1, <2>2, OutsideKeepsLock DEF AfterRead
  <2>3. QED BY <2>1, <2>2
<1>2. CASE ReadCollection(s)
  <2>1. PICK value : AfterRead(s, [work[s] EXCEPT !.todo = @ \ {"collection"}, !.settings = value])
    BY <1>2 DEF ReadCollection
  <2> DEFINE step == [work[s] EXCEPT !.todo = @ \ {"collection"}, !.settings = value]
  <2>2. step.at = work[s].at
    OBVIOUS
  <2>3. step.at = "reading"
    BY <1>2, <2>2 DEF ReadCollection
  <2>4. QED BY <1>1, <2>1, <2>3
<1>3. CASE ReadContributions(s)
  <2>1. PICK ps : AfterRead(s, [work[s] EXCEPT !.todo = @ \ {"contributions"}, !.paid = ps])
    BY <1>3 DEF ReadContributions
  <2> DEFINE step == [work[s] EXCEPT !.todo = @ \ {"contributions"}, !.paid = ps]
  <2>2. step.at = work[s].at
    OBVIOUS
  <2>3. step.at = "reading"
    BY <1>3, <2>2 DEF ReadContributions
  <2>4. QED BY <1>1, <2>1, <2>3
<1>4. CASE ReadWithdrawals(s)
  <2>1. PICK ws : AfterRead(s, [work[s] EXCEPT !.todo = @ \ {"withdrawals"}, !.out = Sum(ws)])
    BY <1>4 DEF ReadWithdrawals
  <2> DEFINE step == [work[s] EXCEPT !.todo = @ \ {"withdrawals"}, !.out = Sum(ws)]
  <2>2. step.at = work[s].at
    OBVIOUS
  <2>3. step.at = "reading"
    BY <1>4, <2>2 DEF ReadWithdrawals
  <2>4. QED BY <1>1, <2>1, <2>3
<1>5. CASE WriteWallet(s)
  <2>1. CASE work[s].task.job = "request"
    BY <1>5, <2>1, OutsideKeepsLock DEF WriteWallet
  <2>2. CASE work[s].task.job # "request"
    BY <1>5, <2>2, OutsideKeepsLock DEF WriteWallet, Idle
  <2>3. QED BY <2>1, <2>2
<1>6. QED BY <1>2, <1>3, <1>4, <1>5 DEF RefreshStep

\* The admin handlers never enter the function.
LEMMA AdminKeepsLock ==
  ASSUME LockInv, NEW s \in Sessions, AdminStep(s) \/ Die(s)
  PROVE  LockInv'
<1>1. ASSUME NEW w \in Rows, ApproveRead(s, w) \/ RejectRead(s, w) PROVE LockInv'
  <2>1. CASE ApproveRead(s, w)
    BY <2>1, OutsideKeepsLock DEF ApproveRead
  <2>2. CASE RejectRead(s, w)
    BY <2>2, OutsideKeepsLock DEF RejectRead
  <2>3. QED BY <1>1, <2>1, <2>2
<1>2. CASE ApproveUpdate(s)
  <2>1. CASE status[work[s].row] = "pending"
    BY <1>2, <2>1, OutsideKeepsLock DEF ApproveUpdate, Refresh
  <2>2. CASE status[work[s].row] # "pending"
    BY <1>2, <2>2, OutsideKeepsLock DEF ApproveUpdate, Idle
  <2>3. QED BY <2>1, <2>2
<1>3. CASE RejectUpdate(s) \/ Die(s)
  BY <1>3, OutsideKeepsLock DEF RejectUpdate, Die, Idle
<1>4. QED BY <1>1, <1>2, <1>3 DEF AdminStep

LEMMA StepLock == LockInv /\ [AtomicNext]_vars => LockInv'
<1> SUFFICES ASSUME LockInv, [AtomicNext]_vars PROVE LockInv'
  OBVIOUS
<1>1. CASE UNCHANGED work
  BY <1>1 DEF LockInv, InRpc
<1>2. ASSUME NEW s \in Sessions,
             \/ \E a \in Amounts : RpcLock(s, a)
             \/ RpcSum(s) \/ \E w \in Rows : RpcInsert(s, w)
             \/ RefreshStep(s) \/ AdminStep(s) \/ Die(s)
      PROVE  LockInv'
  BY <1>2, TakesLock, FunctionKeepsLock, RefreshKeepsLock, AdminKeepsLock
<1>3. QED BY <1>1, <1>2 DEF AtomicNext, RefreshStep, Pay, Cutoff, Settle, vars

-----------------------------------------------------------------------------
(* What is open is covered by what settled.                                *)

Readings == [at : {"reading"}, task : Tasks,
             todo : (SUBSET Reads) \ {{}}, settings : {"own", "default"},
             paid : SUBSET Payments, out : Nat]
Partials == [at : {"reading"}, task : Tasks, todo : SUBSET Reads, settings : {"own", "default"},
             paid : SUBSET Payments, out : Nat]
Computeds == [at : {"computed"}, task : Tasks, available : Nat]

\* What a handler carries along, in the controller or in the database function.
Proper(step) ==
  /\ step.at \in {"idle", "reading", "computed", "summing", "inserting", "approving",
                  "rejecting", "rpcLocked", "rpcSummed"}
  /\ step.at = "idle" => step = Idle
  /\ step.at = "reading" => step \in Readings
  /\ step.at = "computed" => step \in Computeds
  /\ step.at = "summing" => step \in [at : {"summing"}, amount : Amounts, available : Nat]
  /\ step.at = "inserting" => step \in [at : {"inserting"}, amount : Amounts]
  /\ step.at \in {"approving", "rejecting"} =>
       step \in [at : {"approving", "rejecting"}, row : Rows]
  /\ step.at = "rpcLocked" => step \in [at : {"rpcLocked"}, amount : Amounts, available : Nat]
  /\ step.at = "rpcSummed" => step \in [at : {"rpcSummed"}, amount : Amounts]

Tables ==
  /\ settled \subseteq paid /\ paid \subseteq Payments
  /\ status \in [Rows -> Statuses] /\ amount \in [Rows -> Nat]
  /\ wallet \in Nat /\ payouts \in [Rows -> Nat] /\ slips \subseteq {"race", "misread", "stale"}

Carried ==
  /\ work = [s \in Sessions |-> work[s]]
  /\ \A s \in Sessions : Proper(work[s])

\* No check was outdated, and no error taken for a better answer.
Clean == {"race", "misread"} \cap slips = {}

\* What is counted for a payment is at most what it is worth.
Weighed(step) == step.at = "reading" => step.settings = "own" \/ ~DefaultOverstates

Fair == "misread" \notin slips => \A s \in Sessions : Weighed(work[s])

\* What a request in flight knows of the balance is not more than there is.
CoveredStep(step) ==
  /\ step.at \in {"inserting", "rpcSummed"} =>
       Sum(Pending \cup Completed) + step.amount <= NetOf(settled)
  /\ step.at = "summing" \/ (step.at = "computed" /\ Refreshing(step, "request")) =>
       step.available <= Floor0(NetOf(settled) - Sum(Completed))
  /\ step.at = "reading" /\ Refreshing(step, "request") /\ "withdrawals" \notin step.todo =>
       Sum(Completed) <= step.out

\* The two windows of the controller end with a slip, so that does the cover.
Covered ==
  Clean =>
    /\ Sum(Pending \cup Completed) <= NetOf(settled)
    /\ \A s \in Sessions : CoveredStep(work[s])

\* What an approval has read of the withdrawals holds the amount it approved.
DeductedStep(step) ==
  Refreshing(step, "approve") =>
    LET w == step.task.row IN
    /\ status[w] \in {"approved", "rejected"}
    /\ "misread" \notin slips /\ status[w] = "approved" =>
         /\ step.at = "reading" /\ "withdrawals" \notin step.todo => amount[w] <= step.out
         /\ step.at = "computed" => step.available <= Floor0(NetOf(settled) - amount[w])

Deducted == \A s \in Sessions : DeductedStep(work[s])

Books == Tables /\ Carried /\ Fair /\ Covered /\ Deducted

\* The requests of the controller and those of the database function; a system has
\* the one or the other.
InController(s) == work[s].at \in {"summing", "inserting"} \/ Refreshing(work[s], "request")
NoRpc == \A s \in Sessions : ~InRpc(s)
OnlyRpc == \A s \in Sessions : ~InController(s)

\* Balances are sums of naturals over finite sets.
LEMMA NetIsNat ==
  ASSUME NEW ps \in SUBSET Payments
  PROVE  NetOf(ps) \in Nat /\ \A qs \in SUBSET ps : NetOf(qs) <= NetOf(ps)
<1>1. IsFiniteSet(ps) /\ \A p \in ps : Net[p] \in Nat
  BY FS_Subset, WithdrawalsAssumption
<1>2. QED BY <1>1, SumNat, SumSubset DEF NetOf

LEMMA SumsIn ==
  ASSUME NEW table \in [Rows -> Nat], NEW ws \in SUBSET Rows
  PROVE  /\ IsFiniteSet(ws) /\ SumFunctionOnSet(table, ws) \in Nat
         /\ \A vs \in SUBSET ws : SumFunctionOnSet(table, vs) <= SumFunctionOnSet(table, ws)
         /\ \A w \in ws : table[w] <= SumFunctionOnSet(table, ws)
<1>1. IsFiniteSet(ws) /\ \A w \in ws : table[w] \in Nat
  BY FS_Subset, WithdrawalsAssumption
<1>2. SumFunctionOnSet(table, ws) \in Nat
  BY <1>1, SumNat
<1>3. \A vs \in SUBSET ws : SumFunctionOnSet(table, vs) <= SumFunctionOnSet(table, ws)
  BY <1>1, SumSubset
<1>4. ASSUME NEW w \in ws PROVE table[w] <= SumFunctionOnSet(table, ws)
  <2>1. IsFiniteSet(ws \ {w}) /\ \A v \in ws \ {w} : table[v] \in Nat
    BY <1>1, FS_RemoveElement
  <2>2. SumFunctionOnSet(table, ws \ {w}) \in Nat
    BY <2>1, SumNat
  <2>3. SumFunctionOnSet(table, ws) = table[w] + SumFunctionOnSet(table, ws \ {w})
    BY <1>1, SumSplit
  <2>4. QED BY <1>1, <2>2, <2>3
<1>5. QED BY <1>1, <1>2, <1>3, <1>4

Balances ==
  /\ Sum(Pending) \in Nat /\ Sum(Completed) \in Nat /\ NetOf(settled) \in Nat
  /\ Sum(Pending \cup Completed) = Sum(Pending) + Sum(Completed)
  /\ \A w \in Completed : amount[w] <= Sum(Completed)
  /\ Available = Floor0(NetOf(settled) - Sum(Completed)) /\ Available \in Nat

LEMMA Sums == Tables => Balances
<1> SUFFICES ASSUME Tables PROVE Balances
  OBVIOUS
<1>1. Pending \in SUBSET Rows /\ Completed \in SUBSET Rows /\ amount \in [Rows -> Nat]
  BY DEF Pending, Completed, Tables
<1>2. /\ Sum(Pending) \in Nat /\ Sum(Completed) \in Nat
      /\ \A w \in Completed : amount[w] <= Sum(Completed)
      /\ IsFiniteSet(Pending) /\ IsFiniteSet(Completed)
  BY <1>1, SumsIn DEF Sum
<1>3. Sum(Pending \cup Completed) = Sum(Pending) + Sum(Completed)
  <2>1. Pending \cap Completed = {}
    BY DEF Pending, Completed
  <2>2. \A w \in Pending \cup Completed : amount[w] \in Int
    BY <1>1
  <2>3. QED BY <1>2, <2>1, <2>2, SumDisjoint DEF Sum
<1>4. NetOf(settled) \in Nat
  BY NetIsNat DEF Tables
<1>5. paid \cap settled = settled
  BY DEF Tables
<1>6. Available = Floor0(NetOf(settled) - Sum(Completed))
  BY <1>5 DEF Available, AvailableOf, NetUnder, NetOf
<1>7. QED BY <1>2, <1>3, <1>4, <1>6 DEF Floor0, Balances

LEMMA SumsNext == Tables' => Balances'
BY Sums, PTL

\* What every step leaves: no less is settled, and what was decided stays decided.
RowsStay ==
  /\ NetOf(settled) <= NetOf(settled)'
  /\ \A w \in Rows : status[w] \in {"approved", "rejected"} =>
       amount'[w] = amount[w] /\ status'[w] \in {status[w], "rejected"}

\* The books are no worse than before: no more is open or completed, either.
NoWorse ==
  /\ RowsStay
  /\ Sum(Pending \cup Completed)' <= Sum(Pending \cup Completed)
  /\ Sum(Completed)' <= Sum(Completed)

\* A handler that counts on what is open, or on what is completed, as it was.
Reserving(step) == step.at \in {"inserting", "rpcSummed"}
Knowing(step) ==
  \/ step.at = "summing"
  \/ Refreshing(step, "request") /\ (step.at = "reading" => "withdrawals" \notin step.todo)

\* The step leaves it right.
Fitting(step) ==
  /\ Reserving(step) => Sum(Pending \cup Completed)' <= Sum(Pending \cup Completed)
  /\ Knowing(step) => Sum(Completed)' <= Sum(Completed)

LEMMA NoWorseNow ==
  ASSUME Tables, UNCHANGED <<settled, status, amount>> PROVE NoWorse
BY Sums DEF Balances, NoWorse, RowsStay, NetOf, Sum, Pending, Completed

LEMMA CoveredStepKept ==
  ASSUME Tables, Tables', NEW step, Proper(step), CoveredStep(step), RowsStay,
         Fitting(step)
  PROVE  CoveredStep(step)'
<1>1. /\ Sum(Completed) \in Nat /\ NetOf(settled) \in Nat /\ Sum(Pending \cup Completed) \in Nat
  BY Sums DEF Balances
<1>2. /\ Sum(Completed)' \in Nat /\ NetOf(settled)' \in Nat
      /\ Sum(Pending \cup Completed)' \in Nat
  BY SumsNext DEF Balances
<1>3. step.at \in {"inserting", "rpcSummed"} => step.amount \in Nat
  BY WithdrawalsAssumption DEF Proper
<1>4. step.at \in {"summing", "computed"} => step.available \in Nat
  BY DEF Proper, Computeds
<1>5. step.at = "reading" => step.out \in Nat
  BY DEF Proper, Readings
<1>6. ASSUME NEW n \in Nat, n <= Floor0(NetOf(settled) - Sum(Completed)),
             Sum(Completed)' <= Sum(Completed)
      PROVE  n <= Floor0(NetOf(settled)' - Sum(Completed)')
  BY <1>1, <1>2, <1>6 DEF RowsStay, Floor0
<1>7. Floor0(NetOf(settled) - Sum(Completed))' = Floor0(NetOf(settled)' - Sum(Completed)')
  BY DEF Floor0
<1>8. CASE Reserving(step)
  BY <1>1, <1>2, <1>3, <1>8 DEF CoveredStep, RowsStay, Fitting, Refreshing, Reserving
<1>9. CASE Knowing(step)
  BY <1>1, <1>2, <1>4, <1>5, <1>6, <1>7, <1>9 DEF CoveredStep, Fitting, Refreshing, Knowing
<1>10. CASE ~Reserving(step) /\ ~Knowing(step)
  BY <1>10 DEF CoveredStep, Refreshing, Reserving, Knowing
<1>11. QED BY <1>8, <1>9, <1>10

LEMMA DeductedStepKept ==
  ASSUME Tables, Tables', NEW step, Proper(step), DeductedStep(step), RowsStay,
         slips \subseteq slips'
  PROVE  DeductedStep(step)'
<1>1. SUFFICES ASSUME Refreshing(step, "approve") PROVE DeductedStep(step)'
  BY DEF DeductedStep, Refreshing
<1>2. PICK w : w = step.task.row
  OBVIOUS
<1>3. w \in Rows
  <2>1. step.task \in Tasks /\ step.task.job = "approve"
    BY <1>1 DEF Refreshing, Proper, Readings, Computeds
  <2>2. QED BY <1>2, <2>1 DEF Tasks
<1>4. /\ status[w] \in {"approved", "rejected"} /\ amount'[w] = amount[w]
      /\ status'[w] \in {status[w], "rejected"} /\ amount[w] \in Nat
  BY <1>1, <1>2, <1>3 DEF DeductedStep, RowsStay, Tables
<1>5. NetOf(settled) \in Nat /\ NetOf(settled)' \in Nat /\ NetOf(settled) <= NetOf(settled)'
  BY Sums, SumsNext DEF Balances, RowsStay
<1>6. step.at = "computed" => step.available \in Nat
  BY DEF Proper, Computeds
<1>7. ASSUME NEW n \in Nat, n <= Floor0(NetOf(settled) - amount[w])
      PROVE  n <= Floor0(NetOf(settled)' - amount'[w])
  BY <1>4, <1>5, <1>7 DEF Floor0
<1>8. Floor0(NetOf(settled) - amount[w])' = Floor0(NetOf(settled)' - amount'[w])
  BY DEF Floor0
<1>9. QED
  BY <1>1, <1>2, <1>4, <1>6, <1>7, <1>8 DEF DeductedStep, Refreshing

\* Nobody moves and the books get no worse.
LEMMA WorldSafe ==
  ASSUME Books, Tables', NoWorse, UNCHANGED work, slips \subseteq slips'
  PROVE  Books'
<1>1. Carried'
  BY DEF Books, Carried, Proper
<1>2. \A s \in Sessions : DeductedStep(work[s])'
  <2>1. ASSUME NEW s \in Sessions PROVE DeductedStep(work[s])'
    <3>1. PICK step : step = work[s]
      OBVIOUS
    <3>2. Proper(step) /\ DeductedStep(step)
      BY <3>1 DEF Books, Carried, Deducted
    <3>3. DeductedStep(step)'
      BY <3>2, DeductedStepKept DEF Books, NoWorse
    <3>4. work'[s] = step
      BY <3>1
    <3>5. QED BY <3>3, <3>4 DEF DeductedStep, Refreshing
  <2>2. QED BY <2>1
<1>3. ASSUME Clean', NEW s \in Sessions PROVE CoveredStep(work[s])'
  <2>1. PICK step : step = work[s]
    OBVIOUS
  <2>2. Proper(step) /\ CoveredStep(step)
    BY <1>3, <2>1 DEF Books, Carried, Covered, Clean
  <2>3. CoveredStep(step)'
    BY <2>2, CoveredStepKept DEF Books, NoWorse, Fitting
  <2>4. work'[s] = step
    BY <2>1
  <2>5. QED BY <2>3, <2>4 DEF CoveredStep, Refreshing
<1>4. Clean' => Sum(Pending \cup Completed)' <= NetOf(settled)'
  BY Sums, SumsNext DEF Books, Covered, NoWorse, RowsStay, Balances, Clean
<1>5. Fair'
  BY DEF Books, Fair, Weighed
<1>6. QED BY <1>1, <1>2, <1>3, <1>4, <1>5 DEF Books, Covered, Deducted

\* One handler moves on, to a step that is right, and the others still fit.
LEMMA MoveSafe ==
  ASSUME Books, NEW s \in Sessions, NEW step, Goto(s, step), Proper(step),
         Tables', RowsStay, slips \subseteq slips', DeductedStep(step)',
         "misread" \notin slips' => Weighed(step),
         Clean' =>
           /\ CoveredStep(step)' /\ Sum(Pending \cup Completed)' <= NetOf(settled)'
           /\ \A t \in Sessions \ {s} : Fitting(work[t])
  PROVE  Books'
<1>1. work' = [t \in Sessions |-> IF t = s THEN step ELSE work[t]]
  BY DEF Goto, Books, Carried
<1>2. Carried'
  <2>1. work' = [t \in Sessions |-> work'[t]]
    BY <1>1
  <2>2. \A t \in Sessions : Proper(work[t])'
    BY <1>1 DEF Books, Carried, Proper
  <2>3. QED BY <2>1, <2>2 DEF Carried
<1>3. ASSUME NEW t \in Sessions PROVE DeductedStep(work[t])'
  <2>1. CASE t = s
    <3>1. work'[t] = step
      BY <1>1, <2>1
    <3>2. QED BY <3>1 DEF DeductedStep, Refreshing
  <2>2. CASE t # s
    <3>1. PICK own : own = work[t]
      OBVIOUS
    <3>2. Proper(own) /\ DeductedStep(own) /\ work'[t] = own
      BY <1>1, <2>2, <3>1 DEF Books, Carried, Deducted
    <3>3. DeductedStep(own)'
      BY <3>2, DeductedStepKept DEF Books
    <3>4. QED BY <3>2, <3>3 DEF DeductedStep, Refreshing
  <2>3. QED BY <2>1, <2>2
<1>4. ASSUME Clean', NEW t \in Sessions PROVE CoveredStep(work[t])'
  <2>1. CASE t = s
    <3>1. work'[t] = step /\ CoveredStep(step)'
      BY <1>1, <1>4, <2>1
    <3>2. QED BY <3>1 DEF CoveredStep, Refreshing
  <2>2. CASE t # s
    <3>1. PICK own : own = work[t]
      OBVIOUS
    <3>2. Proper(own) /\ CoveredStep(own) /\ work'[t] = own /\ Fitting(own)
      BY <1>1, <1>4, <2>2, <3>1 DEF Books, Carried, Covered, Clean
    <3>3. CoveredStep(own)'
      BY <3>2, CoveredStepKept DEF Books
    <3>4. QED BY <3>2, <3>3 DEF CoveredStep, Refreshing
  <2>3. QED BY <2>1, <2>2
<1>5. Fair'
  BY <1>1 DEF Books, Fair, Weighed
<1>6. QED BY <1>2, <1>3, <1>4, <1>5 DEF Books, Covered, Deducted

LEMMA CalmMove ==
  ASSUME Books, NEW s \in Sessions, NEW step, Goto(s, step), Proper(step),
         Tables', NoWorse, slips \subseteq slips', DeductedStep(step)',
         "misread" \notin slips' => Weighed(step),
         Clean' => CoveredStep(step)'
  PROVE  Books'
<1>1. Clean' => Sum(Pending \cup Completed)' <= NetOf(settled)'
  BY Sums, SumsNext DEF Books, Covered, NoWorse, RowsStay, Balances, Clean
<1>2. \A t \in Sessions : Fitting(work[t])
  BY DEF Fitting, NoWorse
<1>3. QED BY <1>1, <1>2, MoveSafe DEF NoWorse

-----------------------------------------------------------------------------
LEMMA InitBooks == Init => Books
<1> SUFFICES ASSUME Init PROVE Books
  OBVIOUS
<1>1. Tables
  BY DEF Init, Tables, Statuses
<1>2. Carried
  BY DEF Init, Carried, Proper, Idle
<1>3. \A s \in Sessions : work[s].at = "idle"
  BY DEF Init, Idle
<1>4. \A s \in Sessions : CoveredStep(work[s]) /\ DeductedStep(work[s])
  BY <1>3 DEF CoveredStep, DeductedStep, Refreshing
<1>5. Sum(Pending \cup Completed) = 0 /\ NetOf(settled) \in Nat
  <2>1. Pending \cup Completed = {}
    BY DEF Init, Pending, Completed
  <2>2. NetOf(settled) \in Nat
    BY <1>1, Sums DEF Balances
  <2>3. QED BY <2>1, <2>2, SumEmpty DEF Sum
<1>6. Fair
  BY <1>3 DEF Fair, Weighed
<1>7. QED BY <1>1, <1>2, <1>4, <1>5, <1>6 DEF Books, Covered, Deducted

LEMMA PaySafe == ASSUME Books, NEW p \in Payments, Pay(p) PROVE Books'
<1>1. /\ paid' = paid \cup {p}
      /\ UNCHANGED <<settled, status, amount, wallet, work, payouts, slips>>
  BY DEF Pay, history
<1>2. Tables'
  BY <1>1 DEF Books, Tables
<1>3. QED BY <1>1, <1>2, NoWorseNow, WorldSafe DEF Books

LEMMA CutoffSafe == ASSUME Books, Cutoff PROVE Books'
<1>1. /\ settled' = paid
      /\ UNCHANGED <<paid, status, amount, wallet, work, payouts, slips>>
  BY DEF Cutoff, history
<1>2. Tables'
  BY <1>1 DEF Books, Tables
<1>3. NetOf(settled) <= NetOf(settled)'
  <2>1. paid \in SUBSET Payments /\ settled \in SUBSET paid
    BY DEF Books, Tables
  <2>2. NetOf(settled) <= NetOf(paid)
    BY <2>1, NetIsNat
  <2>3. NetOf(settled)' = NetOf(paid)
    BY <1>1 DEF NetOf
  <2>4. QED BY <2>2, <2>3
<1>4. NoWorse
  BY <1>1, <1>3, Sums DEF NoWorse, RowsStay, Sum, Pending, Completed, Books, Balances
<1>5. QED BY <1>1, <1>2, <1>4, WorldSafe

LEMMA SettleSafe == ASSUME Books, Settle PROVE Books'
<1>1. /\ UNCHANGED <<paid, settled, status, amount, work, payouts, slips>>
      /\ wallet' = Available
  BY DEF Settle, tables, history
<1>2. Available \in Nat
  BY Sums DEF Books, Balances
<1>3. Tables'
  BY <1>1, <1>2 DEF Books, Tables
<1>4. QED BY <1>1, <1>3, NoWorseNow, WorldSafe DEF Books

-----------------------------------------------------------------------------
(* Steps of the handlers.                                                  *)

\* A step that knows nothing of the balance yet, or any more.
LEMMA QuietMove ==
  ASSUME Books, NEW s \in Sessions, NEW step, Goto(s, step), Proper(step),
         \/ step.at \in {"idle", "approving", "rejecting", "rpcLocked"}
         \/ /\ step.at = "reading" /\ "withdrawals" \in step.todo
            /\ step.settings = "own" /\ ~Refreshing(step, "approve"),
         Tables', NoWorse, slips \subseteq slips'
  PROVE  Books'
<1>1. CoveredStep(step)' /\ DeductedStep(step)' /\ Weighed(step)
  BY DEF CoveredStep, DeductedStep, Refreshing, Weighed
<1>2. QED BY <1>1, CalmMove

\* The locals of a refresh that starts.
LEMMA RefreshIs ==
  ASSUME NEW task \in Tasks, NEW step, step = Refresh(task)
  PROVE  /\ step \in Readings /\ Proper(step) /\ step.at = "reading" /\ step.task = task
         /\ step.todo = Reads /\ step.settings = "own" /\ "withdrawals" \in step.todo
         /\ Weighed(step)
<1>1. /\ step.at = "reading" /\ step.task = task /\ step.todo = Reads
      /\ step.settings = "own" /\ step.paid = {} /\ step.out = 0
  BY DEF Refresh
<1>2. Reads \in (SUBSET Reads) \ {{}} /\ "withdrawals" \in Reads
  BY DEF Reads
<1>3. step \in Readings
  BY <1>2 DEF Refresh, Readings
<1>4. QED BY <1>1, <1>2, <1>3 DEF Proper, Weighed

LEMMA IdleIsQuiet == Proper(Idle) /\ Idle.at = "idle"
BY DEF Proper, Idle

LEMMA DieSafe == ASSUME Books, NEW s \in Sessions, Die(s) PROVE Books'
<1>1. /\ UNCHANGED <<paid, settled, status, amount, wallet, payouts>> /\ Goto(s, Idle)
      /\ slips \subseteq slips' /\ slips' \subseteq slips \cup {"stale"}
  BY DEF Die, tables, Slip
<1>2. Tables'
  BY <1>1 DEF Books, Tables
<1>3. QED BY <1>1, <1>2, NoWorseNow, QuietMove, IdleIsQuiet DEF Books

LEMMA RequestSafe ==
  ASSUME Books, NEW s \in Sessions, NEW a \in Amounts, Request(s, a) PROVE Books'
<1> PICK task : task = [job |-> "request", amount |-> a]
  OBVIOUS
<1> PICK step : step = Refresh(task)
  OBVIOUS
<1>1. UNCHANGED <<paid, settled, status, amount, wallet, payouts, slips>> /\ Goto(s, step)
  BY DEF Request, tables, history
<1>2. task \in Tasks /\ task.job = "request"
  BY DEF Tasks
<1>3. /\ Proper(step) /\ step.at = "reading" /\ step.task = task
      /\ "withdrawals" \in step.todo /\ step.settings = "own"
  BY <1>2, RefreshIs
<1>4. Tables'
  BY <1>1 DEF Books, Tables
<1>5. NoWorse
  BY <1>1, NoWorseNow DEF Books
<1>6. ~Refreshing(step, "approve")
  BY <1>2, <1>3 DEF Refreshing
<1>7. QED BY <1>1, <1>3, <1>4, <1>5, <1>6, QuietMove

LEMMA AdminReadSafe ==
  ASSUME Books, NEW s \in Sessions, NEW w \in Rows, ApproveRead(s, w) \/ RejectRead(s, w)
  PROVE  Books'
<1>1. PICK step :
        /\ step \in [at : {"approving", "rejecting"}, row : Rows]
        /\ Goto(s, step)
  BY DEF ApproveRead, RejectRead
<1>2. UNCHANGED <<paid, settled, status, amount, wallet, payouts, slips>>
  BY DEF ApproveRead, RejectRead, tables, history
<1>3. Tables'
  BY <1>2 DEF Books, Tables
<1>4. step.at \in {"approving", "rejecting"} /\ Proper(step)
  BY <1>1 DEF Proper
<1>5. QED BY <1>1, <1>2, <1>3, <1>4, NoWorseNow, QuietMove DEF Books

\* A rejection takes a row out of the sums, whatever its status was.
LEMMA RejectUpdateSafe == ASSUME Books, NEW s \in Sessions, RejectUpdate(s) PROVE Books'
<1> PICK w : w = work[s].row
  OBVIOUS
<1>1. /\ UNCHANGED <<paid, settled, amount, wallet, payouts, slips>> /\ Goto(s, Idle)
      /\ status' = [status EXCEPT ![w] = "rejected"] /\ work[s].at = "rejecting"
  BY DEF RejectUpdate, history
<1>2. w \in Rows
  BY <1>1 DEF Books, Carried, Proper
<1>3. Tables'
  BY <1>1, <1>2 DEF Books, Tables, Statuses
<1>4. NoWorse
  <2>1. /\ Pending \cup Completed \in SUBSET Rows /\ Completed \in SUBSET Rows
        /\ amount \in [Rows -> Nat] /\ status \in [Rows -> Statuses]
    BY DEF Books, Tables, Pending, Completed
  <2>2. (Pending \cup Completed)' \in SUBSET (Pending \cup Completed)
    BY <1>1, <1>2, <2>1 DEF Pending, Completed
  <2>3. Completed' \in SUBSET Completed
    BY <1>1, <1>2, <2>1 DEF Completed
  <2>4. /\ Sum(Pending \cup Completed)' = Sum((Pending \cup Completed)')
        /\ Sum(Completed)' = Sum(Completed')
    BY <1>1 DEF Sum
  <2>5. Sum((Pending \cup Completed)') <= Sum(Pending \cup Completed)
    BY <2>1, <2>2, SumsIn DEF Sum
  <2>6. Sum(Completed') <= Sum(Completed)
    BY <2>1, <2>3, SumsIn DEF Sum
  <2>7. RowsStay
    <3>1. NetOf(settled)' = NetOf(settled) /\ NetOf(settled) \in Nat
      BY <1>1, Sums DEF NetOf, Books, Balances
    <3>2. QED BY <1>1, <2>1, <3>1 DEF RowsStay
  <2>8. QED BY <2>4, <2>5, <2>6, <2>7 DEF NoWorse
<1>5. QED BY <1>1, <1>3, <1>4, QuietMove, IdleIsQuiet

LEMMA FloorMonotone ==
  ASSUME NEW net \in Nat, NEW most \in Nat, NEW out \in Nat
  PROVE  /\ Floor0(net - out) \in Nat
         /\ net <= most => \A n \in Nat : n <= out => Floor0(net - out) <= Floor0(most - n)
BY DEF Floor0

\* Of the settled payments read, no more is counted than they are worth.
LEMMA NetUnderBound ==
  ASSUME NEW settings, NEW S \in SUBSET Payments, NEW R \in SUBSET S
  PROVE  /\ NetUnder(settings, R) \in Nat
         /\ settings = "own" \/ ~DefaultOverstates => NetUnder(settings, R) <= NetOf(S)
<1> PICK f : f = IF settings = "own" THEN Net ELSE NetByDefault
  OBVIOUS
<1>1. /\ \A p \in R : f[p] \in Nat /\ Net[p] \in Nat
      /\ settings = "own" \/ ~DefaultOverstates => \A p \in R : f[p] <= Net[p]
  BY WithdrawalsAssumption DEF DefaultOverstates
<1>2. IsFiniteSet(R)
  BY FS_Subset, WithdrawalsAssumption
<1>3. NetUnder(settings, R) = SumFunctionOnSet(f, R) /\ NetOf(R) = SumFunctionOnSet(Net, R)
  BY DEF NetUnder, NetOf
<1>4. NetOf(R) \in Nat /\ NetOf(S) \in Nat /\ NetOf(R) <= NetOf(S)
  BY NetIsNat
<1>5. SumFunctionOnSet(f, R) \in Nat
  BY <1>1, <1>2, SumNat
<1>6. (\A p \in R : f[p] <= Net[p]) => SumFunctionOnSet(f, R) <= SumFunctionOnSet(Net, R)
  BY <1>1, <1>2, SumMonotone
<1>7. QED BY <1>1, <1>3, <1>4, <1>5, <1>6

\* The projection is no more than what settled, less any part of what was summed.
LEMMA ProjectionBound ==
  ASSUME Tables, NEW step \in Partials
  PROVE  /\ AvailableOf(step.settings, step.paid, step.out) \in Nat
         /\ Weighed(step) => \A n \in Nat : n <= step.out =>
              AvailableOf(step.settings, step.paid, step.out) <= Floor0(NetOf(settled) - n)
<1> PICK net : net = NetUnder(step.settings, step.paid \cap settled)
  OBVIOUS
<1>1. step.at = "reading" /\ step.paid \in SUBSET Payments /\ step.out \in Nat
  BY DEF Partials
<1>2. net \in Nat /\ (Weighed(step) => net <= NetOf(settled))
  <2>1. settled \in SUBSET Payments /\ step.paid \cap settled \in SUBSET settled
    BY DEF Tables
  <2>2. Weighed(step) => step.settings = "own" \/ ~DefaultOverstates
    BY <1>1 DEF Weighed
  <2>3. QED BY <2>1, <2>2, NetUnderBound
<1>3. NetOf(settled) \in Nat
  BY Sums DEF Balances
<1>4. AvailableOf(step.settings, step.paid, step.out) = Floor0(net - step.out)
  BY DEF AvailableOf
<1>5. PICK most, out : most = NetOf(settled) /\ out = step.out /\ most \in Nat /\ out \in Nat
  BY <1>1, <1>3
<1>6. /\ Floor0(net - out) \in Nat
      /\ net <= most => \A n \in Nat : n <= out => Floor0(net - out) <= Floor0(most - n)
  BY <1>2, <1>5, FloorMonotone
<1>7. QED BY <1>2, <1>4, <1>5, <1>6

\* The read of a refresh: what it has gathered is right.
LEMMA AfterReadSafe ==
  ASSUME Books, NEW s \in Sessions,
         NEW step \in Partials,
         AfterRead(s, step),
         UNCHANGED <<tables, wallet, payouts>>, slips \subseteq slips', Tables',
         "misread" \notin slips' => Weighed(step),
         Clean' /\ step.task.job = "request" /\ "withdrawals" \notin step.todo =>
           Sum(Completed) <= step.out,
         step.task.job = "approve" =>
           LET w == step.task.row IN
           /\ status[w] \in {"approved", "rejected"}
           /\ "misread" \notin slips' /\ status[w] = "approved"
                /\ "withdrawals" \notin step.todo => amount[w] <= step.out
  PROVE  Books'
<1>1. UNCHANGED <<paid, settled, status, amount>> /\ NoWorse
  BY NoWorseNow DEF tables, Books
<1>2. /\ Sum(Completed)' = Sum(Completed) /\ NetOf(settled)' = NetOf(settled)
      /\ Sum(Completed) \in Nat /\ NetOf(settled) \in Nat
  BY <1>1, Sums DEF Sum, Completed, NetOf, Books, Balances
<1>3. CASE step.todo # {}
  <2>1. Goto(s, step) /\ step \in Readings
    <3>1. Goto(s, step)
      BY <1>3 DEF AfterRead
    <3>2. step.todo \in (SUBSET Reads) \ {{}}
      BY <1>3 DEF Partials
    <3>3. step \in Readings
      BY <3>2 DEF Readings, Partials
    <3>4. QED BY <3>1, <3>3
  <2>2. Proper(step)
    BY <2>1 DEF Proper, Readings
  <2>3. Clean' => CoveredStep(step)'
    BY <1>2 DEF CoveredStep, Refreshing, Partials
  <2>4. DeductedStep(step)'
    BY <1>1 DEF DeductedStep, Refreshing, Partials
  <2>5. QED BY <1>1, <2>1, <2>2, <2>3, <2>4, CalmMove
<1>4. CASE step.todo = {}
  <2> PICK next : next = [at |-> "computed", task |-> step.task,
                          available |-> AvailableOf(step.settings, step.paid, step.out)]
    OBVIOUS
  <2>1. Goto(s, next)
    BY <1>4 DEF AfterRead
  <2>3. /\ AvailableOf(step.settings, step.paid, step.out) \in Nat
        /\ "misread" \notin slips' => \A n \in Nat : n <= step.out =>
             AvailableOf(step.settings, step.paid, step.out) <= Floor0(NetOf(settled) - n)
    BY ProjectionBound DEF Books
  <2>4. next \in Computeds /\ next.at = "computed" /\ next.task = step.task
        /\ next.available = AvailableOf(step.settings, step.paid, step.out)
    BY <2>3 DEF Computeds, Partials
  <2>5. Proper(next)
    BY <2>4 DEF Proper
  <2>6. Clean' => CoveredStep(next)'
    <3>1. SUFFICES ASSUME Clean', next.task.job = "request"
                   PROVE  next.available <= Floor0(NetOf(settled) - Sum(Completed))'
      BY <2>4 DEF CoveredStep, Refreshing
    <3>2. "misread" \notin slips'
      BY <3>1 DEF Clean
    <3>3. next.available <= Floor0(NetOf(settled) - Sum(Completed))
      BY <1>2, <1>4, <2>3, <2>4, <3>1, <3>2
    <3>4. QED BY <1>2, <3>3 DEF Floor0
  <2>7. DeductedStep(next)'
    <3>1. SUFFICES ASSUME next.task.job = "approve" PROVE DeductedStep(next)'
      BY DEF DeductedStep, Refreshing
    <3>2. PICK w : w = step.task.row
      OBVIOUS
    <3>3. w \in Rows
      BY <2>4, <3>1, <3>2 DEF Tasks, Partials
    <3>4. amount[w] \in Nat
      BY <3>3 DEF Books, Tables
    <3>5. /\ status[w] \in {"approved", "rejected"}
          /\ "misread" \notin slips' /\ status[w] = "approved" =>
               next.available <= Floor0(NetOf(settled) - amount[w])
      BY <1>4, <2>3, <2>4, <3>1, <3>2, <3>4
    <3>6. Floor0(NetOf(settled) - amount[w])' = Floor0(NetOf(settled) - amount[w])
      BY <1>1, <1>2 DEF Floor0
    <3>7. QED BY <1>1, <2>4, <3>2, <3>5, <3>6 DEF DeductedStep, Refreshing
  <2>8. Weighed(next)
    BY <2>4 DEF Weighed
  <2>9. QED BY <1>1, <2>1, <2>5, <2>6, <2>7, <2>8, CalmMove
<1>5. QED BY <1>3, <1>4

\* What a handler has in hand after any of the three reads.
Gathered(s, step) ==
  /\ step \in Partials /\ AfterRead(s, step) /\ step.task = work[s].task
  /\ work[s] \in Readings /\ work[s].at = "reading"
  /\ UNCHANGED <<paid, settled, status, amount, wallet, payouts>>
  /\ slips \subseteq slips' /\ slips' \subseteq slips \cup {"misread"}
  /\ "misread" \notin slips' =>
       /\ Weighed(step)
       /\ "withdrawals" \notin step.todo =>
            \/ step.out = Sum(Completed)
            \/ "withdrawals" \notin work[s].todo /\ step.out = work[s].out

LEMMA CollectionGathered ==
  ASSUME Books, NEW s \in Sessions, ReadCollection(s)
  PROVE  \E step : Gathered(s, step)
<1>1. /\ UNCHANGED <<paid, settled, status, amount, wallet, payouts>>
      /\ work[s].at = "reading" /\ work[s] \in Readings
  BY DEF ReadCollection, tables, Books, Carried, Proper
<1>2. PICK settings \in Outcomes("own", "default") :
        /\ AfterRead(s, [work[s] EXCEPT !.todo = @ \ {"collection"}, !.settings = settings])
        /\ Slip("misread", settings = "default" /\ DefaultOverstates)
  BY DEF ReadCollection
<1>3. settings \in {"own", "default"}
  BY <1>2 DEF Outcomes
<1> PICK step : step = [work[s] EXCEPT !.todo = @ \ {"collection"}, !.settings = settings]
  OBVIOUS
<1>4. /\ step \in Partials /\ step.task = work[s].task /\ step.out = work[s].out
      /\ step.settings = settings
      /\ "withdrawals" \notin step.todo => "withdrawals" \notin work[s].todo
  BY <1>1, <1>3 DEF Readings, Partials
<1>5. /\ slips \subseteq slips' /\ slips' \subseteq slips \cup {"misread"}
      /\ "misread" \notin slips' => Weighed(step)
  BY <1>2, <1>3, <1>4 DEF Slip, Weighed
<1>6. AfterRead(s, step)
  BY <1>2
<1>7. QED BY <1>1, <1>4, <1>5, <1>6 DEF Gathered

LEMMA ContributionsGathered ==
  ASSUME Books, NEW s \in Sessions, ReadContributions(s)
  PROVE  \E step : Gathered(s, step)
<1>1. /\ UNCHANGED <<paid, settled, status, amount, wallet, payouts, slips>>
      /\ work[s].at = "reading" /\ work[s] \in Readings
  BY DEF ReadContributions, tables, history, Books, Carried, Proper
<1>2. PICK ps \in Outcomes(paid, {}) :
        AfterRead(s, [work[s] EXCEPT !.todo = @ \ {"contributions"}, !.paid = ps])
  BY DEF ReadContributions
<1>3. ps \in SUBSET Payments
  BY <1>2 DEF Books, Tables, Outcomes
<1> PICK step : step = [work[s] EXCEPT !.todo = @ \ {"contributions"}, !.paid = ps]
  OBVIOUS
<1>4. /\ step \in Partials /\ step.task = work[s].task /\ step.out = work[s].out
      /\ step.settings = work[s].settings
      /\ "withdrawals" \notin step.todo => "withdrawals" \notin work[s].todo
  BY <1>1, <1>3 DEF Readings, Partials
<1>5. "misread" \notin slips' => Weighed(step)
  BY <1>1, <1>4 DEF Books, Fair, Weighed
<1>6. AfterRead(s, step)
  BY <1>2
<1>7. QED BY <1>1, <1>4, <1>5, <1>6 DEF Gathered

LEMMA WithdrawalsGathered ==
  ASSUME Books, NEW s \in Sessions, ReadWithdrawals(s)
  PROVE  \E step : Gathered(s, step)
<1>1. /\ UNCHANGED <<paid, settled, status, amount, wallet, payouts>>
      /\ work[s].at = "reading" /\ work[s] \in Readings
  BY DEF ReadWithdrawals, tables, Books, Carried, Proper
<1>2. PICK ws \in Outcomes(Completed, {}) :
        /\ AfterRead(s, [work[s] EXCEPT !.todo = @ \ {"withdrawals"}, !.out = Sum(ws)])
        /\ Slip("misread", ws # Completed)
  BY DEF ReadWithdrawals
<1>3. Sum(ws) \in Nat
  <2>1. ws \in SUBSET Rows
    BY <1>2 DEF Completed, Outcomes
  <2>2. QED BY <2>1, SumsIn DEF Sum, Books, Tables
<1> PICK step : step = [work[s] EXCEPT !.todo = @ \ {"withdrawals"}, !.out = Sum(ws)]
  OBVIOUS
<1>4. /\ step \in Partials /\ step.task = work[s].task /\ step.out = Sum(ws)
      /\ step.settings = work[s].settings
  BY <1>1, <1>3 DEF Readings, Partials
<1>5. /\ slips \subseteq slips' /\ slips' \subseteq slips \cup {"misread"}
      /\ "misread" \notin slips' => ws = Completed
  BY <1>2 DEF Slip
<1>6. "misread" \notin slips' => Weighed(step) /\ step.out = Sum(Completed)
  BY <1>1, <1>4, <1>5 DEF Books, Fair, Weighed
<1>7. AfterRead(s, step)
  BY <1>2
<1>8. QED BY <1>1, <1>4, <1>5, <1>6, <1>7 DEF Gathered

LEMMA ReadSafe ==
  ASSUME Books, NEW s \in Sessions,
         ReadCollection(s) \/ ReadContributions(s) \/ ReadWithdrawals(s)
  PROVE  Books'
<1>1. PICK step : Gathered(s, step)
  BY CollectionGathered, ContributionsGathered, WithdrawalsGathered
<1>2. Tables'
  BY <1>1 DEF Books, Tables, Gathered
<1>3. /\ Clean => CoveredStep(work[s])
      /\ DeductedStep(work[s])
  BY DEF Books, Covered, Deducted
<1>4. /\ Sum(Completed) \in Nat /\ \A w \in Completed : amount[w] <= Sum(Completed)
  BY Sums DEF Books, Balances
<1>5. Clean' => Clean /\ "misread" \notin slips'
  BY <1>1 DEF Clean, Gathered
<1>6. Clean' /\ step.task.job = "request" /\ "withdrawals" \notin step.todo =>
        Sum(Completed) <= step.out
  BY <1>1, <1>3, <1>4, <1>5 DEF CoveredStep, Refreshing, Gathered
<1>7. step.task.job = "approve" =>
        LET w == step.task.row IN
        /\ status[w] \in {"approved", "rejected"}
        /\ "misread" \notin slips' /\ status[w] = "approved"
             /\ "withdrawals" \notin step.todo => amount[w] <= step.out
  <2>1. SUFFICES ASSUME step.task.job = "approve"
                 PROVE  LET w == step.task.row IN
                        /\ status[w] \in {"approved", "rejected"}
                        /\ "misread" \notin slips' /\ status[w] = "approved"
                             /\ "withdrawals" \notin step.todo => amount[w] <= step.out
    OBVIOUS
  <2>2. PICK w : w = step.task.row
    OBVIOUS
  <2>3. w \in Rows
    BY <1>1, <2>1, <2>2 DEF Tasks, Gathered, Partials
  <2>4. /\ status[w] \in {"approved", "rejected"}
        /\ "misread" \notin slips' /\ status[w] = "approved" /\ "withdrawals" \notin work[s].todo
             => amount[w] <= work[s].out
    BY <1>1, <1>3, <2>1, <2>2 DEF DeductedStep, Refreshing, Gathered
  <2>5. status[w] = "approved" => amount[w] <= Sum(Completed)
    BY <1>4, <2>3 DEF Completed
  <2>6. "misread" \notin slips' /\ status[w] = "approved" /\ "withdrawals" \notin step.todo
          => amount[w] <= step.out
    BY <1>1, <2>4, <2>5 DEF Gathered
  <2>7. QED BY <2>2, <2>4, <2>6
<1>8. /\ step \in Partials /\ AfterRead(s, step) /\ slips \subseteq slips'
      /\ UNCHANGED <<tables, wallet, payouts>> /\ ("misread" \notin slips' => Weighed(step))
  BY <1>1 DEF Gathered, tables
<1>9. QED BY <1>2, <1>6, <1>7, <1>8, AfterReadSafe

LEMMA WriteWalletSafe == ASSUME Books, NEW s \in Sessions, WriteWallet(s) PROVE Books'
<1>1. /\ UNCHANGED <<paid, settled, status, amount, payouts>>
      /\ work[s].at = "computed" /\ wallet' \in {work[s].available, wallet}
      /\ slips \subseteq slips' /\ slips' \subseteq slips \cup {"stale"}
      /\ Clean' => Clean
  BY DEF WriteWallet, tables, Outcomes, Slip, Clean
<1>2. /\ work[s] \in Computeds /\ work[s].available \in Nat
      /\ Clean => CoveredStep(work[s])
  BY <1>1 DEF Books, Carried, Proper, Covered, Computeds
<1>3. Tables'
  BY <1>1, <1>2 DEF Books, Tables
<1>4. NoWorse
  BY <1>1, NoWorseNow DEF Books
<1>5. CASE work[s].task.job = "request"
  <2> PICK step : step = [at |-> "summing", amount |-> work[s].task.amount,
                          available |-> work[s].available]
    OBVIOUS
  <2>1. Goto(s, step)
    BY <1>5 DEF WriteWallet
  <2>2. work[s].task.amount \in Amounts
    BY <1>2, <1>5 DEF Computeds, Tasks
  <2>3. /\ step \in [at : {"summing"}, amount : Amounts, available : Nat]
        /\ step.at = "summing" /\ step.available = work[s].available
    BY <1>2, <2>2
  <2>4. Proper(step) /\ DeductedStep(step)' /\ Weighed(step)
    BY <2>3 DEF Proper, DeductedStep, Refreshing, Weighed
  <2>5. Clean' => CoveredStep(step)'
    <3>1. SUFFICES ASSUME Clean'
                   PROVE  step.available <= Floor0(NetOf(settled) - Sum(Completed))'
      BY <2>3 DEF CoveredStep, Refreshing
    <3>2. step.available <= Floor0(NetOf(settled) - Sum(Completed))
      BY <1>1, <1>2, <1>5, <2>3, <3>1 DEF CoveredStep, Refreshing
    <3>3. Floor0(NetOf(settled) - Sum(Completed))' = Floor0(NetOf(settled) - Sum(Completed))
      BY <1>1 DEF Floor0, NetOf, Sum, Completed
    <3>4. QED BY <3>2, <3>3
  <2>6. QED BY <1>1, <1>3, <1>4, <2>1, <2>4, <2>5, CalmMove
<1>6. CASE work[s].task.job # "request"
  <2>1. Goto(s, Idle)
    BY <1>6 DEF WriteWallet
  <2>2. QED BY <1>1, <1>3, <1>4, <2>1, QuietMove, IdleIsQuiet
<1>7. QED BY <1>5, <1>6

\* The cap: with what is open and what was asked for, what settled is not exceeded.
LEMMA CheckCapSafe == ASSUME Books, NEW s \in Sessions, CheckCap(s) PROVE Books'
<1>1. /\ UNCHANGED <<paid, settled, status, amount, wallet, payouts>>
      /\ work[s].at = "summing"
  BY DEF CheckCap, tables
<1>2. /\ work[s].amount \in Amounts /\ work[s].amount \in Nat \ {0}
      /\ work[s].available \in Nat
      /\ Clean => work[s].available <= Floor0(NetOf(settled) - Sum(Completed))
  BY <1>1, WithdrawalsAssumption DEF Books, Carried, Proper, Covered, CoveredStep
<1>3. PICK pending :
        /\ Goto(s, IF work[s].amount > Floor0(work[s].available - pending)
                   THEN Idle ELSE [at |-> "inserting", amount |-> work[s].amount])
        /\ Slip("misread", pending # Sum(Pending))
  BY DEF CheckCap
<1>4. slips \subseteq slips' /\ ("misread" \notin slips' => pending = Sum(Pending))
  BY <1>3 DEF Slip
<1>5. Tables'
  BY <1>1, <1>3 DEF Books, Tables, Slip
<1>6. NoWorse
  BY <1>1, NoWorseNow DEF Books
<1>7. CASE work[s].amount > Floor0(work[s].available - pending)
  <2>1. Goto(s, Idle)
    BY <1>3, <1>7
  <2>2. QED BY <1>4, <1>5, <1>6, <2>1, QuietMove, IdleIsQuiet
<1>8. CASE ~(work[s].amount > Floor0(work[s].available - pending))
  <2> PICK step : step = [at |-> "inserting", amount |-> work[s].amount]
    OBVIOUS
  <2>1. Goto(s, step)
    BY <1>3, <1>8
  <2>2. step \in [at : {"inserting"}, amount : Amounts] /\ step.at = "inserting"
        /\ step.amount = work[s].amount
    BY <1>2
  <2>3. Proper(step) /\ DeductedStep(step)' /\ Weighed(step)
    BY <2>2 DEF Proper, DeductedStep, Refreshing, Weighed
  <2>4. Clean' => CoveredStep(step)'
    <3>1. SUFFICES ASSUME Clean'
                   PROVE  (Sum(Pending \cup Completed) + step.amount <= NetOf(settled))'
      BY <2>2 DEF CoveredStep, Refreshing
    <3>2. /\ pending = Sum(Pending) /\ Clean
      BY <1>4, <3>1 DEF Clean
    <3>3. Sum(Pending \cup Completed) + step.amount <= NetOf(settled)
      BY <1>2, <1>8, <2>2, <3>2, Sums DEF Floor0, Books, Balances
    <3>4. /\ Sum(Pending \cup Completed)' = Sum(Pending \cup Completed)
          /\ NetOf(settled)' = NetOf(settled)
      BY <1>1 DEF Sum, Pending, Completed, NetOf
    <3>5. QED BY <3>3, <3>4
  <2>5. QED BY <1>4, <1>5, <1>6, <2>1, <2>3, <2>4, CalmMove
<1>9. QED BY <1>7, <1>8

LEMMA RpcLockSafe ==
  ASSUME Books, NEW s \in Sessions, NEW a \in Amounts, RpcLock(s, a) PROVE Books'
<1> PICK step : step = [at |-> "rpcLocked", amount |-> a, available |-> wallet]
  OBVIOUS
<1>1. UNCHANGED <<paid, settled, status, amount, wallet, payouts, slips>> /\ Goto(s, step)
  BY DEF RpcLock, tables, history
<1>2. step \in [at : {"rpcLocked"}, amount : Amounts, available : Nat] /\ step.at = "rpcLocked"
  BY DEF Books, Tables
<1>3. Proper(step)
  BY <1>2 DEF Proper
<1>4. Tables'
  BY <1>1 DEF Books, Tables
<1>5. QED BY <1>1, <1>2, <1>3, <1>4, NoWorseNow, QuietMove DEF Books

\* The sum of the function, on a stored balance that is not out of date.
LEMMA RpcSumSafe == ASSUME Books, NEW s \in Sessions, RpcSum(s) PROVE Books'
<1>1. /\ UNCHANGED <<paid, settled, status, amount, wallet, payouts>>
      /\ work[s].at = "rpcLocked" /\ slips \subseteq slips' /\ slips' \subseteq slips \cup {"race"}
      /\ "race" \notin slips' => ~(work[s].available > Available)
  BY DEF RpcSum, tables, Slip
<1>2. /\ work[s].amount \in Amounts /\ work[s].amount \in Nat \ {0}
      /\ work[s].available \in Nat
  BY <1>1, WithdrawalsAssumption DEF Books, Carried, Proper
<1>3. Tables'
  BY <1>1 DEF Books, Tables
<1>4. NoWorse
  BY <1>1, NoWorseNow DEF Books
<1>5. CASE work[s].amount > work[s].available - Sum(Pending)
  <2>1. Goto(s, Idle)
    BY <1>5 DEF RpcSum
  <2>2. QED BY <1>1, <1>3, <1>4, <2>1, QuietMove, IdleIsQuiet
<1>6. CASE ~(work[s].amount > work[s].available - Sum(Pending))
  <2> PICK step : step = [at |-> "rpcSummed", amount |-> work[s].amount]
    OBVIOUS
  <2>1. Goto(s, step)
    BY <1>6 DEF RpcSum
  <2>2. step \in [at : {"rpcSummed"}, amount : Amounts] /\ step.at = "rpcSummed"
        /\ step.amount = work[s].amount
    BY <1>2
  <2>3. Proper(step) /\ DeductedStep(step)' /\ Weighed(step)
    BY <2>2 DEF Proper, DeductedStep, Refreshing, Weighed
  <2>4. Clean' => CoveredStep(step)'
    <3>1. SUFFICES ASSUME Clean'
                   PROVE  (Sum(Pending \cup Completed) + step.amount <= NetOf(settled))'
      BY <2>2 DEF CoveredStep, Refreshing
    <3>2. Sum(Pending \cup Completed) + step.amount <= NetOf(settled)
      BY <1>1, <1>2, <1>6, <2>2, <3>1, Sums DEF Clean, Floor0, Books, Balances
    <3>3. /\ Sum(Pending \cup Completed)' = Sum(Pending \cup Completed)
          /\ NetOf(settled)' = NetOf(settled)
      BY <1>1 DEF Sum, Pending, Completed, NetOf
    <3>4. QED BY <3>2, <3>3
  <2>5. QED BY <1>1, <1>3, <1>4, <2>1, <2>3, <2>4, CalmMove
<1>7. QED BY <1>5, <1>6

-----------------------------------------------------------------------------
\* What a new row does to the sums.
LEMMA TablePut ==
  ASSUME NEW table \in [Rows -> Nat], NEW w \in Rows, NEW a \in Nat,
         NEW new \in [Rows -> Nat], new[w] = a, \A v \in Rows \ {w} : new[v] = table[v],
         NEW ws \in SUBSET Rows, w \notin ws
  PROVE  /\ SumFunctionOnSet(table, ws) \in Nat
         /\ SumFunctionOnSet(new, ws) = SumFunctionOnSet(table, ws)
         /\ SumFunctionOnSet(new, ws \cup {w}) = SumFunctionOnSet(table, ws) + a
<1>1. IsFiniteSet(ws) /\ SumFunctionOnSet(table, ws) \in Nat
  BY SumsIn
<1>2. SumFunctionOnSet(new, ws) = SumFunctionOnSet(table, ws)
  <2>1. \A v \in ws : new[v] = table[v]
    OBVIOUS
  <2>2. QED BY <1>1, <2>1, SumSame
<1>3. SumFunctionOnSet(new, ws \cup {w}) = new[w] + SumFunctionOnSet(new, ws)
  <2>1. (ws \cup {w}) \ {w} = ws /\ w \in ws \cup {w}
    OBVIOUS
  <2>2. IsFiniteSet(ws \cup {w})
    BY <1>1, FS_AddElement
  <2>3. \A v \in ws \cup {w} : new[v] \in Int
    OBVIOUS
  <2>4. QED BY <2>1, <2>2, <2>3, SumSplit
<1>4. SumFunctionOnSet(new, ws \cup {w}) = SumFunctionOnSet(table, ws) + a
  BY <1>1, <1>2, <1>3
<1>5. QED BY <1>1, <1>2, <1>4

\* A row goes in that was checked, and nobody else counts on the money.
LEMMA RowGoesIn ==
  ASSUME Books, NEW s \in Sessions, NEW w \in Rows,
         Reserving(work[s]), status[w] = "none",
         status' = [status EXCEPT ![w] = "pending"],
         amount' = [amount EXCEPT ![w] = work[s].amount],
         Goto(s, Refresh([job |-> "confirm"])),
         UNCHANGED <<paid, settled, wallet, payouts>>,
         slips \subseteq slips', slips' \subseteq slips \cup {"race"},
         Clean' => \A t \in Sessions \ {s} : ~Reserving(work[t])
  PROVE  Books'
<1> PICK a : a = work[s].amount
  OBVIOUS
<1> PICK task : task = [job |-> "confirm"]
  OBVIOUS
<1> PICK step : step = Refresh(task)
  OBVIOUS
<1>1. /\ a \in Nat
      /\ Clean => Sum(Pending \cup Completed) + a <= NetOf(settled)
  BY WithdrawalsAssumption DEF Books, Carried, Proper, Covered, CoveredStep, Reserving
<1>2. task \in Tasks /\ task.job = "confirm"
  BY DEF Tasks
<1>3. /\ Proper(step) /\ step.at = "reading" /\ step.task = task
      /\ step.todo = Reads /\ Weighed(step) /\ Goto(s, step)
  BY <1>2, RefreshIs
<1>4. status \in [Rows -> Statuses] /\ amount \in [Rows -> Nat]
  BY DEF Books, Tables
<1>5. /\ Completed' = Completed /\ w \notin Pending \cup Completed /\ w \notin Completed
      /\ Pending' \cup Completed' = (Pending \cup Completed) \cup {w}
      /\ Pending \cup Completed \in SUBSET Rows /\ Completed \in SUBSET Rows
  BY <1>4 DEF Pending, Completed
<1>6. PICK new : new = amount' /\ new = [amount EXCEPT ![w] = a]
  OBVIOUS
<1>7. /\ new \in [Rows -> Nat] /\ \A v \in Rows \ {w} : new[v] = amount[v]
      /\ SumFunctionOnSet(new, Completed) = Sum(Completed)
      /\ SumFunctionOnSet(new, (Pending \cup Completed) \cup {w})
           = Sum(Pending \cup Completed) + a
  <2> PICK old : old = amount
    OBVIOUS
  <2>1. ASSUME NEW ws \in SUBSET Rows, w \notin ws
        PROVE  /\ new \in [Rows -> Nat] /\ \A v \in Rows \ {w} : new[v] = old[v]
               /\ SumFunctionOnSet(new, ws) = SumFunctionOnSet(old, ws)
               /\ SumFunctionOnSet(new, ws \cup {w}) = SumFunctionOnSet(old, ws) + a
    <3>1. /\ old \in [Rows -> Nat] /\ a \in Nat /\ new \in [Rows -> Nat] /\ new[w] = a
          /\ \A v \in Rows \ {w} : new[v] = old[v]
      BY <1>1, <1>4, <1>6
    <3>2. /\ SumFunctionOnSet(new, ws) = SumFunctionOnSet(old, ws)
          /\ SumFunctionOnSet(new, ws \cup {w}) = SumFunctionOnSet(old, ws) + a
      BY <2>1, <3>1, TablePut, SMTT(30)
    <3>3. QED BY <3>1, <3>2
  <2>2. \A ws : Sum(ws) = SumFunctionOnSet(old, ws)
    BY DEF Sum
  <2>3. QED BY <1>5, <2>1, <2>2
<1>8. Tables'
  <2>1. status' \in [Rows -> Statuses]
    BY <1>4 DEF Statuses
  <2>2. amount' \in [Rows -> Nat]
    BY <1>6, <1>7
  <2>3. QED BY <2>1, <2>2 DEF Books, Tables
<1>9. /\ Sum(Completed)' = Sum(Completed)
      /\ Sum(Pending \cup Completed)' = Sum(Pending \cup Completed) + a
  BY <1>5, <1>6, <1>7 DEF Sum
<1>10. NetOf(settled)' = NetOf(settled) /\ NetOf(settled) \in Nat /\ Sum(Completed) \in Nat
  BY Sums DEF NetOf, Books, Balances
<1>11. RowsStay
  BY <1>4, <1>6, <1>7, <1>10 DEF RowsStay
<1>12. Clean' => \A t \in Sessions \ {s} : Fitting(work[t])
  BY <1>9, <1>10 DEF Fitting
<1>13. Clean' => Sum(Pending \cup Completed)' <= NetOf(settled)'
  BY <1>1, <1>9, <1>10 DEF Clean
<1>14. CoveredStep(step)' /\ DeductedStep(step)'
  BY <1>2, <1>3 DEF CoveredStep, DeductedStep, Refreshing
<1>15. QED BY <1>3, <1>8, <1>11, <1>12, <1>13, <1>14, MoveSafe

LEMMA InsertRowSafe ==
  ASSUME Books, NoRpc, NEW s \in Sessions, NEW w \in Rows, InsertRow(s, w) PROVE Books'
<1>1. /\ Reserving(work[s]) /\ status[w] = "none"
      /\ status' = [status EXCEPT ![w] = "pending"]
      /\ amount' = [amount EXCEPT ![w] = work[s].amount]
      /\ Goto(s, Refresh([job |-> "confirm"]))
      /\ UNCHANGED <<paid, settled, wallet, payouts>>
      /\ slips \subseteq slips' /\ slips' \subseteq slips \cup {"race"}
  BY DEF InsertRow, Reserving, Slip
<1>2. Clean' => \A t \in Sessions \ {s} : ~Reserving(work[t])
  BY DEF InsertRow, Slip, Checked, Reserving, NoRpc, InRpc, Clean
<1>3. QED BY <1>1, <1>2, RowGoesIn

LEMMA RpcInsertSafe ==
  ASSUME Books, LockInv, OnlyRpc, NEW s \in Sessions, NEW w \in Rows, RpcInsert(s, w)
  PROVE  Books'
<1>1. /\ Reserving(work[s]) /\ status[w] = "none"
      /\ status' = [status EXCEPT ![w] = "pending"]
      /\ amount' = [amount EXCEPT ![w] = work[s].amount]
      /\ Goto(s, Refresh([job |-> "confirm"]))
      /\ UNCHANGED <<paid, settled, wallet, payouts>> /\ slips' = slips
  BY DEF RpcInsert, Reserving, history
<1>2. \A t \in Sessions \ {s} : ~Reserving(work[t])
  BY DEF RpcInsert, Reserving, LockInv, InRpc, OnlyRpc, InController
<1>3. QED BY <1>1, <1>2, RowGoesIn

\* An approval moves a row from the open ones to the completed ones.
LEMMA ApproveUpdateSafe == ASSUME Books, NEW s \in Sessions, ApproveUpdate(s) PROVE Books'
<1> PICK w : w = work[s].row
  OBVIOUS
<1>1. UNCHANGED <<paid, settled, amount, wallet>> /\ work[s].at = "approving"
  BY DEF ApproveUpdate
<1>2. w \in Rows
  BY <1>1 DEF Books, Carried, Proper
<1>3. CASE status[w] # "pending"
  <2>1. UNCHANGED <<settled, status, amount, payouts, slips>> /\ Goto(s, Idle)
    BY <1>1, <1>3 DEF ApproveUpdate
  <2>2. Tables'
    BY <1>1, <2>1 DEF Books, Tables
  <2>3. QED BY <2>1, <2>2, NoWorseNow, QuietMove, IdleIsQuiet DEF Books
<1>4. CASE status[w] = "pending"
  <2> PICK task : task = [job |-> "approve", row |-> w]
    OBVIOUS
  <2> PICK step : step = Refresh(task)
    OBVIOUS
  <2>1. /\ status' = [status EXCEPT ![w] = "approved"]
        /\ payouts' = [payouts EXCEPT ![w] = @ + 1]
        /\ Goto(s, step) /\ slips \subseteq slips'
        /\ slips' \subseteq slips \cup {"race", "stale"}
        /\ Clean' => Clean /\ Unchecked = {}
    BY <1>4 DEF ApproveUpdate, Clean
  <2>2. task \in Tasks /\ task.job = "approve" /\ task.row = w
    BY <1>2 DEF Tasks
  <2>3. /\ Proper(step) /\ step.at = "reading" /\ step.task = task
        /\ step.todo = Reads /\ Weighed(step) /\ "withdrawals" \in step.todo
    BY <2>2, RefreshIs
  <2>4. /\ status \in [Rows -> Statuses] /\ amount \in [Rows -> Nat]
        /\ payouts \in [Rows -> Nat] /\ payouts[w] + 1 \in Nat
    BY <1>2 DEF Books, Tables
  <2>5. Tables'
    BY <1>1, <2>1, <2>4 DEF Books, Tables, Statuses
  <2>6. Sum(Pending \cup Completed)' = Sum(Pending \cup Completed)
    <3>1. Pending' \cup Completed' = Pending \cup Completed
      BY <1>2, <1>4, <2>1, <2>4 DEF Pending, Completed
    <3>2. QED BY <1>1, <3>1 DEF Sum
  <2>7. /\ NetOf(settled)' = NetOf(settled) /\ NetOf(settled) \in Nat
        /\ Sum(Pending \cup Completed) \in Nat
    BY <1>1, Sums DEF NetOf, Books, Balances
  <2>8. RowsStay
    BY <1>1, <1>2, <1>4, <2>1, <2>4, <2>7 DEF RowsStay
  <2>9. Clean' => \A t \in Sessions : ~Knowing(work[t])
    <3>1. ASSUME Unchecked = {}, NEW t \in Sessions PROVE ~Knowing(work[t])
      <4>1. Proper(work[t])
        BY DEF Books, Carried
      <4>2. QED BY <3>1, <4>1 DEF Unchecked, Knowing, Refreshing, Unwritten, Proper
    <3>2. QED BY <2>1, <3>1
  <2>10. Clean' => \A t \in Sessions \ {s} : Fitting(work[t])
    BY <2>6, <2>7, <2>9 DEF Fitting
  <2>11. Clean' => Sum(Pending \cup Completed)' <= NetOf(settled)'
    BY <2>1, <2>6, <2>7 DEF Books, Covered
  <2>12. CoveredStep(step)' /\ DeductedStep(step)'
    <3>1. status'[w] = "approved"
      BY <1>2, <2>1, <2>4
    <3>2. QED BY <2>2, <2>3, <3>1 DEF CoveredStep, DeductedStep, Refreshing
  <2>13. QED BY <2>1, <2>3, <2>5, <2>8, <2>10, <2>11, <2>12, MoveSafe
<1>5. QED BY <1>3, <1>4

-----------------------------------------------------------------------------
(* Either way of requesting.                                               *)

\* Where a step that both systems share leaves its handler.
LEMMA SharedLands ==
  ASSUME Books, NEW s \in Sessions, RefreshStep(s) \/ AdminStep(s) \/ Die(s)
  PROVE  \E step : /\ Goto(s, step)
                   /\ step.at \notin {"rpcLocked", "rpcSummed", "inserting"}
                   /\ step.at = "summing" \/ Refreshing(step, "request") => InController(s)
<1>1. ASSUME NEW step, step.at = "reading", AfterRead(s, step),
             step.task = work[s].task, work[s].at = "reading"
      PROVE  \E next : /\ Goto(s, next)
                       /\ next.at \notin {"rpcLocked", "rpcSummed", "inserting"}
                       /\ next.at = "summing" \/ Refreshing(next, "request") => InController(s)
  <2>1. CASE step.todo # {}
    BY <1>1, <2>1 DEF AfterRead, Refreshing, InController
  <2>2. CASE step.todo = {}
    <3> PICK next : next = [at |-> "computed", task |-> step.task,
                            available |-> AvailableOf(step.settings, step.paid, step.out)]
      OBVIOUS
    <3>1. Goto(s, next) /\ next.at = "computed" /\ next.task = step.task
      BY <1>1, <2>2 DEF AfterRead
    <3>2. QED BY <1>1, <3>1 DEF Refreshing, InController
  <2>3. QED BY <2>1, <2>2
<1>2. work[s].at = "reading" => work[s] \in Readings
  BY DEF Books, Carried, Proper
<1>3. CASE ReadContributions(s)
  <2>1. PICK ps : AfterRead(s, [work[s] EXCEPT !.todo = @ \ {"contributions"}, !.paid = ps])
    BY <1>3 DEF ReadContributions
  <2> PICK step : step = [work[s] EXCEPT !.todo = @ \ {"contributions"}, !.paid = ps]
    OBVIOUS
  <2>2. work[s].at = "reading" /\ step.at = "reading" /\ step.task = work[s].task
    BY <1>2, <1>3 DEF ReadContributions, Readings
  <2>3. QED BY <1>1, <2>1, <2>2
<1>4. CASE ReadWithdrawals(s)
  <2>1. PICK ws : AfterRead(s, [work[s] EXCEPT !.todo = @ \ {"withdrawals"}, !.out = Sum(ws)])
    BY <1>4 DEF ReadWithdrawals
  <2> PICK step : step = [work[s] EXCEPT !.todo = @ \ {"withdrawals"}, !.out = Sum(ws)]
    OBVIOUS
  <2>2. work[s].at = "reading" /\ step.at = "reading" /\ step.task = work[s].task
    BY <1>2, <1>4 DEF ReadWithdrawals, Readings
  <2>3. QED BY <1>1, <2>1, <2>2
<1>5. CASE WriteWallet(s)
  <2>1. CASE work[s].task.job = "request"
    BY <1>5, <2>1 DEF WriteWallet, InController, Refreshing
  <2>2. CASE work[s].task.job # "request"
    BY <1>5, <2>2 DEF WriteWallet, Refreshing, Idle
  <2>3. QED BY <2>1, <2>2
<1>6. CASE AdminStep(s)
  <2>1. ASSUME NEW w \in Rows, ApproveRead(s, w) \/ RejectRead(s, w)
        PROVE  \E step : Goto(s, step) /\ step.at \in {"approving", "rejecting"}
    BY <2>1 DEF ApproveRead, RejectRead
  <2>2. CASE ApproveUpdate(s)
    <3> PICK task : task = [job |-> "approve", row |-> work[s].row]
      OBVIOUS
    <3> PICK step : step = Refresh(task)
      OBVIOUS
    <3>1. task.job = "approve" /\ step.at = "reading" /\ step.task = task
      BY DEF Refresh
    <3>2. Goto(s, step) \/ Goto(s, Idle)
      BY <2>2 DEF ApproveUpdate
    <3>3. QED BY <3>1, <3>2, IdleIsQuiet DEF Refreshing
  <2>3. CASE RejectUpdate(s)
    BY <2>3, IdleIsQuiet DEF RejectUpdate, Refreshing
  <2>4. QED BY <1>6, <2>1, <2>2, <2>3 DEF AdminStep, Refreshing
<1>7. CASE Die(s)
  BY <1>7, IdleIsQuiet DEF Die, Refreshing
<1>8. CASE ReadCollection(s)
  <2>1. PICK value : AfterRead(s, [work[s] EXCEPT !.todo = @ \ {"collection"}, !.settings = value])
    BY <1>8 DEF ReadCollection
  <2> PICK step : step = [work[s] EXCEPT !.todo = @ \ {"collection"}, !.settings = value]
    OBVIOUS
  <2>2. work[s].at = "reading" /\ step.at = "reading" /\ step.task = work[s].task
    BY <1>2, <1>8 DEF ReadCollection, Readings
  <2>3. QED BY <1>1, <2>1, <2>2
<1>9. QED BY <1>3, <1>4, <1>5, <1>6, <1>7, <1>8 DEF RefreshStep

\* A system without the database function never gets into it.
LEMMA NextNoRpc == Books /\ NoRpc /\ [Next]_vars => NoRpc'
<1> SUFFICES ASSUME Books, NoRpc, [Next]_vars PROVE NoRpc'
  OBVIOUS
<1>1. ASSUME NEW s \in Sessions, NEW step, Goto(s, step),
             step.at \notin {"rpcLocked", "rpcSummed"}
      PROVE  NoRpc'
  <2>1. \A t \in Sessions : work'[t] = IF t = s THEN step ELSE work[t]
    BY <1>1 DEF Goto, Books, Carried
  <2>2. QED BY <1>1, <2>1 DEF NoRpc, InRpc
<1>2. CASE UNCHANGED work
  BY <1>2 DEF NoRpc, InRpc
<1>3. ASSUME NEW s \in Sessions, RefreshStep(s) \/ AdminStep(s) \/ Die(s) PROVE NoRpc'
  BY <1>1, <1>3, SharedLands
<1>4. ASSUME NEW s \in Sessions, RequestStep(s) PROVE NoRpc'
  <2>1. ASSUME NEW task, Goto(s, Refresh(task)) PROVE NoRpc'
    <3> PICK step : step = Refresh(task)
      OBVIOUS
    <3>1. step.at = "reading" /\ Goto(s, step)
      BY <2>1 DEF Refresh
    <3>2. QED BY <1>1, <3>1
  <2>2. CASE CheckCap(s)
    <3>1. \E step : Goto(s, step) /\ step.at \in {"idle", "inserting"}
      BY <2>2, IdleIsQuiet DEF CheckCap
    <3>2. QED BY <1>1, <3>1
  <2>3. QED BY <1>4, <2>1, <2>2 DEF RequestStep, Request, InsertRow
<1>5. QED BY <1>2, <1>3, <1>4 DEF Next, Pay, Cutoff, Settle, vars

\* A system that requests through it does so always.
LEMMA NextOnlyRpc == Books /\ OnlyRpc /\ [AtomicNext]_vars => OnlyRpc'
<1> SUFFICES ASSUME Books, OnlyRpc, [AtomicNext]_vars PROVE OnlyRpc'
  OBVIOUS
<1>1. ASSUME NEW s \in Sessions, NEW step, Goto(s, step),
             step.at \notin {"summing", "inserting"}, ~Refreshing(step, "request")
      PROVE  OnlyRpc'
  <2>1. \A t \in Sessions : work'[t] = IF t = s THEN step ELSE work[t]
    BY <1>1 DEF Goto, Books, Carried
  <2>2. QED BY <1>1, <2>1 DEF OnlyRpc, InController, Refreshing
<1>2. CASE UNCHANGED work
  BY <1>2 DEF OnlyRpc, InController, Refreshing
<1>3. ASSUME NEW s \in Sessions, RefreshStep(s) \/ AdminStep(s) \/ Die(s) PROVE OnlyRpc'
  BY <1>1, <1>3, SharedLands DEF OnlyRpc
<1>4. ASSUME NEW s \in Sessions, NEW a \in Amounts, RpcLock(s, a) PROVE OnlyRpc'
  BY <1>1, <1>4 DEF RpcLock, Refreshing
<1>5. ASSUME NEW s \in Sessions, RpcSum(s) PROVE OnlyRpc'
  <2>1. \E step : Goto(s, step) /\ step.at \in {"idle", "rpcSummed"}
    BY <1>5, IdleIsQuiet DEF RpcSum
  <2>2. QED BY <1>1, <2>1 DEF Refreshing
<1>6. ASSUME NEW s \in Sessions, NEW w \in Rows, RpcInsert(s, w) PROVE OnlyRpc'
  <2> PICK task : task = [job |-> "confirm"]
    OBVIOUS
  <2> PICK step : step = Refresh(task)
    OBVIOUS
  <2>1. task.job = "confirm" /\ step.at = "reading" /\ step.task = task /\ Goto(s, step)
    BY <1>6 DEF Refresh, RpcInsert
  <2>2. QED BY <1>1, <2>1 DEF Refreshing
<1>7. QED
  BY <1>2, <1>3, <1>4, <1>5, <1>6 DEF AtomicNext, RefreshStep, Pay, Cutoff, Settle, vars

LEMMA StutterSafe == ASSUME Books, UNCHANGED vars PROVE Books'
<1>1. UNCHANGED <<paid, settled, status, amount, wallet, work, payouts, slips>>
  BY DEF vars
<1>2. Tables'
  BY <1>1 DEF Books, Tables
<1>3. QED BY <1>1, <1>2, NoWorseNow, WorldSafe DEF Books

LEMMA NextBooks == Books /\ NoRpc /\ [Next]_vars => Books'
<1> SUFFICES ASSUME Books, NoRpc, [Next]_vars PROVE Books'
  OBVIOUS
<1>1. ASSUME NEW s \in Sessions, RefreshStep(s) PROVE Books'
  BY <1>1, ReadSafe, WriteWalletSafe DEF RefreshStep
<1>2. ASSUME NEW s \in Sessions, AdminStep(s) PROVE Books'
  BY <1>2, AdminReadSafe, ApproveUpdateSafe, RejectUpdateSafe DEF AdminStep
<1>3. ASSUME NEW s \in Sessions, RequestStep(s) PROVE Books'
  BY <1>3, RequestSafe, CheckCapSafe, InsertRowSafe DEF RequestStep
<1>4. QED
  BY <1>1, <1>2, <1>3, StutterSafe, PaySafe, CutoffSafe, SettleSafe, DieSafe DEF Next

LEMMA AtomicNextBooks == Books /\ LockInv /\ OnlyRpc /\ [AtomicNext]_vars => Books'
<1> SUFFICES ASSUME Books, LockInv, OnlyRpc, [AtomicNext]_vars PROVE Books'
  OBVIOUS
<1>1. ASSUME NEW s \in Sessions, AdminStep(s) PROVE Books'
  BY <1>1, AdminReadSafe, ApproveUpdateSafe, RejectUpdateSafe DEF AdminStep
<1>2. QED
  BY <1>1, StutterSafe, PaySafe, CutoffSafe, SettleSafe, RpcLockSafe, RpcSumSafe,
     RpcInsertSafe, ReadSafe, WriteWalletSafe, DieSafe
  DEF AtomicNext

LEMMA InitKinds == Init => NoRpc /\ OnlyRpc
<1>1. Init => \A s \in Sessions : work[s].at = "idle"
  BY DEF Init, Idle
<1>2. QED BY <1>1 DEF NoRpc, OnlyRpc, InRpc, InController, Refreshing

LEMMA AlwaysBooks == Spec => [](Books /\ NoRpc)
<1>1. QED BY InitBooks, InitKinds, NextBooks, NextNoRpc, PTL DEF Spec

LEMMA AlwaysBooksAtomic == AtomicSpec => []Books
<1>1. QED
  BY InitBooks, InitLock, InitKinds, AtomicNextBooks, StepLock, NextOnlyRpc, PTL DEF AtomicSpec

-----------------------------------------------------------------------------
(* What is stored holds nothing an approval took out.                      *)

Sound == {"misread", "stale"} \cap slips = {}

\* What a handler is about to store, as far as it has come.
StoredStep(step) ==
  Unwritten(step) =>
    /\ step.at = "reading" => Sum(Completed) <= step.out
    /\ step.at = "computed" => step.available <= Floor0(NetOf(settled) - Sum(Completed))

Stored ==
  Sound =>
    /\ \A s \in Sessions : StoredStep(work[s])
    /\ wallet <= Floor0(NetOf(settled) - Sum(Completed \ Landing))

\* An approved row whose handler is gone or done.
Landed(w) == w \in Completed \ Landing
NoneLands == \A w \in Rows : Landed(w)' => Landed(w) /\ amount'[w] = amount[w]
NoneApproved ==
  \A w \in Rows : status'[w] = "approved" => status[w] = "approved" /\ amount'[w] = amount[w]

\* Fewer rows, of the same amounts.
LEMMA FewerSum ==
  ASSUME NEW old \in [Rows -> Nat], NEW new \in [Rows -> Nat],
         NEW before \in SUBSET Rows, NEW after \in SUBSET Rows,
         \A w \in after : w \in before /\ new[w] = old[w]
  PROVE  SumFunctionOnSet(new, after) <= SumFunctionOnSet(old, before)
<1>1. after \in SUBSET before /\ IsFiniteSet(after)
  BY SumsIn
<1>2. SumFunctionOnSet(old, after) <= SumFunctionOnSet(old, before)
  BY <1>1, SumsIn
<1>3. SumFunctionOnSet(new, after) = SumFunctionOnSet(old, after)
  BY <1>1, SumSame
<1>4. QED BY <1>2, <1>3

LEMMA FewerCompleted ==
  ASSUME Tables, Tables', NoneApproved PROVE Sum(Completed)' <= Sum(Completed)
<1> PICK old, new, before, after :
      old = amount /\ new = amount' /\ before = Completed /\ after = Completed'
  OBVIOUS
<1>1. /\ old \in [Rows -> Nat] /\ new \in [Rows -> Nat]
      /\ before \in SUBSET Rows /\ after \in SUBSET Rows
  BY DEF Tables, Completed
<1>2. \A w \in after : w \in before /\ new[w] = old[w]
  BY DEF NoneApproved, Completed
<1>3. SumFunctionOnSet(new, after) <= SumFunctionOnSet(old, before)
  BY <1>1, <1>2, FewerSum
<1>4. QED BY <1>3 DEF Sum

LEMMA FewerLanded ==
  ASSUME Tables, Tables', NoneLands
  PROVE  /\ Sum(Completed \ Landing)' <= Sum(Completed \ Landing)
         /\ Sum(Completed \ Landing) \in Nat /\ Sum(Completed \ Landing)' \in Nat
<1> PICK old, new, before, after :
      /\ old = amount /\ new = amount'
      /\ before = Completed \ Landing /\ after = (Completed \ Landing)'
  OBVIOUS
<1>1. /\ old \in [Rows -> Nat] /\ new \in [Rows -> Nat]
      /\ before \in SUBSET Rows /\ after \in SUBSET Rows
  BY DEF Tables, Completed
<1>2. \A w \in after : w \in before /\ new[w] = old[w]
  BY <1>1 DEF NoneLands, Landed
<1>3. SumFunctionOnSet(new, after) <= SumFunctionOnSet(old, before)
  BY <1>1, <1>2, FewerSum
<1>4. SumFunctionOnSet(new, after) \in Nat /\ SumFunctionOnSet(old, before) \in Nat
  BY <1>1, SumsIn
<1>5. QED BY <1>3, <1>4 DEF Sum

\* A balance that holds nothing completed holds nothing landed.
LandedWithin ==
  /\ Sum(Completed \ Landing) \in Nat
  /\ Floor0(NetOf(settled) - Sum(Completed)) <= Floor0(NetOf(settled) - Sum(Completed \ Landing))

LEMMA LandedAreCompleted == Tables => LandedWithin
<1> SUFFICES ASSUME Tables PROVE LandedWithin
  OBVIOUS
<1>1. NetOf(settled) \in Nat /\ Sum(Completed) \in Nat
  BY Sums DEF Balances
<1>2. Completed \in SUBSET Rows /\ Completed \ Landing \in SUBSET Completed
  BY DEF Completed
<1>3. /\ Sum(Completed \ Landing) \in Nat
      /\ Sum(Completed \ Landing) <= Sum(Completed)
  <2>1. amount \in [Rows -> Nat] /\ Completed \ Landing \in SUBSET Rows
    BY <1>2 DEF Tables
  <2>2. QED BY <1>2, <2>1, SumsIn DEF Sum
<1>4. QED BY <1>1, <1>3 DEF Floor0, LandedWithin

LEMMA LandedAreCompletedNext == Tables' => LandedWithin'
BY LandedAreCompleted, PTL

\* The stored balance stays as it is and nothing lands, or it is a fresh one.
WalletFits ==
  \/ wallet' = wallet /\ NoneLands
  \/ wallet' <= Floor0(NetOf(settled) - Sum(Completed))'

\* Whatever was computed without an approval is not stored after it.
UnwrittenFits(step) == Unwritten(step) => Sum(Completed)' <= Sum(Completed)

LEMMA StoredStepKept ==
  ASSUME Tables, Tables', NEW step, Proper(step), StoredStep(step), UnwrittenFits(step),
         NetOf(settled) <= NetOf(settled)'
  PROVE  StoredStep(step)'
<1>1. SUFFICES ASSUME Unwritten(step) PROVE StoredStep(step)'
  BY DEF StoredStep, Unwritten
<1>2. /\ Sum(Completed) \in Nat /\ NetOf(settled) \in Nat
      /\ Sum(Completed)' \in Nat /\ NetOf(settled)' \in Nat
      /\ Sum(Completed)' <= Sum(Completed)
  BY <1>1, Sums, SumsNext DEF Balances, UnwrittenFits
<1>3. step.at = "reading" => step.out \in Nat
  BY DEF Proper, Readings
<1>4. step.at = "computed" => step.available \in Nat
  BY DEF Proper, Computeds
<1>5. Floor0(NetOf(settled) - Sum(Completed)) <= Floor0(NetOf(settled)' - Sum(Completed)')
  BY <1>2 DEF Floor0
<1>6. /\ Floor0(NetOf(settled) - Sum(Completed)) \in Nat
      /\ Floor0(NetOf(settled)' - Sum(Completed)') \in Nat
  BY <1>2 DEF Floor0
<1>7. Floor0(NetOf(settled) - Sum(Completed))' = Floor0(NetOf(settled)' - Sum(Completed)')
  BY DEF Floor0
<1>8. step.at = "reading" => Sum(Completed)' <= step.out
  BY <1>1, <1>2, <1>3 DEF StoredStep
<1>9. step.at = "computed" => step.available <= Floor0(NetOf(settled) - Sum(Completed))'
  BY <1>1, <1>4, <1>5, <1>6, <1>7 DEF StoredStep
<1>10. QED BY <1>8, <1>9 DEF StoredStep

LEMMA WalletKept ==
  ASSUME Tables, Tables', WalletFits, NetOf(settled) <= NetOf(settled)',
         wallet <= Floor0(NetOf(settled) - Sum(Completed \ Landing))
  PROVE  (wallet <= Floor0(NetOf(settled) - Sum(Completed \ Landing)))'
<1>1. /\ NetOf(settled) \in Nat /\ NetOf(settled)' \in Nat /\ wallet \in Nat /\ wallet' \in Nat
      /\ Sum(Completed)' \in Nat
  BY Sums, SumsNext DEF Balances, Tables
<1>2. Floor0(NetOf(settled) - Sum(Completed \ Landing))'
        = Floor0(NetOf(settled)' - Sum(Completed \ Landing)')
  BY DEF Floor0
<1>3. CASE wallet' = wallet /\ NoneLands
  <2>1. /\ Sum(Completed \ Landing)' <= Sum(Completed \ Landing)
        /\ Sum(Completed \ Landing) \in Nat /\ Sum(Completed \ Landing)' \in Nat
    BY <1>3, FewerLanded
  <2>2. wallet' <= Floor0(NetOf(settled)' - Sum(Completed \ Landing)')
    BY <1>1, <1>3, <2>1 DEF Floor0
  <2>3. QED BY <1>2, <2>2
<1>4. CASE wallet' <= Floor0(NetOf(settled) - Sum(Completed))'
  <2>1. /\ Sum(Completed \ Landing)' \in Nat
        /\ Floor0(NetOf(settled) - Sum(Completed))'
             <= Floor0(NetOf(settled) - Sum(Completed \ Landing))'
    BY LandedAreCompletedNext DEF LandedWithin
  <2>2. Floor0(NetOf(settled) - Sum(Completed))' \in Nat
    BY <1>1 DEF Floor0
  <2>3. Floor0(NetOf(settled) - Sum(Completed \ Landing))' \in Nat
    BY <1>1, <2>1 DEF Floor0
  <2>4. \A i, j, k \in Nat : i <= j /\ j <= k => i <= k
    OBVIOUS
  <2>5. QED BY <1>1, <1>4, <2>1, <2>2, <2>3, <2>4
<1>5. QED BY <1>3, <1>4 DEF WalletFits

\* Nobody moves.
LEMMA WorldStored ==
  ASSUME Books, Tables', Stored, UNCHANGED <<work, slips>>, NetOf(settled) <= NetOf(settled)',
         NoneApproved, WalletFits
  PROVE  Stored'
<1>1. SUFFICES ASSUME Sound' PROVE Stored'
  BY DEF Stored
<1>2. Sound
  BY <1>1 DEF Sound
<1>3. ASSUME NEW s \in Sessions PROVE StoredStep(work[s])'
  <2>1. PICK step : step = work[s]
    OBVIOUS
  <2>2. Proper(step) /\ StoredStep(step) /\ work'[s] = step
    BY <1>2, <2>1 DEF Books, Carried, Stored
  <2>3. UnwrittenFits(step)
    BY FewerCompleted DEF UnwrittenFits, Books
  <2>4. StoredStep(step)'
    BY <2>2, <2>3, StoredStepKept DEF Books
  <2>5. QED BY <2>2, <2>4 DEF StoredStep, Unwritten
<1>4. (wallet <= Floor0(NetOf(settled) - Sum(Completed \ Landing)))'
  BY <1>2, WalletKept DEF Books, Stored
<1>5. QED BY <1>3, <1>4 DEF Stored

\* One handler moves.
LEMMA MoveStored ==
  ASSUME Books, Tables', Stored, NEW s \in Sessions, NEW step, Goto(s, step),
         slips \subseteq slips', NetOf(settled) <= NetOf(settled)',
         Sound' => /\ StoredStep(step)' /\ WalletFits
                   /\ \A t \in Sessions \ {s} : UnwrittenFits(work[t])
  PROVE  Stored'
<1>1. SUFFICES ASSUME Sound' PROVE Stored'
  BY DEF Stored
<1>2. Sound
  BY <1>1 DEF Sound
<1>3. \A t \in Sessions : work'[t] = IF t = s THEN step ELSE work[t]
  BY DEF Goto, Books, Carried
<1>4. ASSUME NEW t \in Sessions PROVE StoredStep(work[t])'
  <2>1. CASE t = s
    <3>1. work'[t] = step /\ StoredStep(step)'
      BY <1>1, <1>3, <2>1
    <3>2. QED BY <3>1 DEF StoredStep, Unwritten
  <2>2. CASE t # s
    <3>1. PICK own : own = work[t]
      OBVIOUS
    <3>2. Proper(own) /\ StoredStep(own) /\ UnwrittenFits(own) /\ work'[t] = own
      BY <1>1, <1>2, <1>3, <2>2, <3>1 DEF Books, Carried, Stored
    <3>3. StoredStep(own)'
      BY <3>2, StoredStepKept DEF Books
    <3>4. QED BY <3>2, <3>3 DEF StoredStep, Unwritten
  <2>3. QED BY <2>1, <2>2
<1>5. (wallet <= Floor0(NetOf(settled) - Sum(Completed \ Landing)))'
  BY <1>1, <1>2, WalletKept DEF Books, Stored
<1>6. QED BY <1>4, <1>5 DEF Stored

\* A handler that goes on storing an approval, if that is what it did.
StillLands(s, step) ==
  Refreshing(work[s], "approve") =>
    Refreshing(step, "approve") /\ step.task.row = work[s].task.row

LEMMA NoneLandsByMove ==
  ASSUME Books, NEW s \in Sessions, NEW step, Goto(s, step), NoneApproved, StillLands(s, step)
  PROVE  NoneLands
<1>1. \A t \in Sessions : work'[t] = IF t = s THEN step ELSE work[t]
  BY DEF Goto, Books, Carried
<1>2. ASSUME NEW w \in Rows, Landed(w)' PROVE Landed(w) /\ amount'[w] = amount[w]
  <2>1. status'[w] = "approved" /\ ~ \E t \in Sessions : Refreshing(work'[t], "approve") /\ work'[t].task.row = w
    BY <1>2 DEF Landed, Completed, Landing, Refreshing
  <2>2. status[w] = "approved" /\ amount'[w] = amount[w]
    BY <2>1 DEF NoneApproved
  <2>3. ASSUME NEW t \in Sessions, Refreshing(work[t], "approve"), work[t].task.row = w
        PROVE  FALSE
    BY <1>1, <2>1, <2>3 DEF StillLands
  <2>4. QED BY <2>2, <2>3 DEF Landed, Completed, Landing
<1>3. QED BY <1>2 DEF NoneLands

\* A step that approves nothing, and leaves the stored balance alone.
LEMMA CalmStored ==
  ASSUME Books, Tables', Stored, NEW s \in Sessions, NEW step, Goto(s, step),
         UNCHANGED <<settled, wallet>>, slips \subseteq slips', NoneApproved,
         Sound' => StillLands(s, step) /\ StoredStep(step)'
  PROVE  Stored'
<1>1. NetOf(settled) <= NetOf(settled)'
  BY Sums DEF Books, Balances, NetOf
<1>2. \A t \in Sessions : UnwrittenFits(work[t])
  BY FewerCompleted DEF UnwrittenFits, Books
<1>3. Sound' => WalletFits
  BY NoneLandsByMove DEF WalletFits
<1>4. QED BY <1>1, <1>2, <1>3, MoveStored

LEMMA InitStored == Init => Stored
<1> SUFFICES ASSUME Init PROVE Stored
  OBVIOUS
<1>1. \A s \in Sessions : work[s].at = "idle"
  BY DEF Init, Idle
<1>2. Tables
  BY InitBooks DEF Books
<1>3. NetOf(settled) \in Nat /\ Sum(Completed \ Landing) \in Nat /\ wallet = 0
  BY <1>2, Sums, LandedAreCompleted DEF Balances, Init, LandedWithin
<1>4. wallet <= Floor0(NetOf(settled) - Sum(Completed \ Landing))
  BY <1>3 DEF Floor0
<1>5. QED BY <1>1, <1>4 DEF Stored, StoredStep, Unwritten

LEMMA WorldStepStored ==
  ASSUME Books, Books', Stored, (\E p \in Payments : Pay(p)) \/ Cutoff \/ Settle \/ UNCHANGED vars
  PROVE  Stored'
<1>1. /\ UNCHANGED <<status, amount, work, payouts, slips>>
      /\ settled' = settled \/ Cutoff
  BY DEF Pay, Cutoff, Settle, tables, history, vars
<1>2. Tables /\ Tables' /\ NoneApproved
  BY <1>1 DEF Books, NoneApproved
<1>3. NetOf(settled) <= NetOf(settled)'
  <2>1. CASE settled' = settled
    BY <1>2, <2>1, Sums DEF Balances, NetOf
  <2>2. CASE Cutoff
    <3>1. PICK new : new = settled' /\ new = paid
      BY <2>2 DEF Cutoff
    <3>2. new \in SUBSET Payments /\ settled \in SUBSET new
      BY <1>2, <3>1 DEF Tables
    <3>3. NetOf(settled) <= NetOf(new)
      BY <3>2, NetIsNat
    <3>4. QED BY <3>1, <3>3 DEF NetOf
  <2>3. QED BY <1>1, <2>1, <2>2
<1>4. CASE wallet' = wallet
  <2>1. NoneLands
    BY <1>1 DEF NoneLands, Landed, Completed, Landing
  <2>2. QED BY <1>1, <1>2, <1>3, <1>4, <2>1, WorldStored DEF WalletFits
<1>5. CASE Settle
  <2>1. wallet' = Available /\ settled' = settled
    BY <1>5 DEF Settle, tables
  <2>2. Available = Floor0(NetOf(settled) - Sum(Completed)) /\ Available \in Nat
    BY <1>2, Sums DEF Balances
  <2>3. Floor0(NetOf(settled) - Sum(Completed))' = Floor0(NetOf(settled) - Sum(Completed))
    BY <1>1, <2>1 DEF Floor0, NetOf, Sum, Completed
  <2>4. WalletFits
    BY <2>1, <2>2, <2>3 DEF WalletFits
  <2>5. QED BY <1>1, <1>2, <1>3, <2>4, WorldStored
<1>6. QED BY <1>4, <1>5 DEF Pay, Cutoff, Settle, vars

\* A read of a refresh.
LEMMA ReadStored ==
  ASSUME Books, Books', Stored, NEW s \in Sessions,
         ReadCollection(s) \/ ReadContributions(s) \/ ReadWithdrawals(s)
  PROVE  Stored'
<1>1. PICK step : Gathered(s, step)
  BY CollectionGathered, ContributionsGathered, WithdrawalsGathered
<1>2. /\ step \in Partials /\ step.at = "reading" /\ step.task = work[s].task
      /\ work[s].at = "reading" /\ work[s] \in Readings
      /\ UNCHANGED <<settled, status, amount, wallet>> /\ slips \subseteq slips'
  BY <1>1 DEF Gathered, Partials
<1>3. Tables /\ Tables' /\ NoneApproved
  BY <1>2 DEF Books, NoneApproved
<1>4. /\ Sum(Completed)' = Sum(Completed) /\ Sum(Completed) \in Nat
      /\ Floor0(NetOf(settled) - Sum(Completed))' = Floor0(NetOf(settled) - Sum(Completed))
  BY <1>2, <1>3, Sums DEF Floor0, NetOf, Sum, Completed, Balances
<1>5. Sound' => /\ Weighed(step)
                /\ "withdrawals" \notin step.todo => Sum(Completed) <= step.out
  <2>1. SUFFICES ASSUME Sound' PROVE /\ Weighed(step)
                                     /\ "withdrawals" \notin step.todo => Sum(Completed) <= step.out
    OBVIOUS
  <2>2. Sound /\ "misread" \notin slips'
    BY <1>2, <2>1 DEF Sound
  <2>3. "withdrawals" \notin work[s].todo => Sum(Completed) <= work[s].out
    BY <1>2, <2>2 DEF Stored, StoredStep, Unwritten
  <2>4. QED BY <1>1, <1>4, <2>2, <2>3 DEF Gathered
<1>6. CASE step.todo # {}
  <2>1. Goto(s, step)
    BY <1>1, <1>6 DEF Gathered, AfterRead
  <2>2. Sound' => StoredStep(step)'
    BY <1>2, <1>4, <1>5 DEF StoredStep, Unwritten
  <2>3. StillLands(s, step)
    BY <1>2 DEF StillLands, Refreshing
  <2>4. QED BY <1>2, <1>3, <2>1, <2>2, <2>3, CalmStored
<1>7. CASE step.todo = {}
  <2> PICK next : next = [at |-> "computed", task |-> step.task,
                          available |-> AvailableOf(step.settings, step.paid, step.out)]
    OBVIOUS
  <2>1. Goto(s, next)
    BY <1>1, <1>7 DEF Gathered, AfterRead
  <2>2. next.at = "computed" /\ next.task = step.task
        /\ next.available = AvailableOf(step.settings, step.paid, step.out)
    OBVIOUS
  <2>3. Weighed(step) => \A n \in Nat : n <= step.out =>
          AvailableOf(step.settings, step.paid, step.out) <= Floor0(NetOf(settled) - n)
    BY <1>2, <1>3, ProjectionBound
  <2>4. Sound' => next.available <= Floor0(NetOf(settled) - Sum(Completed))
    BY <1>4, <1>5, <1>7, <2>2, <2>3
  <2>5. Sound' => StoredStep(next)'
    BY <1>4, <2>2, <2>4 DEF StoredStep, Unwritten
  <2>6. StillLands(s, next)
    BY <1>2, <2>2 DEF StillLands, Refreshing
  <2>7. QED BY <1>2, <1>3, <2>1, <2>5, <2>6, CalmStored
<1>8. QED BY <1>6, <1>7

\* The write of a refresh; that of an approval lands, or is recorded as missing.
LEMMA WriteStored ==
  ASSUME Books, Books', Stored, NEW s \in Sessions, WriteWallet(s)
  PROVE  Stored'
<1>1. /\ UNCHANGED <<settled, status, amount>> /\ slips \subseteq slips'
      /\ work[s].at = "computed" /\ wallet' \in {work[s].available, wallet}
      /\ Sound' => Sound /\ (Refreshing(work[s], "approve") => wallet' = work[s].available)
  BY DEF WriteWallet, tables, Outcomes, Slip, Sound
<1>2. Tables /\ Tables' /\ NoneApproved
  BY <1>1 DEF Books, NoneApproved
<1>3. /\ NetOf(settled) <= NetOf(settled)'
      /\ Floor0(NetOf(settled) - Sum(Completed))' = Floor0(NetOf(settled) - Sum(Completed))
      /\ Sum(Completed)' <= Sum(Completed)
  BY <1>1, <1>2, Sums DEF Floor0, NetOf, Sum, Completed, Balances
<1>4. PICK step : Goto(s, step) /\ step.at \in {"idle", "summing"}
  BY DEF WriteWallet, Idle
<1>5. StoredStep(step)'
  BY <1>4 DEF StoredStep, Unwritten
<1>6. Sound' => WalletFits
  <2>1. SUFFICES ASSUME Sound' PROVE WalletFits
    OBVIOUS
  <2>2. work[s].available <= Floor0(NetOf(settled) - Sum(Completed))
    BY <1>1, <2>1 DEF Stored, StoredStep, Unwritten
  <2>3. CASE wallet' = work[s].available
    BY <1>3, <2>2, <2>3 DEF WalletFits
  <2>4. CASE wallet' # work[s].available
    <3>1. wallet' = wallet /\ ~Refreshing(work[s], "approve")
      BY <1>1, <2>1, <2>4
    <3>2. NoneLands
      BY <1>2, <1>4, <3>1, NoneLandsByMove DEF StillLands
    <3>3. QED BY <3>1, <3>2 DEF WalletFits
  <2>5. QED BY <2>3, <2>4
<1>7. \A t \in Sessions : UnwrittenFits(work[t])
  BY <1>3 DEF UnwrittenFits
<1>8. QED BY <1>1, <1>2, <1>3, <1>4, <1>5, <1>6, <1>7, MoveStored

\* An approval: nobody holds figures from before it, and its row is on its way.
LEMMA ApproveStored ==
  ASSUME Books, Books', Stored, NEW s \in Sessions, ApproveUpdate(s)
  PROVE  Stored'
<1> PICK w : w = work[s].row
  OBVIOUS
<1>1. UNCHANGED <<paid, settled, amount, wallet>> /\ work[s].at = "approving" /\ w \in Rows
  BY DEF ApproveUpdate, Books, Carried, Proper
<1>2. Tables /\ Tables' /\ ~Refreshing(work[s], "approve")
  BY <1>1 DEF Books, Refreshing
<1>3. CASE status[w] # "pending"
  <2>1. UNCHANGED <<status, slips>> /\ Goto(s, Idle)
    BY <1>3 DEF ApproveUpdate
  <2>2. NoneApproved /\ StillLands(s, Idle) /\ StoredStep(Idle)'
    BY <1>1, <1>2, <2>1 DEF NoneApproved, StillLands, StoredStep, Unwritten, Idle
  <2>3. QED BY <1>1, <1>2, <2>1, <2>2, CalmStored
<1>4. CASE status[w] = "pending"
  <2> PICK task : task = [job |-> "approve", row |-> w]
    OBVIOUS
  <2> PICK step : step = Refresh(task)
    OBVIOUS
  <2>1. /\ status' = [status EXCEPT ![w] = "approved"]
        /\ Goto(s, step) /\ slips \subseteq slips'
        /\ Sound' => \A t \in Sessions : ~Unwritten(work[t])
    BY <1>4 DEF ApproveUpdate, Sound
  <2>2. task \in Tasks /\ task.job = "approve" /\ task.row = w
    BY <1>1 DEF Tasks
  <2>3. step.at = "reading" /\ step.task = task /\ "withdrawals" \in step.todo
    BY <2>2, RefreshIs
  <2>4. NetOf(settled) <= NetOf(settled)'
    BY <1>1, <1>2, Sums DEF NetOf, Balances
  <2>5. NoneLands
    <3>1. \A t \in Sessions : work'[t] = IF t = s THEN step ELSE work[t]
      BY <2>1 DEF Goto, Books, Carried
    <3>2. \A v \in Rows : status'[v] = "approved" => v = w \/ status[v] = "approved"
      BY <1>1, <2>1 DEF Books, Tables
    <3>3. Refreshing(work'[s], "approve") /\ work'[s].task.row = w
      BY <2>2, <2>3, <3>1 DEF Refreshing
    <3>4. ASSUME NEW v \in Rows, Landed(v)' PROVE Landed(v) /\ amount'[v] = amount[v]
      <4>1. /\ status'[v] = "approved"
            /\ ~ \E t \in Sessions : Refreshing(work'[t], "approve") /\ work'[t].task.row = v
        BY <3>4 DEF Landed, Completed, Landing, Refreshing
      <4>2. status[v] = "approved"
        BY <3>2, <3>3, <4>1
      <4>3. ASSUME NEW t \in Sessions, Refreshing(work[t], "approve"), work[t].task.row = v
            PROVE  FALSE
        BY <1>2, <3>1, <4>1, <4>3
      <4>4. QED BY <1>1, <4>2, <4>3 DEF Landed, Completed, Landing
    <3>5. QED BY <3>4 DEF NoneLands
  <2>6. WalletFits /\ StoredStep(step)'
    BY <1>1, <2>3, <2>5 DEF WalletFits, StoredStep, Unwritten
  <2>7. Sound' => \A t \in Sessions \ {s} : UnwrittenFits(work[t])
    BY <2>1 DEF UnwrittenFits
  <2>8. QED BY <1>2, <2>1, <2>4, <2>6, <2>7, MoveStored
<1>5. QED BY <1>3, <1>4

\* A row that goes in, and one that is rejected, are not completed.
LEMMA InsertStored ==
  ASSUME Books, Books', Stored, NEW s \in Sessions, NEW w \in Rows,
         InsertRow(s, w) \/ RpcInsert(s, w)
  PROVE  Stored'
<1> PICK task : task = [job |-> "confirm"]
  OBVIOUS
<1> PICK step : step = Refresh(task)
  OBVIOUS
<1>1. /\ Goto(s, step) /\ UNCHANGED <<settled, wallet>> /\ slips \subseteq slips'
      /\ status' = [status EXCEPT ![w] = "pending"]
      /\ amount' = [amount EXCEPT ![w] = work[s].amount]
      /\ work[s].at \in {"inserting", "rpcSummed"}
  BY DEF InsertRow, RpcInsert, history, Slip
<1>2. Tables'
  BY DEF Books
<1>3. NoneApproved
  BY <1>1 DEF NoneApproved, Books, Tables
<1>4. task \in Tasks
  BY DEF Tasks
<1>5. step.at = "reading" /\ "withdrawals" \in step.todo
  BY <1>4, RefreshIs
<1>6. StillLands(s, step) /\ StoredStep(step)'
  BY <1>1, <1>5 DEF StillLands, Refreshing, StoredStep, Unwritten
<1>7. QED BY <1>1, <1>2, <1>3, <1>6, CalmStored

LEMMA RejectStored ==
  ASSUME Books, Books', Stored, NEW s \in Sessions, RejectUpdate(s) PROVE Stored'
<1> PICK w : w = work[s].row
  OBVIOUS
<1>1. /\ Goto(s, Idle) /\ UNCHANGED <<settled, amount, wallet, slips>>
      /\ status' = [status EXCEPT ![w] = "rejected"] /\ work[s].at = "rejecting"
  BY DEF RejectUpdate, history
<1>2. Tables' /\ NoneApproved
  BY <1>1 DEF Books, Tables, NoneApproved
<1>3. StillLands(s, Idle) /\ StoredStep(Idle)'
  BY <1>1 DEF StillLands, Refreshing, StoredStep, Unwritten, Idle
<1>4. QED BY <1>1, <1>2, <1>3, CalmStored

\* Steps that change no row.  A handler that dies while it stores an approval is
\* recorded as missing.
LEMMA QuietStored ==
  ASSUME Books, Books', Stored, NEW s \in Sessions,
         \/ \E a \in Amounts : Request(s, a) \/ RpcLock(s, a)
         \/ CheckCap(s) \/ RpcSum(s) \/ Die(s)
         \/ \E w \in Rows : ApproveRead(s, w) \/ RejectRead(s, w)
  PROVE  Stored'
<1>1. /\ UNCHANGED <<settled, status, amount, wallet>> /\ slips \subseteq slips'
      /\ Sound' => ~Refreshing(work[s], "approve")
  <2>1. CASE Die(s)
    BY <2>1 DEF Die, tables, Slip, Sound
  <2>2. CASE CheckCap(s) \/ RpcSum(s)
    <3>1. work[s].at \in {"summing", "rpcLocked"}
      BY <2>2 DEF CheckCap, RpcSum
    <3>2. UNCHANGED <<tables, wallet>> /\ slips \subseteq slips'
      BY <2>2 DEF CheckCap, RpcSum, Slip
    <3>3. QED BY <3>1, <3>2 DEF tables, Refreshing
  <2>3. ASSUME NEW a \in Amounts, Request(s, a) \/ RpcLock(s, a)
        PROVE  UNCHANGED <<tables, wallet, slips>> /\ work[s] = Idle
    BY <2>3 DEF Request, RpcLock, history
  <2>4. ASSUME NEW w \in Rows, ApproveRead(s, w) \/ RejectRead(s, w)
        PROVE  UNCHANGED <<tables, wallet, slips>> /\ work[s] = Idle
    BY <2>4 DEF ApproveRead, RejectRead, history
  <2>5. ~Refreshing(Idle, "approve")
    BY DEF Refreshing, Idle
  <2>6. QED BY <2>1, <2>2, <2>3, <2>4, <2>5 DEF tables
<1>2. Tables' /\ NoneApproved
  BY <1>1 DEF Books, NoneApproved
<1>3. PICK step : Goto(s, step) /\ ~Unwritten(step)
  <2>1. ASSUME NEW a \in Amounts, Request(s, a) PROVE \E step : Goto(s, step) /\ ~Unwritten(step)
    <3> PICK task : task = [job |-> "request", amount |-> a]
      OBVIOUS
    <3> PICK step : step = Refresh(task)
      OBVIOUS
    <3>1. task \in Tasks /\ Goto(s, step)
      BY <2>1 DEF Tasks, Request
    <3>2. step.at = "reading" /\ "withdrawals" \in step.todo
      BY <3>1, RefreshIs
    <3>3. QED BY <3>1, <3>2 DEF Unwritten
  <2>2. ASSUME NEW a \in Amounts, RpcLock(s, a)
        PROVE  \E step : Goto(s, step) /\ step.at \notin {"reading", "computed"}
    BY <2>2 DEF RpcLock
  <2>3. ASSUME NEW w \in Rows, ApproveRead(s, w) \/ RejectRead(s, w)
        PROVE  \E step : Goto(s, step) /\ step.at \notin {"reading", "computed"}
    BY <2>3 DEF ApproveRead, RejectRead
  <2>4. ASSUME CheckCap(s) \/ RpcSum(s) \/ Die(s)
        PROVE  \E step : Goto(s, step) /\ step.at \notin {"reading", "computed"}
    BY <2>4, IdleIsQuiet DEF CheckCap, RpcSum, Die
  <2>5. QED BY <2>1, <2>2, <2>3, <2>4 DEF Unwritten
<1>4. StoredStep(step)' /\ (Sound' => StillLands(s, step))
  BY <1>1, <1>3 DEF StoredStep, Unwritten, StillLands
<1>5. QED BY <1>1, <1>2, <1>3, <1>4, CalmStored

LEMMA NextStored == Books /\ Books' /\ Stored /\ [Next]_vars => Stored'
BY WorldStepStored, ReadStored, WriteStored, ApproveStored, InsertStored, RejectStored,
   QuietStored
DEF Next, RefreshStep, AdminStep, RequestStep

LEMMA AtomicNextStored == Books /\ Books' /\ Stored /\ [AtomicNext]_vars => Stored'
BY WorldStepStored, ReadStored, WriteStored, ApproveStored, InsertStored, RejectStored,
   QuietStored
DEF AtomicNext, AdminStep

-----------------------------------------------------------------------------
\* The tables and the locals of the handlers keep their shapes; the stored balance
\* never goes below zero, and no payment settles that was not received.
THEOREM WithdrawalsTyped == Spec => []TypeOK
<1>1. Books /\ NoRpc => TypeOK
  <2> SUFFICES ASSUME Books, NoRpc PROVE TypeOK
    OBVIOUS
  <2>1. ASSUME NEW s \in Sessions PROVE work[s] \in Steps
    <3>1. Proper(work[s]) /\ ~InRpc(s)
      BY DEF Books, Carried, NoRpc
    <3>2. QED BY <3>1 DEF Proper, InRpc, Steps, Readings, Computeds
  <2>2. work \in [Sessions -> Steps]
    BY <2>1 DEF Books, Carried
  <2>3. QED BY <2>2 DEF Books, Tables, TypeOK
<1>2. QED BY <1>1, AlwaysBooks, PTL

\* Requests and approvals stay within what settled, for any amounts, rows, payments
\* and handlers in flight, through refreshes, rejections, settlements and handlers
\* that die, as long as none of the two windows was hit and no query failed.
THEOREM SettledMoneyCovers == Spec => []WithinSettledUnlessSlipped
<1>1. Books => WithinSettledUnlessSlipped
  BY DEF Books, Covered, WithinSettledUnlessSlipped, WithinSettled, Clean
<1>2. QED BY <1>1, AlwaysBooks, PTL

\* The same of request_withdrawal_atomic(): two requests never share the money, and
\* an approval between its sum and its insert does no harm.  The one thing left is a
\* stored balance that was out of date when the function read it.
THEOREM AtomicRequestCovered == AtomicSpec => []WithinSettledUnlessSlipped
<1>1. Books => WithinSettledUnlessSlipped
  BY DEF Books, Covered, WithinSettledUnlessSlipped, WithinSettled, Clean
<1>2. QED BY <1>1, AlwaysBooksAtomic, PTL

\* The stored balance holds no money an approval took out, other than of approvals
\* whose handler is on its way to store it: whatever is requested, inserted, rejected,
\* settled or refreshed meanwhile, and in whatever order the writes arrive, as long as
\* no refresh had the withdrawals in hand when an approval landed.
THEOREM StoredStaysCovered == Spec => []StoredIsCovered
<1>1. Stored => StoredIsCovered
  BY DEF Stored, Sound, StoredIsCovered
<1>2. QED BY <1>1, InitStored, NextStored, AlwaysBooks, PTL DEF Spec

\* The same beside request_withdrawal_atomic(), which is the one that trusts it.
THEOREM AtomicStoredCovered == AtomicSpec => []StoredIsCovered
<1>1. Stored => StoredIsCovered
  BY DEF Stored, Sound, StoredIsCovered
<1>2. QED BY <1>1, InitStored, AtomicNextStored, AlwaysBooksAtomic, PTL DEF AtomicSpec

\* The balance an approval is about to store lacks what it approved, whatever was
\* requested, approved, rejected or settled between the update and its two reads.
THEOREM ApprovalIsDeducted == Spec => []ApprovalDeducted
<1>1. Books => ApprovalDeducted
  BY DEF Books, Deducted, DeductedStep, Refreshing, ApprovalDeducted
<1>2. QED BY <1>1, AlwaysBooks, PTL

-----------------------------------------------------------------------------
(* The figures the model starts from: Fees.                                 *)

\* What roundCurrency gives is a natural number next to the fraction.
LEMMA RoundedNear ==
  ASSUME NEW num \in Nat, NEW den \in Nat \ {0}, NEW k \in Rounded(num, den)
  PROVE  /\ k \in Nat
         /\ 2 * (num - k * den) <= den /\ 2 * (k * den - num) <= den
<1>1. num \div den \in Nat
  OBVIOUS
<1> QED
  BY <1>1 DEF Rounded

\* A fee is what is nearest to the rate, or the cap.
LEMMA FeeBounds ==
  ASSUME NEW asked \in Nat, NEW rate \in {5, 10, 15}, NEW k \in Fee(asked, rate)
  PROVE  /\ k \in Nat
         /\ asked * rate <= 1000 * FeeCap =>
              /\ 2 * (asked * rate - k * 1000) <= 1000
              /\ 2 * (k * 1000 - asked * rate) <= 1000
         /\ asked * rate > 1000 * FeeCap => k = FeeCap
<1>1. asked * rate \in Nat
  OBVIOUS
<1>2. CASE asked * rate <= 1000 * FeeCap
  <2>1. k \in Rounded(asked * rate, 1000)
    BY <1>2 DEF Fee
  <2> QED
    BY <1>1, <1>2, <2>1, RoundedNear, FeeCapAssumption
<1>3. CASE asked * rate > 1000 * FeeCap
  BY <1>1, <1>3, FeeCapAssumption DEF Fee
<1> QED
  BY <1>1, <1>2, <1>3, FeeCapAssumption

\* A total is made of one platform fee and one gateway fee.
LEMMA TotalFeesSplit ==
  ASSUME NEW asked, NEW type, NEW t \in TotalFees(asked, type)
  PROVE  \E p \in Fee(asked, PlatformRate(type)), g \in Fee(asked, GatewayRate) :
           t = p + g
  BY DEF TotalFees, Fees

(* No payment is worth more to the organizer than what was paid, nor less    *)
(* than nothing: whatever the type, the bearer and the cap, what the wallets *)
(* count of a payment lies between 0 and its gross.                          *)
THEOREM CreditWithinPaid ==
  ASSUME NEW gross \in Nat, NEW type, NEW bearer, NEW n \in Credited(gross, type, bearer)
  PROVE  n \in 0..gross
<1>1. CASE gross = 0
  BY <1>1 DEF Credited
<1>2. CASE gross # 0 /\ bearer = "contributor"
  <2>1. n \in NetContribution(gross, type)
    BY <1>2 DEF Credited
  <2>2. PICK t \in UNION {TotalFees(e, type) : e \in Estimates(gross, type)} :
          n = IF t > gross THEN 0 ELSE gross - t
    BY <2>1 DEF NetContribution
  <2>3. PICK e \in Estimates(gross, type) : t \in TotalFees(e, type)
    OBVIOUS
  <2>4. e \in Nat
    <3>1. 1000 + PlatformRate(type) + GatewayRate \in Nat \ {0}
      BY DEF PlatformRate, GatewayRate, FundraisingRate, DefaultRate
    <3> QED
      BY <3>1, RoundedNear DEF Estimates
  <2>5. PICK p \in Fee(e, PlatformRate(type)), g \in Fee(e, GatewayRate) : t = p + g
    BY <2>3, TotalFeesSplit
  <2>6. PlatformRate(type) \in {5, 10, 15} /\ GatewayRate \in {5, 10, 15}
    BY DEF PlatformRate, GatewayRate, FundraisingRate, DefaultRate
  <2>7. p \in Nat /\ g \in Nat
    BY <2>4, <2>6, FeeBounds
  <2> QED
    BY <2>2, <2>5, <2>7
<1>3. CASE gross # 0 /\ bearer # "contributor"
  <2>1. PICK t \in TotalFees(gross, type) : n = gross - t
    BY <1>3 DEF Credited
  <2>2. PICK p \in Fee(gross, PlatformRate(type)), g \in Fee(gross, GatewayRate) : t = p + g
    BY TotalFeesSplit
  <2>3. PlatformRate(type) \in {5, 10, 15} /\ GatewayRate \in {5, 10, 15}
    BY DEF PlatformRate, GatewayRate, FundraisingRate, DefaultRate
  <2>4. p \in Nat /\ g \in Nat
    BY <2>3, FeeBounds
  <2>5. 1000 * p <= 10 * gross + 500
    BY <2>3, FeeBounds, FeeCapAssumption DEF PlatformRate, FundraisingRate, DefaultRate
  <2>6. 1000 * g <= 15 * gross + 500
    BY <2>3, FeeBounds, FeeCapAssumption DEF GatewayRate
  <2> QED
    BY <2>1, <2>2, <2>4, <2>5, <2>6, <1>3
<1> QED
  BY <1>1, <1>2, <1>3

(* What a contributor is charged on top of an amount is taken off again: the *)
(* wallet counts the amount the organizer asked for to within one kobo while *)
(* no fee is capped, and beyond that no less either; the cap on one fee      *)
(* alone, for which deriveNetContribution refines only once, can add a       *)
(* hundredth of the cap.                                                     *)
THEOREM FeesComeBack ==
  ASSUME NEW asked \in Nat, NEW type,
         NEW gross \in TotalPayable(asked, type, "contributor"),
         NEW n \in Credited(gross, type, "contributor")
  PROVE  /\ n >= asked - 1
         /\ 100 * (n - asked) <= FeeCap + 100
         /\ 15 * gross <= 1000 * FeeCap => n <= asked + 1
<1> DEFINE r == PlatformRate(type)
<1>1. PICK t \in TotalFees(asked, type) : gross = asked + t
  BY DEF TotalPayable
<1>2. PICK p \in Fee(asked, r), g \in Fee(asked, GatewayRate) : t = p + g
  BY TotalFeesSplit
<1>3. r \in {5, 10} /\ GatewayRate = 15
  BY DEF PlatformRate, GatewayRate, FundraisingRate, DefaultRate
<1>4. /\ p \in Nat
      /\ asked * r <= 1000 * FeeCap =>
           2 * (asked * r - p * 1000) <= 1000 /\ 2 * (p * 1000 - asked * r) <= 1000
      /\ asked * r > 1000 * FeeCap => p = FeeCap
  BY <1>3, FeeBounds
<1>5. /\ g \in Nat
      /\ asked * 15 <= 1000 * FeeCap =>
           2 * (asked * 15 - g * 1000) <= 1000 /\ 2 * (g * 1000 - asked * 15) <= 1000
      /\ asked * 15 > 1000 * FeeCap => g = FeeCap
  BY <1>3, FeeBounds
<1>6. gross \in Nat
  BY <1>1, <1>2, <1>4, <1>5
<1>7. CASE gross = 0
  <2>1. n = 0
    BY <1>7 DEF Credited
  <2>2. asked = 0
    BY <1>1, <1>2, <1>4, <1>5, <1>7
  <2> QED
    BY <2>1, <2>2, FeeCapAssumption
<1>8. CASE gross # 0
  <2>1. n \in NetContribution(gross, type)
    BY <1>8 DEF Credited
  <2>2. PICK u \in UNION {TotalFees(e, type) : e \in Estimates(gross, type)} :
          n = IF u > gross THEN 0 ELSE gross - u
    BY <2>1 DEF NetContribution
  <2>3. PICK e \in Estimates(gross, type) : u \in TotalFees(e, type)
    OBVIOUS
  <2>4. /\ e \in Nat
        /\ 2 * (1000 * gross - e * (1015 + r)) <= 1015 + r
        /\ 2 * (e * (1015 + r) - 1000 * gross) <= 1015 + r
    <3>1. e \in Rounded(1000 * gross, 1015 + r)
      BY <1>3 DEF Estimates
    <3> QED
      BY <3>1, <1>3, <1>6, RoundedNear
  <2>5. PICK q \in Fee(e, r), h \in Fee(e, GatewayRate) : u = q + h
    BY <2>3, TotalFeesSplit
  <2>6. /\ q \in Nat
        /\ e * r <= 1000 * FeeCap =>
             2 * (e * r - q * 1000) <= 1000 /\ 2 * (q * 1000 - e * r) <= 1000
        /\ e * r > 1000 * FeeCap => q = FeeCap
    BY <1>3, <2>4, FeeBounds
  <2>7. /\ h \in Nat
        /\ e * 15 <= 1000 * FeeCap =>
             2 * (e * 15 - h * 1000) <= 1000 /\ 2 * (h * 1000 - e * 15) <= 1000
        /\ e * 15 > 1000 * FeeCap => h = FeeCap
    BY <1>3, <2>4, FeeBounds
  <2>8. u <= gross
    BY <1>3, <2>4, <2>5, <2>6, <2>7, <1>6, <1>8, FeeCapAssumption
  <2>9. n = asked + (p + g) - (q + h)
    BY <1>1, <1>2, <1>4, <1>5, <2>2, <2>5, <2>6, <2>7, <2>8
  <2>10. q + h <= p + g + 1
    BY <1>1, <1>2, <1>3, <1>4, <1>5, <2>4, <2>6, <2>7, FeeCapAssumption
  <2>11. 100 * ((p + g) - (q + h)) <= FeeCap + 100
    BY <1>1, <1>2, <1>3, <1>4, <1>5, <2>4, <2>6, <2>7, FeeCapAssumption
  <2>12. 15 * gross <= 1000 * FeeCap => p + g <= q + h + 1
    BY <1>1, <1>2, <1>3, <1>4, <1>5, <2>4, <2>6, <2>7, FeeCapAssumption
  <2> QED
    BY <2>6, <2>7, <1>4, <1>5, <2>9, <2>10, <2>11, <2>12, FeeCapAssumption
<1> QED
  BY <1>7, <1>8
-----------------------------------------------------------------------------
(* What the books say of it: Wallets.                                       *)

\* What the tables hold: finitely many rows, no negative amounts.
SoundRows(l) ==
  /\ {"paid", "requests", "net", "gross", "created", "amount", "status", "home"} \subseteq DOMAIN l
  /\ IsFiniteSet(l.paid) /\ IsFiniteSet(l.requests)
  /\ \A c \in l.paid : l.net[c] \in Nat /\ l.gross[c] \in Nat /\ l.created[c] \subseteq Int
  /\ \A w \in l.requests : l.amount[w] \in Nat

LEMMA RequestedIsNat ==
  ASSUME NEW l, SoundRows(l), NEW statuses
  PROVE  Requested(l, statuses) \in Nat
<1> DEFINE ws == {w \in l.requests : l.status[w] \in statuses}
<1>1. IsFiniteSet(ws) /\ \A w \in ws : l.amount[w] \in Nat
  <2>1. ws \subseteq l.requests OBVIOUS
  <2>2. QED BY <2>1, FS_Subset DEF SoundRows
<1>2. QED BY <1>1, SumNat DEF Requested

LEMMA BalanceParts ==
  ASSUME NEW l, SoundRows(l), NEW cutoff
  PROVE  LET b == WalletBalances(l, cutoff)
             unsettled == SumFunctionOnSet(l.net, Unsettled(l, cutoff))
         IN  /\ b = [net |-> b.net, gross |-> b.gross, pending |-> b.pending,
                     withdrawn |-> b.withdrawn, available |-> b.available, ledger |-> b.ledger]
             /\ b.net = SumFunctionOnSet(l.net, l.paid) /\ b.net \in Nat
             /\ b.gross = SumFunctionOnSet(l.gross, l.paid) /\ b.gross \in Nat
             /\ b.pending = unsettled /\ b.pending \in Nat /\ b.pending <= b.net
             /\ b.withdrawn = Requested(l, PaidOut) /\ b.withdrawn \in Nat
             /\ b.available = AtLeast0(b.net - b.pending - b.withdrawn)
             /\ b.ledger = b.available + b.pending
<1>1. Unsettled(l, cutoff) \in SUBSET l.paid
  BY DEF Unsettled
<1>2. /\ SumFunctionOnSet(l.net, l.paid) \in Nat
      /\ SumFunctionOnSet(l.gross, l.paid) \in Nat
  BY SumNat DEF SoundRows
<1>3. SumFunctionOnSet(l.net, Unsettled(l, cutoff)) \in Nat
  <2>1. IsFiniteSet(Unsettled(l, cutoff)) /\ \A c \in Unsettled(l, cutoff) : l.net[c] \in Nat
    BY <1>1, FS_Subset DEF SoundRows
  <2>2. QED BY <2>1, SumNat
<1>4. SumFunctionOnSet(l.net, Unsettled(l, cutoff)) <= SumFunctionOnSet(l.net, l.paid)
  BY <1>1, SumSubset DEF SoundRows
<1>5. Requested(l, PaidOut) \in Nat
  BY RequestedIsNat
<1>6. QED BY <1>2, <1>3, <1>4, <1>5 DEF WalletBalances

\* The cutoff is a past moment, and it never goes back.
LEMMA CutoffAdvances ==
  ASSUME NEW now \in Nat, NEW later \in Nat, now <= later
  PROVE  /\ SettlementCutoff(now) \in Int /\ SettlementCutoff(now) <= now
         /\ SettlementCutoff(now) <= SettlementCutoff(later)
BY SMTT(30) DEF SettlementCutoff, Day, SettlementHour

\* checkInvariants looks for five impossible states.  Four of them no rows can cause,
\* whenever they are read: the only one that tells anything is OVER_WITHDRAWN.
THEOREM OnlyOverdraftShows ==
  ASSUME NEW l, SoundRows(l), NEW cutoff
  PROVE  /\ FigureIssues(WalletBalances(l, cutoff)) \subseteq {"OVER_WITHDRAWN"}
         /\ Requested(l, PaidOut) <= SumFunctionOnSet(l.net, l.paid) =>
              FigureIssues(WalletBalances(l, cutoff)) = {}
<1> DEFINE b == WalletBalances(l, cutoff)
<1>1. /\ b.net \in Nat /\ b.pending \in Nat /\ b.pending <= b.net /\ b.withdrawn \in Nat
      /\ b.available = AtLeast0(b.net - b.pending - b.withdrawn) /\ b.ledger = b.available + b.pending
      /\ b.withdrawn = Requested(l, PaidOut) /\ b.net = SumFunctionOnSet(l.net, l.paid)
  BY BalanceParts
<1> HIDE DEF b
<1>2. /\ ~(b.available + b.pending - b.ledger > Slack) /\ ~(b.ledger - b.available - b.pending > Slack)
      /\ ~(b.available < -Slack) /\ ~(b.pending < -Slack) /\ ~(b.available > b.net + Slack)
      /\ b.withdrawn <= b.net => ~(b.withdrawn > b.net + Slack)
  BY <1>1 DEF AtLeast0, Slack
<1>3. /\ FigureIssues(b) \subseteq {"OVER_WITHDRAWN"}
      /\ b.withdrawn <= b.net => FigureIssues(b) = {}
  BY <1>2 DEF FigureIssues, Issue
<1>4. QED BY <1>1, <1>3 DEF b

\* A stored wallet that nothing but time has passed since: of the six columns only
\* pending and available can differ from the live figures, and the stored available
\* is never the larger.  An overdraft has to be excluded: its floor at 0 moves the
\* ledger as well.
THEOREM OnlyTheSplitGoesStale ==
  ASSUME NEW l, SoundRows(l), NEW now \in Nat, NEW later \in Nat, now <= later, NEW stored,
         \A f \in WalletFields : stored[f] = WalletBalances(l, SettlementCutoff(now))[f],
         LET b == WalletBalances(l, SettlementCutoff(now)) IN b.withdrawn <= b.net - b.pending
  PROVE  LET live == WalletBalances(l, SettlementCutoff(later))
         IN  Drift(live, stored) \subseteq {"pending", "available"} /\ stored.available <= live.available
<1> DEFINE b == WalletBalances(l, SettlementCutoff(now))
           live == WalletBalances(l, SettlementCutoff(later))
<1>1. /\ b.net \in Nat /\ b.pending \in Nat /\ b.pending <= b.net /\ b.withdrawn \in Nat /\ b.gross \in Nat
      /\ b.available = AtLeast0(b.net - b.pending - b.withdrawn) /\ b.ledger = b.available + b.pending
      /\ b.pending = SumFunctionOnSet(l.net, Unsettled(l, SettlementCutoff(now)))
      /\ b.withdrawn <= b.net - b.pending
  BY BalanceParts
<1>2. /\ live.net = b.net /\ live.gross = b.gross /\ live.withdrawn = b.withdrawn /\ live.pending \in Nat
      /\ live.available = AtLeast0(live.net - live.pending - live.withdrawn)
      /\ live.ledger = live.available + live.pending
      /\ live.pending = SumFunctionOnSet(l.net, Unsettled(l, SettlementCutoff(later)))
  BY BalanceParts
<1>3. live.pending <= b.pending
  <2>1. Unsettled(l, SettlementCutoff(later)) \in SUBSET Unsettled(l, SettlementCutoff(now))
    <3>1. ASSUME NEW c \in l.paid, NEW t \in l.created[c], t >= SettlementCutoff(later)
          PROVE  t >= SettlementCutoff(now)
      <4>1. t \in Int /\ SettlementCutoff(now) \in Int /\ SettlementCutoff(later) \in Int
            /\ SettlementCutoff(now) <= SettlementCutoff(later)
        BY CutoffAdvances DEF SoundRows
      <4>2. QED BY <3>1, <4>1
    <3>2. QED BY <3>1 DEF Unsettled
  <2>2. /\ IsFiniteSet(Unsettled(l, SettlementCutoff(now)))
        /\ \A c \in Unsettled(l, SettlementCutoff(now)) : l.net[c] \in Nat
    <3>1. Unsettled(l, SettlementCutoff(now)) \subseteq l.paid BY DEF Unsettled
    <3>2. QED BY <3>1, FS_Subset DEF SoundRows
  <2>3. QED BY <1>1, <1>2, <2>1, <2>2, SumSubset
<1>4. \A f \in WalletFields : stored[f] = b[f]
  OBVIOUS
<1> HIDE DEF b, live
<1>5. /\ stored["net"] = b.net /\ stored["gross"] = b.gross /\ stored["withdrawn"] = b.withdrawn
      /\ stored["ledger"] = b.ledger /\ stored["available"] = b.available
  BY <1>4 DEF WalletFields
<1>6. b.ledger = live.ledger /\ b.available <= live.available /\ b.ledger \in Int
  BY <1>1, <1>2, <1>3 DEF AtLeast0
<1>7. \A f \in {"net", "gross", "withdrawn", "ledger"} : f \notin Drift(live, stored)
  BY <1>1, <1>2, <1>5, <1>6 DEF Drift, Slack
<1>8. Drift(live, stored) \subseteq {"pending", "available"}
  BY <1>7 DEF Drift, WalletFields
<1>9. QED BY <1>5, <1>6, <1>8 DEF live

\* What is left of a ledger when everything it owes or has asked for is taken off.
Spare(l, cutoff) ==
  SumFunctionOnSet(l.net, l.paid) - SumFunctionOnSet(l.net, Unsettled(l, cutoff))
    - Requested(l, PaidOut) - Requested(l, InFlight)

LEMMA WithdrawableIsSpare ==
  ASSUME NEW l, SoundRows(l), NEW cutoff
  PROVE  Spare(l, cutoff) \in Int /\ Withdrawable(l, cutoff) = AtLeast0(Spare(l, cutoff))
<1> DEFINE b == WalletBalances(l, cutoff)
<1>1. /\ b.net \in Nat /\ b.pending \in Nat /\ b.withdrawn \in Nat
      /\ b.available = AtLeast0(b.net - b.pending - b.withdrawn)
      /\ b.net = SumFunctionOnSet(l.net, l.paid) /\ b.withdrawn = Requested(l, PaidOut)
      /\ b.pending = SumFunctionOnSet(l.net, Unsettled(l, cutoff))
  BY BalanceParts
<1>2. Requested(l, InFlight) \in Nat
  BY RequestedIsNat
<1>3. Withdrawable(l, cutoff) = AtLeast0(b.available - Requested(l, InFlight))
  BY DEF Withdrawable
<1> HIDE DEF b
<1>4. QED BY <1>1, <1>2, <1>3 DEF Spare, AtLeast0

LEMMA RowsOfParts ==
  ASSUME NEW l, SoundRows(l), NEW cs
  PROVE  LET own == RowsOf(l, cs)
         IN  /\ own.paid = {c \in l.paid : l.home[c] \in cs}
             /\ own.requests = {w \in l.requests : l.home[w] \in cs}
             /\ own.net = l.net /\ own.gross = l.gross /\ own.created = l.created
             /\ own.amount = l.amount /\ own.status = l.status /\ own.home = l.home
             /\ SoundRows(own)
<1> DEFINE own == RowsOf(l, cs)
<1>1. /\ own.paid = {c \in l.paid : l.home[c] \in cs}
      /\ own.requests = {w \in l.requests : l.home[w] \in cs}
      /\ own.net = l.net /\ own.gross = l.gross /\ own.created = l.created
      /\ own.amount = l.amount /\ own.status = l.status /\ own.home = l.home
      /\ DOMAIN own = DOMAIN l
  BY DEF RowsOf, SoundRows
<1> HIDE DEF own
<1>2. IsFiniteSet(own.paid) /\ IsFiniteSet(own.requests)
  <2>1. own.paid \subseteq l.paid /\ own.requests \subseteq l.requests
    BY <1>1
  <2>2. QED BY <2>1, FS_Subset DEF SoundRows
<1>3. SoundRows(own)
  BY <1>1, <1>2 DEF SoundRows
<1>4. QED BY <1>1, <1>3 DEF own

LEMMA SpareSplits ==
  ASSUME NEW l, SoundRows(l), NEW cutoff, NEW A, NEW a, a \in A, NEW B, B = A \ {a}
  PROVE  Spare(RowsOf(l, A), cutoff) =
           Spare(RowsOf(l, {a}), cutoff) + Spare(RowsOf(l, B), cutoff)
<1> DEFINE net(cs) == SumFunctionOnSet(l.net, {c \in l.paid : l.home[c] \in cs})
           late == Unsettled(l, cutoff)
           new(cs) == SumFunctionOnSet(l.net, {c \in late : l.home[c] \in cs})
           in(st) == {w \in l.requests : l.status[w] \in st}
           out(st, cs) == SumFunctionOnSet(l.amount, {w \in in(st) : l.home[w] \in cs})
<1>1. ASSUME NEW cs PROVE Spare(RowsOf(l, cs), cutoff) = net(cs) - new(cs) - out(PaidOut, cs) - out(InFlight, cs)
  <2> DEFINE own == RowsOf(l, cs)
  <2>1. /\ own.paid = {c \in l.paid : l.home[c] \in cs}
        /\ own.requests = {w \in l.requests : l.home[w] \in cs}
        /\ own.net = l.net /\ own.created = l.created /\ own.amount = l.amount /\ own.status = l.status
    BY RowsOfParts
  <2> HIDE DEF own
  <2>2. Unsettled(own, cutoff) = {c \in late : l.home[c] \in cs}
    BY <2>1 DEF Unsettled
  <2>3. ASSUME NEW st PROVE Requested(own, st) = out(st, cs)
    <3>1. {w \in own.requests : own.status[w] \in st} = {w \in in(st) : l.home[w] \in cs}
      BY <2>1
    <3>2. QED BY <2>1, <3>1 DEF Requested
  <2>4. Spare(own, cutoff) = net(cs) - new(cs) - Requested(own, PaidOut) - Requested(own, InFlight)
    BY <2>1, <2>2 DEF Spare
  <2>5. QED BY <2>3, <2>4 DEF own
<1>2. ASSUME NEW cs
      PROVE  net(cs) \in Int /\ new(cs) \in Int /\ out(PaidOut, cs) \in Int /\ out(InFlight, cs) \in Int
  <2>1. ASSUME NEW S, NEW T, S \subseteq T, IsFiniteSet(T), NEW f, \A x \in T : f[x] \in Int
        PROVE  SumFunctionOnSet(f, S) \in Int
    <3>1. IsFiniteSet(S) /\ \A x \in S : f[x] \in Int
      BY <2>1, FS_Subset
    <3>2. QED BY <3>1, SumInt
  <2>2. /\ {c \in l.paid : l.home[c] \in cs} \subseteq l.paid /\ {c \in late : l.home[c] \in cs} \subseteq l.paid
        /\ IsFiniteSet(l.paid) /\ \A c \in l.paid : l.net[c] \in Int
    BY DEF Unsettled, SoundRows
  <2>3. \A st : {w \in in(st) : l.home[w] \in cs} \subseteq l.requests
    OBVIOUS
  <2>4. IsFiniteSet(l.requests) /\ \A w \in l.requests : l.amount[w] \in Int
    BY DEF SoundRows
  <2>5. net(cs) \in Int /\ new(cs) \in Int
    BY <2>1, <2>2
  <2>6. ASSUME NEW st PROVE out(st, cs) \in Int
    BY <2>1, <2>3, <2>4
  <2>7. QED BY <2>5, <2>6
<1> DEFINE sum(f, S, cs) == SumFunctionOnSet(f, {x \in S : l.home[x] \in cs})
<1>3. ASSUME NEW f, NEW S, IsFiniteSet(S), \A x \in S : f[x] \in Int
      PROVE  sum(f, S, A) = sum(f, S, {a}) + sum(f, S, B)
  <2> DEFINE one == {x \in S : l.home[x] \in {a}}
             rest == {x \in S : l.home[x] \in B}
  <2>1. IsFiniteSet(one) /\ IsFiniteSet(rest)
    <3>1. one \subseteq S /\ rest \subseteq S OBVIOUS
    <3>2. QED BY <1>3, <3>1, FS_Subset
  <2>2. /\ one \cap rest = {} /\ {x \in S : l.home[x] \in A} = one \cup rest
        /\ \A x \in one \cup rest : f[x] \in Int
    BY <1>3
  <2> HIDE DEF one, rest
  <2>3. SumFunctionOnSet(f, one \cup rest) = SumFunctionOnSet(f, one) + SumFunctionOnSet(f, rest)
    BY <2>1, <2>2, SumDisjoint
  <2>4. QED BY <2>2, <2>3 DEF one, rest
<1>4. net(A) = net({a}) + net(B)
  <2>1. IsFiniteSet(l.paid) /\ \A c \in l.paid : l.net[c] \in Int
    BY DEF SoundRows
  <2>2. QED BY <2>1, <1>3
<1>5. new(A) = new({a}) + new(B)
  <2>1. late \subseteq l.paid BY DEF Unsettled
  <2>2. IsFiniteSet(late) /\ \A c \in late : l.net[c] \in Int
    BY <2>1, FS_Subset DEF SoundRows
  <2>3. QED BY <2>2, <1>3
<1>6. ASSUME NEW st PROVE out(st, A) = out(st, {a}) + out(st, B)
  <2>1. in(st) \subseteq l.requests OBVIOUS
  <2>2. IsFiniteSet(in(st)) /\ \A w \in in(st) : l.amount[w] \in Int
    BY <2>1, FS_Subset DEF SoundRows
  <2>3. QED BY <2>2, <1>3
<1> DEFINE spare(cs) == Spare(RowsOf(l, cs), cutoff)
<1>7. \A cs : spare(cs) = net(cs) - new(cs) - out(PaidOut, cs) - out(InFlight, cs)
  BY <1>1
<1>8. out(PaidOut, A) = out(PaidOut, {a}) + out(PaidOut, B) /\ out(InFlight, A) = out(InFlight, {a}) + out(InFlight, B)
  BY <1>6
<1>9. \A cs : net(cs) \in Int /\ new(cs) \in Int /\ out(PaidOut, cs) \in Int /\ out(InFlight, cs) \in Int
  BY <1>2
<1> HIDE DEF net, new, out, spare
<1>10. spare(A) = spare({a}) + spare(B)
  BY <1>4, <1>5, <1>7, <1>8, <1>9
<1>11. QED BY <1>10 DEF spare

\* What the dashboard shows as available for the account is never more than what it
\* shows for the collections together: pooling sets an overdrawn collection off
\* against the others, while each withdrawal is held to its own collection.
THEOREM AccountWithinCollections ==
  ASSUME NEW l, SoundRows(l), NEW owner, NEW user, NEW cs, IsFiniteSet(cs), NEW active, NEW cutoff,
         NEW shown, \A c \in cs : \E v \in HostView(l, owner, user, c, cutoff) : shown[c] = v.available
  PROVE  AccountView(l, cs, active, cutoff).available <= SumFunctionOnSet(shown, cs)
<1> DEFINE spare(ds) == Spare(RowsOf(l, ds), cutoff)
<1>1. ASSUME NEW ds
      PROVE  spare(ds) \in Int /\ Withdrawable(RowsOf(l, ds), cutoff) = AtLeast0(spare(ds))
  BY RowsOfParts, WithdrawableIsSpare
<1>2. ASSUME NEW c \in cs PROVE shown[c] = AtLeast0(spare({c}))
  <2>1. PICK v \in HostView(l, owner, user, c, cutoff) : shown[c] = v.available
    OBVIOUS
  <2>2. v.available = Withdrawable(RowsOf(l, {c}), cutoff)
    BY <2>1 DEF HostView
  <2>3. QED BY <1>1, <2>1, <2>2
<1>3. spare({}) = 0
  <2> DEFINE own == RowsOf(l, {})
  <2>1. own.paid = {} /\ own.requests = {}
    BY RowsOfParts
  <2> HIDE DEF own
  <2>2. /\ Unsettled(own, cutoff) = {}
        /\ \A st : {w \in own.requests : own.status[w] \in st} = {}
    BY <2>1 DEF Unsettled
  <2>3. /\ SumFunctionOnSet(own.net, own.paid) = 0
        /\ SumFunctionOnSet(own.net, Unsettled(own, cutoff)) = 0
    BY <2>1, <2>2, SumEmpty
  <2>4. Requested(own, PaidOut) = 0 /\ Requested(own, InFlight) = 0
    BY <2>2, SumEmpty DEF Requested
  <2>5. QED BY <2>3, <2>4 DEF Spare, own
<1> DEFINE T == {A \in SUBSET cs : ~ (AtLeast0(spare(A)) <= SumFunctionOnSet(shown, A))}
<1>4. T = {}
  <2> SUFFICES ASSUME T # {} PROVE FALSE
    OBVIOUS
  <2>1. PICK A \in T : \A B \in T : B \subseteq A => B = A
    <3>1. T \in SUBSET (SUBSET cs) OBVIOUS
    <3> HIDE DEF T
    <3>2. QED BY <3>1, LeastSubset
  <2>2. A \subseteq cs /\ ~ (AtLeast0(spare(A)) <= SumFunctionOnSet(shown, A)) /\ IsFiniteSet(A)
    BY <2>1, FS_Subset
  <2>3. A # {}
    <3>1. AtLeast0(spare({})) = 0
      BY <1>3 DEF AtLeast0
    <3>2. SumFunctionOnSet(shown, {}) = 0
      BY SumEmpty
    <3> HIDE DEF spare
    <3>3. QED BY <2>2, <3>1, <3>2
  <2>4. PICK a : a \in A
    BY <2>3
  <2>5. PICK B : B = A \ {a}
    OBVIOUS
  <2>6. AtLeast0(spare(B)) <= SumFunctionOnSet(shown, B)
    BY <2>1, <2>4, <2>5
  <2>7. spare(A) = spare({a}) + spare(B)
    BY <2>4, <2>5, SpareSplits
  <2>8. \A x \in A : shown[x] \in Int
    <3>1. ASSUME NEW x \in A PROVE shown[x] \in Int
      <4>1. shown[x] = AtLeast0(spare({x})) /\ spare({x}) \in Int
        BY <1>1, <1>2, <2>2
      <4> HIDE DEF spare
      <4>2. QED BY <4>1 DEF AtLeast0
    <3>2. QED BY <3>1
  <2>9. SumFunctionOnSet(shown, A) = shown[a] + SumFunctionOnSet(shown, B)
    BY <2>2, <2>4, <2>5, <2>8, SumSplit
  <2>10. SumFunctionOnSet(shown, B) \in Int
    <3>1. IsFiniteSet(B) /\ \A x \in B : shown[x] \in Int
      BY <2>2, <2>5, <2>8, FS_Subset
    <3>2. QED BY <3>1, SumInt
  <2>11. shown[a] = AtLeast0(spare({a}))
    BY <1>2, <2>2, <2>4
  <2> HIDE DEF spare
  <2>12. QED BY <1>1, <2>2, <2>6, <2>7, <2>9, <2>10, <2>11 DEF AtLeast0
<1>5. AtLeast0(spare(cs)) <= SumFunctionOnSet(shown, cs)
  BY <1>4
<1>6. AccountView(l, cs, active, cutoff).available = Withdrawable(RowsOf(l, cs), cutoff)
  BY DEF AccountView
<1>7. QED BY <1>1, <1>5, <1>6
\* What the newest of a table are.
LEMMA NewestIs ==
  ASSUME NEW S, IsFiniteSet(S), NEW at, NEW k \in Nat, NEW T \in Newest(S, at, k)
  PROVE  /\ T \subseteq S /\ IsFiniteSet(T) /\ Cardinality(T) \in Nat
         /\ Cardinality(T) <= k
         /\ T # S => Cardinality(T) = k
         /\ \A t \in T, s \in S \ T : at[t] >= at[s]
<1>1. T \subseteq S /\ \A t \in T, s \in S \ T : at[t] >= at[s]
  BY DEF Newest
<1>2. IsFiniteSet(T) /\ Cardinality(T) \in Nat /\ Cardinality(S) \in Nat
  BY <1>1, FS_Subset, FS_CardinalityType
<1>3. IF Cardinality(S) <= k THEN T = S ELSE Cardinality(T) = k
  BY DEF Newest
<1>4. Cardinality(T) <= k /\ (T # S => Cardinality(T) = k)
  BY <1>2, <1>3
<1>5. QED BY <1>1, <1>2, <1>4

\* Taking the newest k of each table before merging loses nothing: the activity feed is
\* the newest k of all contributions and withdrawals, ties included.
THEOREM FeedIsNewest ==
  ASSUME NEW contributions, IsFiniteSet(contributions), NEW withdrawals, IsFiniteSet(withdrawals),
         NEW at, \A r \in contributions \cup withdrawals : at[r] \in Int, NEW k \in Nat,
         NEW feed \in Feed(contributions, withdrawals, at, k)
  PROVE  feed \in Newest(contributions \cup withdrawals, at, k)
<1>1. PICK A \in Newest(contributions, at, k), B \in Newest(withdrawals, at, k) :
        feed \in Newest(A \cup B, at, k)
  BY DEF Feed
<1>2. /\ A \subseteq contributions /\ IsFiniteSet(A) /\ (A # contributions => Cardinality(A) = k)
      /\ \A t \in A, s \in contributions \ A : at[t] >= at[s]
  BY <1>1, NewestIs
<1>3. /\ B \subseteq withdrawals /\ IsFiniteSet(B) /\ (B # withdrawals => Cardinality(B) = k)
      /\ \A t \in B, s \in withdrawals \ B : at[t] >= at[s]
  BY <1>1, NewestIs
<1>4. PICK all : all = contributions \cup withdrawals
  OBVIOUS
<1>5. PICK few : few = A \cup B
  OBVIOUS
<1>6. IsFiniteSet(few) /\ IsFiniteSet(all)
  BY <1>2, <1>3, <1>4, <1>5, FS_Union
<1>7. feed \in Newest(few, at, k)
  BY <1>1, <1>5
<1>8. /\ feed \subseteq few /\ IsFiniteSet(feed) /\ Cardinality(feed) \in Nat /\ Cardinality(feed) <= k
      /\ (feed # few => Cardinality(feed) = k)
      /\ \A t \in feed, s \in few \ feed : at[t] >= at[s]
  BY <1>6, <1>7, NewestIs
<1>9. few \subseteq all
  BY <1>2, <1>3, <1>4, <1>5
\* Where a table was cut, the feed is full; and unless the feed is that cut, some row
\* of the cut did not make it, and everything that did is as new as that row.
<1>10. ASSUME NEW full, full \in {A, B}, Cardinality(full) = k
       PROVE  Cardinality(feed) = k /\ (full \subseteq feed => full = feed)
  <2>1. full \subseteq few /\ IsFiniteSet(full)
    BY <1>2, <1>3, <1>5, <1>10
  <2>2. Cardinality(feed) = k
    <3>1. CASE feed # few BY <1>8, <3>1
    <3>2. CASE feed = few
      <4>1. Cardinality(full) <= Cardinality(few) /\ Cardinality(few) \in Nat
        BY <1>6, <2>1, FS_Subset, FS_CardinalityType
      <4>2. QED BY <1>8, <1>10, <3>2, <4>1
    <3>3. QED BY <3>1, <3>2
  <2>3. full \subseteq feed => full = feed
    <3> SUFFICES ASSUME full \subseteq feed, full # feed PROVE FALSE
      OBVIOUS
    <3>1. full \in SUBSET feed /\ IsFiniteSet(feed)
      BY <1>8
    <3>2. Cardinality(full) = Cardinality(feed)
      BY <1>10, <2>2
    <3>3. full = feed
      BY <3>1, <3>2, FS_Subset
    <3>4. QED BY <3>3
  <2>4. QED BY <2>2, <2>3
<1>11. ASSUME NEW full, full \in {A, B}, Cardinality(full) = k, NEW s \in all, s \notin full,
              \A t \in full : at[t] >= at[s], NEW t \in feed
       PROVE  at[t] >= at[s]
  <2>1. CASE t \in full BY <1>11, <2>1
  <2>2. CASE t \notin full
    <3>1. PICK u \in full : u \notin feed
      BY <1>10, <1>11, <2>2
    <3>2. u \in few \ feed
      BY <1>5, <1>11, <3>1
    <3>3. at[t] >= at[u] /\ at[u] >= at[s]
      BY <1>8, <1>11, <3>1, <3>2
    <3>4. at[t] \in Int /\ at[u] \in Int /\ at[s] \in Int
      BY <1>4, <1>8, <1>9, <1>11, <3>2
    <3>5. QED BY <3>3, <3>4
  <2>3. QED BY <2>1, <2>2
<1>12. ASSUME NEW t \in feed, NEW s \in all \ feed PROVE at[t] >= at[s]
  <2>1. CASE s \in few BY <1>8, <2>1
  <2>2. CASE s \notin few /\ s \in contributions
    <3>1. s \notin A /\ A # contributions BY <1>5, <2>2
    <3>2. QED BY <1>2, <1>11, <2>2, <3>1
  <2>3. CASE s \notin few /\ s \in withdrawals
    <3>1. s \notin B /\ B # withdrawals BY <1>5, <2>3
    <3>2. QED BY <1>3, <1>11, <2>3, <3>1
  <2>4. QED BY <1>4, <2>1, <2>2, <2>3
<1>13. IF Cardinality(all) <= k THEN feed = all ELSE Cardinality(feed) = k
  <2>1. CASE few = all
    <3>1. IF Cardinality(few) <= k THEN feed = few ELSE Cardinality(feed) = k
      BY <1>7 DEF Newest
    <3>2. QED BY <2>1, <3>1
  <2>2. CASE few # all
    <3>1. A # contributions \/ B # withdrawals
      BY <1>4, <1>5, <2>2
    <3>2. Cardinality(feed) = k
      BY <1>2, <1>3, <1>10, <3>1
    <3>3. Cardinality(feed) < Cardinality(all) /\ Cardinality(all) \in Nat
      <4>1. feed \subseteq all /\ feed # all
        BY <1>8, <1>9, <2>2
      <4>2. QED BY <1>6, <4>1, FS_Subset, FS_CardinalityType
    <3>4. QED BY <3>2, <3>3
  <2>3. QED BY <2>1, <2>2
<1>14. feed \in Newest(all, at, k)
  BY <1>8, <1>9, <1>12, <1>13 DEF Newest
<1>15. QED BY <1>4, <1>14

-----------------------------------------------------------------------------
\* The ledger a report would read in a state of the system, at a moment whose last
\* cutoff is 0.
LedgerNow ==
  [paid |-> paid, requests |-> {w \in Rows : status[w] # "none"}, net |-> Net, gross |-> Net,
   created |-> [p \in Payments |-> {IF p \in settled THEN 0 - 1 ELSE 0}],
   amount |-> amount, status |-> status, home |-> [p \in Payments \cup Rows |-> 0]]

LEMMA LedgerNowIs ==
  ASSUME Tables
  PROVE  /\ SoundRows(LedgerNow)
         /\ SumFunctionOnSet(LedgerNow.net, LedgerNow.paid) = NetOf(paid)
         /\ Unsettled(LedgerNow, 0) = paid \ settled
         /\ Requested(LedgerNow, PaidOut) = Sum(Completed)
         /\ Requested(LedgerNow, InFlight) = Sum(Pending)
<1> PICK l : l = LedgerNow
  OBVIOUS
<1>1. /\ l.paid = paid /\ l.requests = {w \in Rows : status[w] # "none"} /\ l.net = Net /\ l.gross = Net
      /\ l.created = [p \in Payments |-> {IF p \in settled THEN 0 - 1 ELSE 0}]
      /\ l.amount = amount /\ l.status = status
      /\ {"paid", "requests", "net", "gross", "created", "amount", "status", "home"} \subseteq DOMAIN l
  BY DEF LedgerNow
<1>2. /\ paid \subseteq Payments /\ settled \subseteq paid
      /\ status \in [Rows -> Statuses] /\ amount \in [Rows -> Nat]
  BY DEF Tables
<1>3. IsFiniteSet(l.paid) /\ IsFiniteSet(l.requests)
  <2>1. l.paid \subseteq Payments /\ l.requests \subseteq Rows
    BY <1>1, <1>2
  <2>2. QED BY <2>1, FS_Subset, WithdrawalsAssumption
<1>4. SoundRows(l)
  BY <1>1, <1>2, <1>3, WithdrawalsAssumption DEF SoundRows
<1>5. Unsettled(l, 0) = paid \ settled
  <2>1. ASSUME NEW p \in paid PROVE (\E t \in l.created[p] : t >= 0) <=> p \notin settled
    <3>1. l.created[p] = {IF p \in settled THEN 0 - 1 ELSE 0}
      BY <1>1, <1>2
    <3>2. QED BY <3>1
  <2>2. Unsettled(l, 0) = {p \in paid : p \notin settled}
    BY <1>1, <2>1 DEF Unsettled
  <2>3. QED BY <2>2
<1>6. /\ {w \in l.requests : l.status[w] \in PaidOut} = Completed
      /\ {w \in l.requests : l.status[w] \in InFlight} = Pending
  BY <1>1, <1>2 DEF PaidOut, InFlight, Completed, Pending, Statuses
<1>7. QED BY <1>1, <1>4, <1>5, <1>6 DEF Requested, Sum, NetOf

\* Whatever is paid, requested, approved, rejected and settled: the figure the host
\* and the admin are shown as withdrawable is the cap a request read at this moment
\* would be held to.
THEOREM ShownIsTheCap == Spec => [](Withdrawable(LedgerNow, 0) = Floor0(Available - Sum(Pending)))
<1>1. ASSUME Tables, Balances
      PROVE  Withdrawable(LedgerNow, 0) = Floor0(Available - Sum(Pending))
  <2>1. /\ SoundRows(LedgerNow) /\ Unsettled(LedgerNow, 0) = paid \ settled
        /\ SumFunctionOnSet(LedgerNow.net, LedgerNow.paid) = NetOf(paid)
        /\ Requested(LedgerNow, PaidOut) = Sum(Completed) /\ Requested(LedgerNow, InFlight) = Sum(Pending)
    BY <1>1, LedgerNowIs
  <2>2. NetOf(paid) = NetOf(settled) + NetOf(paid \ settled)
    <3> PICK S : S = settled
      OBVIOUS
    <3> PICK R : R = paid \ settled
      OBVIOUS
    <3>1. S = settled /\ R = paid \ settled /\ S \cup R = paid /\ S \cap R = {}
      BY <1>1 DEF Tables
    <3>2. IsFiniteSet(S) /\ IsFiniteSet(R) /\ \A p \in S \cup R : Net[p] \in Int
      <4>1. S \subseteq Payments /\ R \subseteq Payments
        BY <1>1, <3>1 DEF Tables
      <4>2. QED BY <4>1, FS_Subset, WithdrawalsAssumption
    <3>3. SumFunctionOnSet(Net, S \cup R) = SumFunctionOnSet(Net, S) + SumFunctionOnSet(Net, R)
      BY <3>1, <3>2, SumDisjoint
    <3>4. QED BY <3>1, <3>3 DEF NetOf
  <2>3. paid \cap settled = settled
    BY <1>1 DEF Tables
  <2>4. /\ NetOf(settled) \in Int /\ NetOf(paid \ settled) \in Int
        /\ Sum(Completed) \in Nat /\ Sum(Pending) \in Nat
    <3>1. settled \in SUBSET Payments /\ (paid \ settled) \in SUBSET Payments
      BY <1>1 DEF Tables
    <3>2. NetOf(settled) \in Nat /\ NetOf(paid \ settled) \in Nat
      BY <3>1, NetIsNat
    <3>3. QED BY <2>1, <3>2, RequestedIsNat
  <2>5. Withdrawable(LedgerNow, 0) = AtLeast0(Spare(LedgerNow, 0))
    BY <2>1, WithdrawableIsSpare
  <2>6. Spare(LedgerNow, 0) = NetOf(paid) - NetOf(paid \ settled) - Sum(Completed) - Sum(Pending)
    BY <2>1 DEF Spare, NetOf, LedgerNow
  <2>7. Available = Floor0(NetOf(settled) - Sum(Completed))
    BY <2>3 DEF Available, AvailableOf, NetUnder, NetOf
  <2>8. QED BY <2>2, <2>4, <2>5, <2>6, <2>7 DEF AtLeast0, Floor0
<1>2. Books => Withdrawable(LedgerNow, 0) = Floor0(Available - Sum(Pending))
  BY <1>1, Sums DEF Books
<1>3. QED BY <1>2, AlwaysBooks, PTL

\* As long as no request slipped through a window and no query failed, the
\* reconciliation has nothing to say of the figures of this collection.
THEOREM NothingToReport ==
  Spec => []({"race", "misread"} \cap slips = {} => FigureIssues(WalletBalances(LedgerNow, 0)) = {})
<1>1. ASSUME Books, Clean PROVE FigureIssues(WalletBalances(LedgerNow, 0)) = {}
  <2>1. Tables BY <1>1 DEF Books
  <2>2. Sum(Pending \cup Completed) <= NetOf(settled)
    BY <1>1 DEF Books, Covered
  <2>3. Sum(Completed) <= Sum(Pending \cup Completed) /\ Sum(Completed) \in Nat /\ Sum(Pending \cup Completed) \in Nat
    <3>1. PICK both : both = Pending \cup Completed /\ Completed \subseteq both /\ both \in SUBSET Rows
      BY DEF Pending, Completed
    <3>2. amount \in [Rows -> Nat] /\ Completed \in SUBSET Rows
      BY <2>1 DEF Tables, Completed
    <3>3. SumFunctionOnSet(amount, Completed) <= SumFunctionOnSet(amount, both)
          /\ SumFunctionOnSet(amount, both) \in Nat /\ SumFunctionOnSet(amount, Completed) \in Nat
      BY <3>1, <3>2, SumsIn
    <3>4. QED BY <3>1, <3>3 DEF Sum
  <2>4. NetOf(settled) <= NetOf(paid) /\ NetOf(settled) \in Nat /\ NetOf(paid) \in Nat
    <3>1. settled \in SUBSET paid /\ paid \in SUBSET Payments /\ settled \in SUBSET Payments
      BY <2>1 DEF Tables
    <3>2. QED BY <3>1, NetIsNat
  <2>5. Sum(Completed) <= NetOf(paid)
    BY <2>2, <2>3, <2>4
  <2>6. QED BY <2>1, <2>5, LedgerNowIs, OnlyOverdraftShows
<1>2. Books => ({"race", "misread"} \cap slips = {} => FigureIssues(WalletBalances(LedgerNow, 0)) = {})
  BY <1>1 DEF Clean
<1>3. QED BY <1>2, AlwaysBooks, PTL
=============================================================================
