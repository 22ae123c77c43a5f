----------------------------- MODULE Withdrawals -----------------------------
(***************************************************************************)
(* Money leaving one collection: controllers/withdrawal.js, with the       *)
(* settlement job of database/settlement_recompute.sql.                    *)
(*                                                                         *)
(* The HTTP handlers run concurrently and hold no lock: a handler is a     *)
(* sequence of Supabase calls, one action each, and anything may happen    *)
(* between two of them.  A session is one handler in flight.  Nothing here *)
(* is a transaction except a single statement; the settlement job is one.  *)
(***************************************************************************)
EXTENDS Integers, FiniteSets, Functions

CONSTANTS
  Payments,      \* payments the collection may receive
  Net,           \* Net[p]: what the organizer gets of p, fees taken off
  NetByDefault,  \* the same for a fixed collection whose organizer bears them
  Rows,          \* withdrawal rows that may be inserted
  Amounts,       \* amounts an organizer asks for
  Sessions,      \* handlers in flight at the same time
  QueriesMayFail \* a call may return an error the code does not look at

ASSUME WithdrawalsAssumption ==
  /\ IsFiniteSet(Payments) /\ Net \in [Payments -> Nat \ {0}]
  /\ NetByDefault \in [Payments -> Nat]
  /\ IsFiniteSet(Rows)
  /\ Amounts \subseteq Nat \ {0}
  /\ QueriesMayFail \in BOOLEAN

VARIABLES
  paid,       \* payments with a 'paid' contribution
  settled,    \* those received before the last 04:00 UTC cutoff
  status,     \* withdrawals.status; "none" while the row does not exist
  amount,     \* withdrawals.amount
  wallet,     \* wallets.available_balance as stored
  work,       \* where each session's handler stands
  payouts,    \* history: approvals that were answered with success
  slips       \* history: "race" when a step made the check of a request in
              \* flight out of date, "misread" when an error was read as an
              \* answer that is too good, "stale" when an approval may be
              \* missing in the stored balance for good

vars == <<paid, settled, status, amount, wallet, work, payouts, slips>>
tables == <<paid, settled, status, amount>>
history == <<payouts, slips>>

Idle == [at |-> "idle"]
Statuses == {"none", "pending", "approved", "rejected"}

-----------------------------------------------------------------------------
\* The balance arithmetic of utils/fpe/projections.js.

NetOf(ps) == SumFunctionOnSet(Net, ps)
Sum(ws) == SumFunctionOnSet(amount, ws)

Floor0(n) == IF n < 0 THEN 0 ELSE n

\* Mutant: a status list that lacks 'approved'.
CompletedElsewhere == {w \in Rows : status[w] \in {"completed", "success"}}

Completed == {w \in Rows : status[w] = "approved"}

Pending == {w \in Rows : status[w] = "pending"}

\* normalizeContributions: with the collection's own bearer and type, or without.
NetUnder(settings, ps) ==
  SumFunctionOnSet(IF settings = "own" THEN Net ELSE NetByDefault, ps)

\* available_balance of a set of paid contributions and a completed total.
AvailableOf(settings, ps, out) == Floor0(NetUnder(settings, ps \cap settled) - out)
Available == AvailableOf("own", paid, Sum(Completed))

-----------------------------------------------------------------------------
Init ==
  /\ paid = {} /\ settled = {}
  /\ status = [w \in Rows |-> "none"]
  /\ amount = [w \in Rows |-> 0]
  /\ wallet = 0
  /\ work = [s \in Sessions |-> Idle]
  /\ payouts = [w \in Rows |-> 0] /\ slips = {}

Goto(s, step) == work' = [work EXCEPT ![s] = step]
Slip(kind, when) == slips' = IF when THEN slips \cup {kind} ELSE slips

\* What the code takes for the answer of a query whose error it ignores.
Outcomes(answer, onError) == {answer} \cup (IF QueriesMayFail THEN {onError} ELSE {})

\* A refresh for a job; one that has read the withdrawals and has not stored what
\* it computes; the rows approved whose handler is not that far.
Refreshing(step, job) == step.at \in {"reading", "computed"} /\ step.task.job = job
Unwritten(step) ==
  step.at = "computed" \/ (step.at = "reading" /\ "withdrawals" \notin step.todo)
Landing ==
  {w \in Rows : \E s \in Sessions : Refreshing(work[s], "approve") /\ work[s].task.row = w}

\* Requests between their cap check and their INSERT, and requests between
\* their read of the withdrawals and their cap check.
Checked == {s \in Sessions : work[s].at = "inserting"}
Unchecked ==
  {s \in Sessions : \/ work[s].at = "summing"
                    \/ (Refreshing(work[s], "request") /\ Unwritten(work[s]))}

\* Verification records a payment.
Pay(p) ==
  /\ p \notin paid
  /\ paid' = paid \cup {p}
  /\ UNCHANGED <<settled, status, amount, wallet, work, history>>

\* 04:00 UTC passes: everything received so far is older than the cutoff.
Cutoff ==
  /\ settled # paid
  /\ settled' = paid
  /\ UNCHANGED <<paid, status, amount, wallet, work, history>>

\* settlement_recompute_wallets(): one statement, run by pg_cron or by hand.
Settle ==
  /\ wallet' = Available
  /\ UNCHANGED <<tables, work, history>>

-----------------------------------------------------------------------------
\* refreshWallet: three reads in any order, the projection, one write.

Reads == {"collection", "contributions", "withdrawals"}

Refresh(task) ==
  [at |-> "reading", task |-> task, todo |-> Reads, settings |-> "own", paid |-> {}, out |-> 0]

\* The next step after a read; the projection is computed after the last one.
AfterRead(s, step) ==
  IF step.todo # {} THEN Goto(s, step)
  ELSE Goto(s, [at |-> "computed", task |-> step.task,
                available |-> AvailableOf(step.settings, step.paid, step.out)])

\* Without the collection the fees are the organizer's and those of the type
\* fixed, which counts some payments for more than they are worth.
DefaultOverstates == \E p \in Payments : NetByDefault[p] > Net[p]

ReadCollection(s) ==
  /\ work[s].at = "reading" /\ "collection" \in work[s].todo
  /\ \E settings \in Outcomes("own", "default") :
       /\ AfterRead(s, [work[s] EXCEPT !.todo = @ \ {"collection"}, !.settings = settings])
       /\ Slip("misread", settings = "default" /\ DefaultOverstates)
  /\ UNCHANGED <<tables, wallet, payouts>>

ReadContributions(s) ==
  /\ work[s].at = "reading" /\ "contributions" \in work[s].todo
  /\ \E ps \in Outcomes(paid, {}) :
       AfterRead(s, [work[s] EXCEPT !.todo = @ \ {"contributions"}, !.paid = ps])
  /\ UNCHANGED <<tables, wallet, history>>

ReadWithdrawals(s) ==
  /\ work[s].at = "reading" /\ "withdrawals" \in work[s].todo
  /\ \E ws \in Outcomes(Completed, {}) :
       /\ AfterRead(s, [work[s] EXCEPT !.todo = @ \ {"withdrawals"}, !.out = Sum(ws)])
       /\ Slip("misread", ws # Completed)
  /\ UNCHANGED <<tables, wallet, payouts>>

\* The write of the projection, which may fail unnoticed; the handler goes on with
\* what it computed, a request to its cap check.
WriteWallet(s) ==
  /\ work[s].at = "computed"
  /\ wallet' \in Outcomes(work[s].available, wallet)
  /\ Slip("stale", Refreshing(work[s], "approve") /\ wallet' # work[s].available)
  /\ Goto(s, IF work[s].task.job = "request"
             THEN [at |-> "summing", amount |-> work[s].task.amount,
                   available |-> work[s].available]
             ELSE Idle)
  /\ UNCHANGED <<tables, payouts>>

-----------------------------------------------------------------------------
\* requestWithdrawal.

Request(s, a) ==
  /\ work[s] = Idle
  /\ Goto(s, Refresh([job |-> "request", amount |-> a]))
  /\ UNCHANGED <<tables, wallet, history>>

\* Mutant: the cap ignores the requests that are still open.
CheckBalance(s) ==
  /\ work[s].at = "summing"
  /\ Goto(s, IF work[s].amount > work[s].available THEN Idle
             ELSE [at |-> "inserting", amount |-> work[s].amount])
  /\ UNCHANGED <<tables, wallet, history>>

\* sumPendingWithdrawals answers 0 on an error; then the cap decides.
CheckCap(s) ==
  /\ work[s].at = "summing"
  /\ \E pending \in Outcomes(Sum(Pending), 0) :
       /\ Goto(s, IF work[s].amount > Floor0(work[s].available - pending)
                  THEN Idle                    \* 400, insufficient balance
                  ELSE [at |-> "inserting", amount |-> work[s].amount])
       /\ Slip("misread", pending # Sum(Pending))
  /\ UNCHANGED <<tables, wallet, payouts>>

\* Then the snapshot for the response refreshes the wallet once more.
InsertRow(s, w) ==
  /\ work[s].at = "inserting"
  /\ status[w] = "none"
  /\ status' = [status EXCEPT ![w] = "pending"]
  /\ amount' = [amount EXCEPT ![w] = work[s].amount]
  /\ Goto(s, Refresh([job |-> "confirm"]))
  /\ Slip("race", Checked # {s})
  /\ UNCHANGED <<paid, settled, wallet, payouts>>

-----------------------------------------------------------------------------
\* approveWithdrawal and rejectWithdrawal.

ApproveRead(s, w) ==
  /\ work[s] = Idle
  /\ status[w] = "pending"
  /\ Goto(s, [at |-> "approving", row |-> w])
  /\ UNCHANGED <<tables, wallet, history>>

\* Mutant: the UPDATE lacks .in("status", ["pending", "processing"]).
ApproveBlindly(s) ==
  LET w == work[s].row IN
  /\ work[s].at = "approving"
  /\ status' = [status EXCEPT ![w] = "approved"]
  /\ payouts' = [payouts EXCEPT ![w] = @ + 1]
  /\ Goto(s, Refresh([job |-> "approve", row |-> w]))
  /\ UNCHANGED <<paid, settled, amount, wallet, slips>>

\* Mutant: the approval leaves the wallet to the settlement job.
ApproveWithoutRefresh(s) ==
  LET w == work[s].row IN
  /\ work[s].at = "approving" /\ status[w] = "pending"
  /\ status' = [status EXCEPT ![w] = "approved"]
  /\ payouts' = [payouts EXCEPT ![w] = @ + 1]
  /\ Goto(s, Idle)
  /\ UNCHANGED <<paid, settled, amount, wallet, slips>>

\* UPDATE .. WHERE status IN ('pending', 'processing'), else 409.  Whoever has read
\* the withdrawals before it will store a balance, or check one, without it.
ApproveUpdate(s) ==
  LET w == work[s].row IN
  /\ work[s].at = "approving"
  /\ IF status[w] = "pending"
     THEN /\ status' = [status EXCEPT ![w] = "approved"]
          /\ payouts' = [payouts EXCEPT ![w] = @ + 1]
          /\ slips' = slips \cup {kind \in {"race"} : Unchecked # {}}
                           \cup {kind \in {"stale"} : \E t \in Sessions : Unwritten(work[t])}
          /\ Goto(s, Refresh([job |-> "approve", row |-> w]))
     ELSE Goto(s, Idle) /\ UNCHANGED <<status, payouts, slips>>
  /\ UNCHANGED <<paid, settled, amount, wallet>>

RejectRead(s, w) ==
  /\ work[s] = Idle
  /\ status[w] \notin {"none", "rejected"}
  /\ Goto(s, [at |-> "rejecting", row |-> w])
  /\ UNCHANGED <<tables, wallet, history>>

\* The UPDATE names the row only, and nothing refreshes the wallet.  If it fails,
\* unnoticed, nothing happened: that is Die.
RejectUpdate(s) ==
  /\ work[s].at = "rejecting"
  /\ status' = [status EXCEPT ![work[s].row] = "rejected"]
  /\ Goto(s, Idle)
  /\ UNCHANGED <<paid, settled, amount, wallet, history>>

\* A call throws, times out, or the server restarts: the handler is gone.
Die(s) ==
  /\ work[s] # Idle
  /\ Goto(s, Idle)
  /\ Slip("stale", Refreshing(work[s], "approve"))
  /\ UNCHANGED <<tables, wallet, payouts>>

-----------------------------------------------------------------------------
RefreshStep(s) ==
  ReadCollection(s) \/ ReadContributions(s) \/ ReadWithdrawals(s) \/ WriteWallet(s)

AdminStep(s) ==
  \/ \E w \in Rows : ApproveRead(s, w) \/ RejectRead(s, w)
  \/ ApproveUpdate(s)
  \/ RejectUpdate(s)

RequestStep(s) ==
  \/ \E a \in Amounts : Request(s, a)
  \/ CheckCap(s)
  \/ \E w \in Rows : InsertRow(s, w)

Next ==
  \/ \E p \in Payments : Pay(p)
  \/ Cutoff
  \/ Settle
  \/ \E s \in Sessions : RefreshStep(s) \/ AdminStep(s) \/ RequestStep(s) \/ Die(s)

Spec == Init /\ [][Next]_vars

-----------------------------------------------------------------------------
\* Properties.

Tasks == [job : {"request"}, amount : Amounts] \cup [job : {"confirm"}]
           \cup [job : {"approve"}, row : Rows]

Steps ==
  {Idle}
    \cup [at : {"reading"}, task : Tasks,
          todo : (SUBSET Reads) \ {{}}, settings : {"own", "default"},
          paid : SUBSET Payments, out : Nat]
    \cup [at : {"computed"}, task : Tasks, available : Nat]
    \cup [at : {"summing"}, amount : Amounts, available : Nat]
    \cup [at : {"inserting"}, amount : Amounts]
    \cup [at : {"approving", "rejecting"}, row : Rows]

\* The shape of the tables and of a handler's locals.
TypeOK ==
  /\ settled \subseteq paid /\ paid \subseteq Payments
  /\ status \in [Rows -> Statuses]
  /\ amount \in [Rows -> Nat]
  /\ wallet \in Nat
  /\ work \in [Sessions -> Steps]
  /\ payouts \in [Rows -> Nat] /\ slips \subseteq {"race", "misread", "stale"}

\* A withdrawal is approved, and its payout made, at most once, however many
\* admins press the button and whatever is rejected meanwhile: "the status
\* predicate prevents two admins from approving the same request at once".
PaidOutOnce == \A w \in Rows : payouts[w] <= 1

\* Requests still open and withdrawals approved never exceed what settled:
\* what the comment over requestWithdrawal's check calls atomic.
WithinSettled == Sum(Pending \cup Completed) <= NetOf(settled)

\* Two windows are all that overlapping handlers break it through: a request
\* inserted while another stands between its cap check and its insert, and an
\* approval while a request has read the withdrawals and not yet summed the
\* open ones.  Beside them it takes a query whose error was read as something
\* better than the answer.  Rejections, refreshes, settlements, payments, handlers
\* that die anywhere in between and balances stored too late are harmless.
WithinSettledUnlessSlipped == {"race", "misread"} \cap slips = {} => WithinSettled

\* The balance an approval is about to store, and has in its response, no
\* longer holds the amount approved, whatever ran in between, unless a query
\* failed and its error was read as no withdrawals, or as fees of a collection
\* that charges less.
ApprovalDeducted ==
  "misread" \notin slips => \A s \in Sessions :
    work[s].at = "computed" /\ work[s].task.job = "approve" =>
      LET w == work[s].task.row IN
      status[w] = "approved" =>
        work[s].available <= Floor0(NetOf(settled) - amount[w])

\* The stored balance, which the dashboards and request_withdrawal_atomic() read,
\* never holds money that an approval took out, the approvals apart whose handler
\* is still on its way to store it: "Recompute all balances from source of truth".
\* A late refresh does not bring the money back, unless it had read the withdrawals
\* when the approval landed; other than that it takes an approval whose handler
\* ends without its write, or an error read as an answer.
StoredIsCovered ==
  {"misread", "stale"} \cap slips = {} =>
    wallet <= Floor0(NetOf(settled) - Sum(Completed \ Landing))

\* A completed withdrawal stays completed: projections.js counts them as
\* "Completed withdrawals (irreversible)".
CompletedIsIrreversible ==
  [][\A w \in Rows : status[w] = "approved" => status'[w] = "approved"]_vars
=============================================================================
