--------------------------- MODULE PaymentClaimTx ---------------------------
(***************************************************************************)
(* claim_payment_contributions statement by statement: several sessions    *)
(* run it at once, each in its own transaction, held apart only by the     *)
(* locks Postgres takes for it.  SELECT .. FOR UPDATE holds the collection *)
(* row, the counter upsert holds that prefix's counter row, and a row      *)
(* inserted but not committed holds its key in the unique index.  Nothing  *)
(* a transaction wrote is visible before it commits.                       *)
(*                                                                         *)
(* The module shows that these locks are enough: TxSpec implements the     *)
(* one-step claims of PaymentClaim.                                        *)
(***************************************************************************)
EXTENDS PaymentClaim

CONSTANTS
  Sessions,   \* database sessions that may run the RPC at the same time
  MaxAborts   \* bound on transactions lost to an error or a dead connection

VARIABLES
  tx,         \* the transaction each session is in
  aborts

txVars == <<vars, tx, aborts>>

NoTx == [at |-> "idle"]

TxInit ==
  /\ Init
  /\ tx = [s \in Sessions |-> NoTx]
  /\ aborts = 0

InTx(s) == tx[s].at \notin {"idle", "waiting"}
LockFree == \A s \in Sessions : ~InTx(s)

\* Uncommitted effects of a transaction.
Bumped(s, p) ==
  IF tx[s].at \in {"minting", "inserting"}
  THEN Cardinality({i \in DOMAIN tx[s].codes : Rows[tx[s].ref][i].prefix = p})
  ELSE 0

\* Mutant: the counter is read and written back in two statements.
CounterRowUnlocked(p) == TRUE

CounterRowFree(p) == \A s \in Sessions : Bumped(s, p) = 0

HoldsCode(s, p, n) ==
  /\ tx[s].at \in {"minting", "inserting"}
  /\ \E i \in 1..(tx[s].line - 1) :
       Rows[tx[s].ref][i].prefix = p /\ tx[s].codes[i] = n

Move(s, t) == tx' = [tx EXCEPT ![s] = t]
Leave(s) == Move(s, NoTx)

-----------------------------------------------------------------------------
Begin(s, ref) ==
  /\ tx[s].at = "idle"
  /\ Move(s, [at |-> "waiting", ref |-> ref])
  /\ UNCHANGED <<vars, aborts>>

\* SELECT price_tiers, max_contributions .. FOR UPDATE.
LockCollection(s) ==
  /\ tx[s].at = "waiting"
  /\ LockFree
  /\ Move(s, [at |-> "locked", ref |-> tx[s].ref,
              cap |-> maxContributions, tiers |-> quantity])
  /\ UNCHANGED <<vars, aborts>>

\* Mutant: the client opened the transaction and does not close it.
ReturnInTransaction(s, outcome) ==
  /\ reply' = [reply EXCEPT ![tx[s].ref] = outcome]
  /\ UNCHANGED <<contributions, code, counters, maxContributions, quantity,
                 backfill, tx, aborts>>

\* The reply leaves with the end of the transaction.
Return(s, outcome) ==
  /\ reply' = [reply EXCEPT ![tx[s].ref] = outcome]
  /\ Leave(s)
  /\ UNCHANGED <<contributions, code, counters, maxContributions, quantity,
                 backfill, aborts>>

FindExisting(s) ==
  /\ tx[s].at = "locked"
  /\ IF Recorded(tx[s].ref)
     THEN Return(s, "idempotent")
     ELSE /\ Move(s, [tx[s] EXCEPT !.at = "new"])
          /\ UNCHANGED <<vars, aborts>>

\* Both capacity checks use the values read with the lock.
OverCap(s) ==
  /\ tx[s].cap > 0
  /\ Cardinality(contributions) + Len(Rows[tx[s].ref]) > tx[s].cap

OverTier(s) ==
  \E t \in Tiers, by \in {"id", "name"} :
    /\ Claims(tx[s].ref, t, by) > 0
    /\ tx[s].tiers[t] # Unlimited
    /\ Sold(contributions, t, by) + Claims(tx[s].ref, t, by) > tx[s].tiers[t]

CheckCapacity(s) ==
  /\ tx[s].at = "new"
  /\ CASE OverCap(s) -> Return(s, "collection_full")
       [] ~OverCap(s) /\ OverTier(s) -> Return(s, "tier_full")
       [] OTHER -> /\ Move(s, [at |-> "minting", ref |-> tx[s].ref, line |-> 1,
                               codes |-> << >>])
                   /\ UNCHANGED <<vars, aborts>>

\* The counter upsert of one row; a row without a prefix has no code.
MintRow(s) ==
  LET p == Rows[tx[s].ref][tx[s].line].prefix IN
  /\ tx[s].at = "minting"
  /\ tx[s].line <= Len(Rows[tx[s].ref])
  /\ Move(s, [tx[s] EXCEPT !.at = "inserting",
                !.codes = Append(@, IF p = NoPrefix THEN 0
                                    ELSE LPad(counters[p] + Bumped(s, p) + 1))])
  /\ UNCHANGED <<vars, aborts>>

\* The INSERT of that row, or the handler of its unique_violation.
InsertRow(s) ==
  LET p == Rows[tx[s].ref][tx[s].line].prefix
      n == tx[s].codes[tx[s].line]
  IN
  /\ tx[s].at = "inserting"
  /\ IF n # 0 /\ (SameCode(p, n) # {} \/ HoldsCode(s, p, n))
     THEN Return(s, "idempotent")
     ELSE /\ Move(s, [tx[s] EXCEPT !.at = "minting", !.line = @ + 1])
          /\ UNCHANGED <<vars, aborts>>

Commit(s) ==
  LET ref == tx[s].ref IN
  /\ tx[s].at = "minting"
  /\ tx[s].line > Len(Rows[ref])
  /\ contributions' = contributions \cup Lines(ref)
  /\ code' = [id \in RowIds |->
                IF id[1] = ref THEN tx[s].codes[id[2]] ELSE code[id]]
  /\ counters' = [p \in Prefixes |-> counters[p] + Bumped(s, p)]
  /\ reply' = [reply EXCEPT ![ref] = "inserted"]
  /\ Leave(s)
  /\ UNCHANGED <<maxContributions, quantity, backfill, aborts>>

\* Any other exception, or the connection lost before the commit.
Abort(s) ==
  /\ tx[s].at # "idle"
  /\ aborts < MaxAborts
  /\ aborts' = aborts + 1
  /\ Leave(s)
  /\ UNCHANGED vars

Step(s) == FindExisting(s) \/ CheckCapacity(s) \/ MintRow(s) \/ InsertRow(s)
           \/ Commit(s)

\* The UPDATE of the organizer's edit waits for the collection row.
TxEdit(cap, q) ==
  /\ LockFree
  /\ EditCollection(cap, q)
  /\ UNCHANGED <<tx, aborts>>

\* The script's statements wait for the rows they touch.
TxBackfill ==
  /\ \/ BackfillScan
     \/ \E id \in RowIds :
          \/ CounterRowFree(RowOf(id).prefix) /\ BackfillMint(id)
          \/ BackfillMintLocally(id)
          \/ BackfillSkip(id)
     \/ BackfillStop
     \/ /\ backfill.stage = "minted"
        /\ \A s \in Sessions :
             ~HoldsCode(s, RowOf(backfill.row).prefix, backfill.number)
        /\ BackfillAssign
  /\ UNCHANGED <<tx, aborts>>

TxNext ==
  \/ \E s \in Sessions :
       \/ \E ref \in References : Begin(s, ref)
       \/ LockCollection(s)
       \/ FindExisting(s)
       \/ CheckCapacity(s)
       \/ MintRow(s)
       \/ InsertRow(s)
       \/ Commit(s)
       \/ Abort(s)
  \/ \E cap \in CapChoices, q \in [Tiers -> QuantityChoices] : TxEdit(cap, q)
  \/ TxBackfill

\* Postgres queues the waiters of a row lock; references are retried.
TxFairness ==
  /\ \A s \in Sessions : WF_txVars(Step(s)) /\ SF_txVars(LockCollection(s))
  /\ \A ref \in References : SF_txVars(\E s \in Sessions : Begin(s, ref))

TxSpec == TxInit /\ [][TxNext]_txVars
TxFairSpec == TxSpec /\ TxFairness

-----------------------------------------------------------------------------
\* Properties.

Txs ==
  {NoTx}
    \cup [at : {"waiting"}, ref : References]
    \cup [at : {"locked", "new"}, ref : References, cap : CapChoices,
          tiers : [Tiers -> QuantityChoices]]
    \cup [at : {"minting", "inserting"}, ref : References, line : Nat \ {0},
          codes : Seq(Nat)]

TxTypeOK ==
  /\ TypeOK
  /\ tx \in [Sessions -> Txs]
  /\ aborts \in 0..MaxAborts

\* Sessions that interleave statement by statement behave, for everything
\* committed and every reply, as claims that happen in one step each.
ImplementsPaymentClaim == Spec
=============================================================================
