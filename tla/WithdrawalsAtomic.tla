-------------------------- MODULE WithdrawalsAtomic --------------------------
(***************************************************************************)
(* Withdrawals with the request replaced by request_withdrawal_atomic() of *)
(* database/g2_atomic_withdrawal_request.sql, as that file's controller    *)
(* integration describes: one transaction holds the wallet row, reads the  *)
(* stored balance and the open requests, and inserts.  Approvals and       *)
(* rejections are those of controllers/withdrawal.js; an UPDATE of the     *)
(* wallet row waits for the transaction.                                   *)
(***************************************************************************)
EXTENDS Withdrawals

InRpc(s) == work[s].at \in {"rpcLocked", "rpcSummed"}

\* Mutant: the SELECT of the wallet lacks FOR UPDATE.
WalletNeverLocked == TRUE

WalletUnlocked == \A s \in Sessions : ~InRpc(s)

\* SELECT available_balance .. FOR UPDATE.
RpcLock(s, a) ==
  /\ work[s] = Idle
  /\ WalletUnlocked
  /\ Goto(s, [at |-> "rpcLocked", amount |-> a, available |-> wallet])
  /\ UNCHANGED <<tables, wallet, history>>

RpcSum(s) ==
  /\ work[s].at = "rpcLocked"
  /\ Goto(s, IF work[s].amount > work[s].available - Sum(Pending)
             THEN Idle                    \* INSUFFICIENT_WITHDRAWABLE
             ELSE [at |-> "rpcSummed", amount |-> work[s].amount])
  /\ Slip("race", work[s].available > Available)
  /\ UNCHANGED <<tables, wallet, payouts>>

\* The INSERT and the commit; the handler refreshes for its response.
RpcInsert(s, w) ==
  /\ work[s].at = "rpcSummed"
  /\ status[w] = "none"
  /\ status' = [status EXCEPT ![w] = "pending"]
  /\ amount' = [amount EXCEPT ![w] = work[s].amount]
  /\ Goto(s, Refresh([job |-> "confirm"]))
  /\ UNCHANGED <<paid, settled, wallet, history>>

AtomicNext ==
  \/ \E p \in Payments : Pay(p)
  \/ Cutoff
  \/ WalletUnlocked /\ Settle
  \/ \E s \in Sessions :
       \/ \E a \in Amounts : RpcLock(s, a)
       \/ RpcSum(s)
       \/ \E w \in Rows : RpcInsert(s, w)
       \/ ReadCollection(s)
       \/ ReadContributions(s)
       \/ ReadWithdrawals(s)
       \/ WalletUnlocked /\ WriteWallet(s)
       \/ AdminStep(s)
       \/ Die(s)

AtomicSpec == Init /\ [][AtomicNext]_vars

=============================================================================
