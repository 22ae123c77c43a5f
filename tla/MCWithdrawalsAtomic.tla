------------------------- MODULE MCWithdrawalsAtomic -------------------------
(* Two payments, one of which is taken for more when the collection was not  *)
(* read, and two requests that fit one after the other.                      *)
EXTENDS WithdrawalsAtomic, TLC

MCPayments == {"p", "q"}
MCNet == ("p" :> 2) @@ ("q" :> 1)
MCNetByDefault == ("p" :> 3) @@ ("q" :> 1)
MCAmounts == {1, 2}
MCSymmetry == Permutations(Rows) \cup Permutations(Sessions)
=============================================================================
