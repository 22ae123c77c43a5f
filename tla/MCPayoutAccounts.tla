-------------------------- MODULE MCPayoutAccounts --------------------------
EXTENDS PayoutAccounts, TLC

CONSTANTS s1, s2

HandlerSet == {s1, s2}
Symmetric == Permutations(HandlerSet)

\* Two of the three accounts look alike in clear.
Tails == [n \in 1..3 |-> IF n = 3 THEN "other" ELSE "same"]
=============================================================================
