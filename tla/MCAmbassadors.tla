--------------------------- MODULE MCAmbassadors ---------------------------
EXTENDS Ambassadors, TLC

CONSTANTS s1, s2

SessionSet == {s1, s2}
Symmetric == Permutations(SessionSet)
=============================================================================
