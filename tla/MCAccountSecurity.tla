------------------------- MODULE MCAccountSecurity -------------------------
EXTENDS AccountSecurity, TLC

CONSTANTS ada1, ada2, ada3, s1, s2

AddressSet == {ada1, ada2, ada3}
SessionSet == {s1, s2}
Symmetric == Permutations(AddressSet) \cup Permutations(SessionSet)
=============================================================================
