------------------------ MODULE MCCollectionTransfer ------------------------
EXTENDS CollectionTransfer, TLC

CONSTANTS ada, bola, c1, c2, s1, s2

UserSet == {ada, bola}
CollectionSet == {c1, c2}
SessionSet == {s1, s2}
Symmetric ==
  Permutations(UserSet) \cup Permutations(SessionSet)
=============================================================================
