------------------------- MODULE MCCollectionAccess -------------------------
EXTENDS CollectionAccess, TLC

CONSTANTS ada, bola, c1, c2, s1, s2

OwnerSet == {ada, bola}
CollectionSet == {c1, c2}
HandlerSet == {s1, s2}
ItemSet == {CollectionSet}
Flagged == {{"earnings"}, {"contributors"}}
Symmetric ==
  Permutations(OwnerSet) \cup Permutations(HandlerSet)
=============================================================================
