--------------------------- MODULE MCPaymentClaim ---------------------------
(* Small collections for PaymentClaim: a payment of two rows and a single   *)
(* row competing for the same tier, a payment and an old one competing for  *)
(* a tier that has no id, and no code yet on the second row of the old one. *)
EXTENDS PaymentClaim

R(t, by, q, p) == [tier |-> t, by |-> by, quantity |-> q, prefix |-> p]

MCReferences == {"a", "b", "c", "old"}

MCRows ==
  [a |-> <<R("T1", "id", 1, "VIP"), R("T1", "id", 2, "VIP")>>,
   b |-> <<R("T1", "id", 1, "VIP")>>,
   c |-> <<R("T2", "name", 3, "REG"), R(NoTier, "id", 1, NoPrefix)>>,
   old |-> <<R("T1", "id", 1, "VIP"), R("T2", "name", 1, "VIP")>>]

MCPrefixes == {"VIP", "REG"}
MCTiers == {"T1", "T2"}
MCLegacy == [old |-> <<1, 0>>]
ASSUME TiersNamedOneWay == NamedOneWay

MCCaps == {0, 5}
MCQuantities == {Unlimited, 3}
=============================================================================
