-------------------------- MODULE MCPaymentClaimTx --------------------------
(* Two sessions over three references; the payments a and b compete for the *)
(* tier and for the counter of VIP, a row of old still lacks a code.  Codes *)
(* of VIP run out: the fourth number is cut to 2, which may be taken.       *)
EXTENDS PaymentClaimTx

R(t, by, q, p) == [tier |-> t, by |-> by, quantity |-> q, prefix |-> p]

MCReferences == {"a", "b", "old"}
MCRows ==
  [a |-> <<R("T1", "id", 1, "VIP"), R(NoTier, "id", 1, "REG")>>,
   b |-> <<R("T1", "id", 1, "VIP")>>,
   old |-> <<R(NoTier, "id", 1, "VIP"), R(NoTier, "id", 1, "VIP")>>]
MCPrefixes == {"VIP", "REG"}
MCTiers == {"T1"}
MCLegacy == [old |-> <<1, 0>>]
MCCaps == {0, 4}
MCQuantities == {1, 2}
=============================================================================
