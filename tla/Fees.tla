-------------------------------- MODULE Fees --------------------------------
(***************************************************************************)
(* What a contributor is charged, what the receipt says of it, and what it *)
(* is worth to the organizer: utils/fpe/primitives.js with the amounts     *)
(* that controllers/deposit.js and createContribution put into it.  Money  *)
(* is whole kobo; Withdrawals' Net is the Credited of a payment.           *)
(*                                                                         *)
(* roundCurrency prints a binary double with two decimals: the nearest     *)
(* kobo, and at an exact half the side on which the double happens to lie. *)
(* So what is rounded is a set, of two neighbours at a half.               *)
(***************************************************************************)
EXTENDS Integers, Sequences, Functions

CONSTANT FeeCap  \* MAX_FEE_AMOUNT: 200000 in the code; smaller in a run

ASSUME FeeCapAssumption == FeeCap \in Nat

None == "none"
GatewayRate == 15        \* GATEWAY_FEE_RATE, in thousandths
FundraisingRate == 10
DefaultRate == 5
Tolerance == 100         \* 1 naira
Smallest == 10000        \* 100 naira, which a charge has to exceed

\* roundCurrency(num / den).
Rounded(num, den) ==
  {k \in (num \div den)..(num \div den + 1) :
     2 * (num - k * den) <= den /\ 2 * (k * den - num) <= den}

PlatformRate(type) == IF type = "fundraising" THEN FundraisingRate ELSE DefaultRate

Fee(amount, rate) ==
  IF amount * rate <= 1000 * FeeCap THEN Rounded(amount * rate, 1000) ELSE {FeeCap}

\* calculateFees: platform fee and gateway fee, each with its own cap.
Fees(amount, type) ==
  [platform : Fee(amount, PlatformRate(type)), gateway : Fee(amount, GatewayRate)]

TotalFees(amount, type) == {f.platform + f.gateway : f \in Fees(amount, type)}

TotalPayable(amount, type, bearer) ==
  IF bearer = "contributor" THEN {amount + t : t \in TotalFees(amount, type)}
  ELSE {amount}

Estimates(gross, type) ==
  Rounded(1000 * gross, 1000 + PlatformRate(type) + GatewayRate)

\* deriveNetContribution, contributor-borne: estimate, then refine once.
NetContribution(gross, type) ==
  {IF t > gross THEN 0 ELSE gross - t :
     t \in UNION {TotalFees(e, type) : e \in Estimates(gross, type)}}

\* normalizeContribution: the amount the wallet counts for what was paid.
Credited(gross, type, bearer) ==
  IF gross = 0 THEN {0}
  ELSE IF bearer = "contributor" THEN NetContribution(gross, type)
  ELSE {gross - t : t \in TotalFees(gross, type)}

-----------------------------------------------------------------------------
\* Starting a payment.

Near(a, b) == a - b <= Tolerance /\ b - a <= Tolerance

\* tiers.find(..) by id or name: no tier, or the first that matches.
Picked(tiers, pick) ==
  LET Matches(i) == \/ pick.id # None /\ tiers[i].id = pick.id
                    \/ pick.name # None /\ tiers[i].name = pick.name
  IN  {tiers[i] : i \in {j \in DOMAIN tiers :
                           Matches(j) /\ \A k \in 1..(j - 1) : ~Matches(k)}}

\* A selection that names no tier costs nothing.
TicketCost(tiers, sel) ==
  LET tier == Picked(tiers, sel)
  IN  IF tier = {} THEN 0 ELSE (CHOOSE t \in tier : TRUE).price * sel.quantity

TicketsCost(tiers, tickets) ==
  SumFunctionOnSet([i \in DOMAIN tickets |-> TicketCost(tiers, tickets[i])],
                   DOMAIN tickets)

ValidAmount(c, amount, pick, tickets) ==
  /\ amount > 0
  /\ c.type = "fixed" => Near(amount, c.amount)
  /\ c.type = "tiered" =>
       \A t \in Picked(c.tiers, pick) : Near(amount, t.price * pick.quantity)
  /\ c.type = "ticket" => LET cost == TicketsCost(c.tiers, tickets)
                          IN  cost > 0 => Near(amount, cost)
  /\ c.type \in {"open_pool", "fundraising"} /\ c.minimum > 0 =>
       amount >= c.minimum - Tolerance

\* createContribution: the amount it stores, none when it refuses the request;
\* here q.contribution is the contributor's amount and q.pick.name the tier.
LegacyAmounts(c, q, count) ==
  LET Payable(amount, bearer) ==
        IF amount > Smallest THEN TotalPayable(amount, c.type, bearer) ELSE {}
  IN  CASE c.cap > 0 /\ count >= c.cap -> {}
        [] c.type = "fixed" -> Payable(c.amount, c.bearer)
        [] c.type = "tiered" ->
             UNION {Payable(t.price, c.bearer) :
                      t \in Picked(c.tiers, [id |-> None, name |-> q.pick.name])}
        [] c.type = "fundraising" -> Payable(q.contribution, "contributor")
        [] c.type \in {"open_pool", "ticket"} -> {q.contribution} \ {0}
        [] OTHER -> {}

\* initializePayment: the amount stored in the pending contribution and the one
\* Paystack charges; nothing when it refuses.  The old format has no metadata
\* to validate with.
Initialized(c, q, count) ==
  LET bearer == IF q.bearer = None THEN c.bearer ELSE q.bearer
  IN  IF q.metadata
      THEN {[stored |-> q.amount, charged |-> g] :
              g \in IF ValidAmount(c, q.amount, q.pick, q.tickets)
                    THEN TotalPayable(q.amount, c.type, bearer) ELSE {}}
      ELSE {[stored |-> a, charged |-> a] :
              a \in IF ValidAmount(c, q.amount, [id |-> None, name |-> None], << >>)
                    THEN LegacyAmounts(c, q, count) ELSE {}}

\* verifyPayment's receipt for a payment whose stored amount, if there is a
\* contribution, is in the set.
Receipts(c, stored, paid) ==
  UNION {{[amount |-> a, platform |-> f.platform, gateway |-> f.gateway,
           fees |-> IF paid > a THEN paid - a ELSE 0, paid |-> paid] :
            f \in Fees(a, c.type)} :
           a \in IF stored = {} THEN {paid} ELSE stored}
=============================================================================
