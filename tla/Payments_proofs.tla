-------------------------- MODULE Payments_proofs --------------------------
(***************************************************************************)
(* From a paid reference to its record and its notification.               *)
(*                                                                         *)
(* PaymentClaim (claim_payment_contributions), for every set of            *)
(* references, rows, prefixes and tiers: codes, rows and counters (IInv).  *)
(* PaymentClaimTx, for any number of sessions: it implements PaymentClaim  *)
(* (TxInv).                                                                *)
(*                                                                         *)
(* PaymentNotice with PushDelivery (deposit.js, pushNotifications.js), for *)
(* any number of deliveries, devices, attempts and faults: how often a     *)
(* device shows a payment, what an answer to the webhook means, and that a *)
(* finished event stays so (NoticeInv).                                    *)
(***************************************************************************)
EXTENDS PaymentClaimTx, PaymentNotice, Monitoring, Sums_proofs, FiniteSetTheorems, TLAPS

-----------------------------------------------------------------------------
(* Rows and their ids.                                                     *)

LEMMA RowFacts ==
  ASSUME NEW ref \in References
  PROVE  /\ Rows[ref] \in Seq(Row)
         /\ Len(Rows[ref]) \in Nat \ {0}
         /\ DOMAIN Rows[ref] = 1..Len(Rows[ref])
         /\ \A i \in DOMAIN Rows[ref] : Rows[ref][i] \in Row
BY ConstantsAssumption

LEMMA IdFacts ==
  /\ \A ref \in References : \A i \in DOMAIN Rows[ref] : <<ref, i>> \in RowIds
  /\ \A id \in RowIds : /\ id[1] \in References
                        /\ id[2] \in DOMAIN Rows[id[1]]
                        /\ id = <<id[1], id[2]>>
                        /\ RowOf(id) \in Row
  /\ \A ref \in References : Lines(ref) \subseteq RowIds
<1>1. \A id \in RowIds : \E ref \in References : id \in Lines(ref)
  BY DEF RowIds
<1>2. \A id \in RowIds : /\ id[1] \in References
                         /\ id[2] \in DOMAIN Rows[id[1]]
                         /\ id = <<id[1], id[2]>>
  BY <1>1 DEF Lines
<1>3. \A id \in RowIds : RowOf(id) \in Row
  BY <1>2, RowFacts DEF RowOf
<1>4. \A ref \in References : Lines(ref) \subseteq RowIds
  BY DEF RowIds
<1>5. \A ref \in References : \A i \in DOMAIN Rows[ref] : <<ref, i>> \in RowIds
  BY <1>4 DEF Lines
<1>6. QED BY <1>2, <1>3, <1>4, <1>5

LEMMA LinesFinite ==
  ASSUME NEW ref \in References
  PROVE  /\ IsFiniteSet(Lines(ref))
         /\ Cardinality(Lines(ref)) = Len(Rows[ref])
<1>1. /\ IsFiniteSet(1..Len(Rows[ref]))
      /\ Cardinality(1..Len(Rows[ref])) = Len(Rows[ref])
  BY RowFacts, FS_Interval
<1>2. IsFiniteSet({ref}) /\ Cardinality({ref}) = 1
  BY FS_Singleton
<1>3. /\ IsFiniteSet({ref} \X (1..Len(Rows[ref])))
      /\ Cardinality({ref} \X (1..Len(Rows[ref]))) = 1 * Len(Rows[ref])
  BY <1>1, <1>2, FS_Product
<1>4. Lines(ref) = {ref} \X (1..Len(Rows[ref]))
  BY RowFacts DEF Lines
<1>5. 1 * Len(Rows[ref]) = Len(Rows[ref])
  BY RowFacts
<1>6. QED BY <1>3, <1>4, <1>5

-----------------------------------------------------------------------------
(* Minting numbers and writing them as text.                               *)

LEMMA DivFacts ==
  ASSUME NEW n \in Nat, NEW d \in Nat \ {0}
  PROVE  n \div d \in Nat /\ n \div d <= n
<1>1. n \div d \in Int /\ n = d * (n \div d) + (n % d) /\ (n % d) \in 0..(d-1)
  OBVIOUS
<1> DEFINE q == n \div d
<1>2. q >= 0
  <2> SUFFICES ASSUME q < 0 PROVE FALSE BY <1>1
  <2>1. d * q <= d * (-1) BY <1>1
  <2>2. QED BY <1>1, <2>1
<1>3. d * q >= q
  BY <1>1, <1>2
<1>4. QED BY <1>1, <1>2, <1>3

LEMMA LPadFacts ==
  ASSUME NEW n \in Nat
  PROVE  /\ LPad(n) \in Nat
         /\ LPad(n) <= n
         /\ n < CodeSpace => LPad(n) = n
<1>1. Radix \in Nat \ {0, 1} /\ CodeSpace \in Nat \ {0}
  BY ConstantsAssumption
<1>2. Radix * Radix \in Nat \ {0}
  BY <1>1
<1>3. Dropped(n) \in Nat \ {0} /\ (n < CodeSpace => Dropped(n) = 1)
  BY <1>1, <1>2 DEF Dropped
<1>4. LPad(n) \in Nat /\ LPad(n) <= n
  BY <1>3, DivFacts DEF LPad
<1>5. n < CodeSpace => LPad(n) = n
  BY <1>3 DEF LPad
<1>6. QED BY <1>4, <1>5

\* The rows of ref up to i that use the prefix of row i.
SamePrefix(ref, i, p) == {j \in 1..i : Rows[ref][j].prefix = p}

LEMMA SamePrefixFacts ==
  ASSUME NEW ref \in References, NEW i \in Nat, NEW p
  PROVE  /\ IsFiniteSet(SamePrefix(ref, i, p))
         /\ Cardinality(SamePrefix(ref, i, p)) \in Nat
<1>1. IsFiniteSet(1..i) BY FS_Interval
<1>2. SamePrefix(ref, i, p) \in SUBSET (1..i) BY DEF SamePrefix
<1>3. IsFiniteSet(SamePrefix(ref, i, p)) BY <1>1, <1>2, FS_Subset
<1>4. QED BY <1>3, FS_CardinalityType

LEMMA SamePrefixGrows ==
  ASSUME NEW ref \in References, NEW i \in Nat \ {0}, NEW j \in 0..(i - 1),
         NEW p, Rows[ref][i].prefix = p
  PROVE  Cardinality(SamePrefix(ref, j, p)) < Cardinality(SamePrefix(ref, i, p))
<1>1. /\ IsFiniteSet(SamePrefix(ref, i, p))
      /\ Cardinality(SamePrefix(ref, i, p)) \in Nat
      /\ Cardinality(SamePrefix(ref, j, p)) \in Nat
  BY SamePrefixFacts
<1>2. SamePrefix(ref, j, p) \in SUBSET SamePrefix(ref, i, p)
  BY DEF SamePrefix
<1>3. i \in SamePrefix(ref, i, p) /\ i \notin SamePrefix(ref, j, p)
  BY DEF SamePrefix
<1>4. /\ Cardinality(SamePrefix(ref, j, p)) <= Cardinality(SamePrefix(ref, i, p))
      /\ Cardinality(SamePrefix(ref, j, p)) # Cardinality(SamePrefix(ref, i, p))
  BY <1>1, <1>2, <1>3, FS_Subset
<1>5. QED BY <1>1, <1>4

LEMMA MintedFacts ==
  ASSUME TypeOK, NEW ref \in References, NEW i \in DOMAIN Rows[ref],
         Rows[ref][i].prefix # NoPrefix
  PROVE  /\ Rows[ref][i].prefix \in Prefixes
         /\ Minted(ref, i) \in Nat
         /\ Minted(ref, i) > counters[Rows[ref][i].prefix]
         /\ \A j \in 1..(i - 1) : Rows[ref][j].prefix = Rows[ref][i].prefix
              => Minted(ref, j) < Minted(ref, i)
<1> DEFINE p == Rows[ref][i].prefix
<1>1. p \in Prefixes /\ i \in Nat \ {0} /\ counters[p] \in Nat
  BY RowFacts DEF Row, TypeOK
<1>2. Minted(ref, i) = counters[p] + Cardinality(SamePrefix(ref, i, p))
  BY DEF Minted, SamePrefix
<1>3. Cardinality(SamePrefix(ref, i, p)) \in Nat
  BY <1>1, SamePrefixFacts
<1>4. /\ Cardinality(SamePrefix(ref, 0, p)) < Cardinality(SamePrefix(ref, i, p))
      /\ Cardinality(SamePrefix(ref, 0, p)) \in Nat
  BY <1>1, SamePrefixGrows, SamePrefixFacts
<1>5. ASSUME NEW j \in 1..(i - 1), Rows[ref][j].prefix = p
      PROVE  Minted(ref, j) < Minted(ref, i)
  <2>1. Minted(ref, j) = counters[p] + Cardinality(SamePrefix(ref, j, p))
    BY <1>5 DEF Minted, SamePrefix
  <2>2. /\ Cardinality(SamePrefix(ref, j, p)) < Cardinality(SamePrefix(ref, i, p))
        /\ Cardinality(SamePrefix(ref, j, p)) \in Nat
    BY <1>1, SamePrefixGrows, SamePrefixFacts
  <2>3. QED BY <1>1, <1>2, <1>3, <2>1, <2>2
<1>6. QED BY <1>1, <1>2, <1>3, <1>4, <1>5

LEMMA NewCodeType ==
  ASSUME TypeOK, NEW ref \in References, NEW i \in DOMAIN Rows[ref]
  PROVE  NewCode(ref, i) \in Nat
BY MintedFacts, LPadFacts DEF NewCode

-----------------------------------------------------------------------------
(* Type correctness.                                                       *)

LEMMA SuffixCountsType ==
  ASSUME code \in [RowIds -> Nat], contributions \subseteq RowIds
  PROVE  SuffixCounts \subseteq [Prefixes -> Nat]
<1>1. {0} \cup {code[id] : id \in Coded} \subseteq Nat
  BY DEF Coded
<1>2. QED BY <1>1 DEF SuffixCounts

LEMMA InitTypeOK == Init => TypeOK
<1> SUFFICES ASSUME Init PROVE TypeOK
  OBVIOUS
<1>1. contributions \subseteq RowIds
  BY DEF Init
<1>2. code \in [RowIds -> Nat]
  BY IdFacts, ConstantsAssumption DEF Init
<1>3. counters \in [Prefixes -> Nat]
  BY <1>1, <1>2, SuffixCountsType DEF Init
<1>4. backfill \in Backfills
  BY DEF Init, Idle, Backfills
<1>5. reply \in [References -> Outcomes]
  BY DEF Init, Outcomes
<1>6. QED BY <1>1, <1>2, <1>3, <1>4, <1>5 DEF Init, TypeOK

LEMMA BackfillShape ==
  ASSUME TypeOK
  PROVE  /\ backfill.stage \in {"scanned", "minted"} =>
              /\ backfill.missing \in SUBSET RowIds
              /\ backfill.local \in [Prefixes -> Nat]
         /\ backfill.stage = "minted" =>
              backfill.row \in RowIds /\ backfill.number \in Nat
         /\ backfill = Idle => backfill.stage = "idle"
BY DEF TypeOK, Backfills, Idle

\* A row without a prefix never has a code, and is never one the script mints
\* for.
BackfillRows ==
  /\ \A id \in RowIds : RowOf(id).prefix = NoPrefix => code[id] = 0
  /\ backfill.stage \in {"scanned", "minted"} =>
       \A id \in backfill.missing : RowOf(id).prefix # NoPrefix
  /\ backfill.stage = "minted" => RowOf(backfill.row).prefix # NoPrefix

LEMMA StepTypeOK == TypeOK /\ BackfillRows /\ [Next]_vars => TypeOK'
<1> SUFFICES ASSUME TypeOK, BackfillRows, [Next]_vars PROVE TypeOK'
  OBVIOUS
<1>1. ASSUME NEW ref \in References, NEW o \in Outcomes, Refuse(ref, o)
      PROVE  TypeOK'
  BY <1>1 DEF TypeOK, Refuse, Answer
<1>2. ASSUME NEW ref \in References, Claim(ref) PROVE TypeOK'
  <2>1. CASE ClaimInserts(ref)
    <3>1. contributions' \subseteq RowIds
      BY <2>1, IdFacts DEF ClaimInserts, TypeOK
    <3>2. code' \in [RowIds -> Nat]
      BY <2>1, IdFacts, NewCodeType DEF ClaimInserts, TypeOK
    <3>3. counters' \in [Prefixes -> Nat]
      <4> SUFFICES ASSUME NEW p \in Prefixes
                   PROVE  Cardinality({i \in DOMAIN Rows[ref] :
                                         Rows[ref][i].prefix = p}) \in Nat
        BY <2>1 DEF ClaimInserts, TypeOK
      <4>1. {i \in DOMAIN Rows[ref] : Rows[ref][i].prefix = p}
              = SamePrefix(ref, Len(Rows[ref]), p)
        BY RowFacts DEF SamePrefix
      <4>2. QED BY <4>1, RowFacts, SamePrefixFacts
    <3>4. QED BY <2>1, <3>1, <3>2, <3>3
                 DEF ClaimInserts, Answer, TypeOK, Outcomes
  <2>2. CASE \/ ClaimKnown(ref) \/ ClaimCollectionFull(ref)
             \/ ClaimTierFull(ref) \/ ClaimCollides(ref)
    BY <2>2, <1>1 DEF ClaimKnown, ClaimCollectionFull, ClaimTierFull,
                      ClaimCollides, Outcomes
  <2>3. QED BY <1>2, <2>1, <2>2 DEF Claim
<1>3. ASSUME NEW cap \in CapChoices, NEW q \in [Tiers -> QuantityChoices],
             EditCollection(cap, q)
      PROVE  TypeOK'
  BY <1>3 DEF EditCollection, TypeOK
<1>4. ASSUME BackfillScan PROVE TypeOK'
  <2>1. PICK local \in SuffixCounts :
          backfill' = [stage |-> "scanned", missing |-> MissingCode,
                       local |-> local]
    BY <1>4 DEF BackfillScan
  <2>2. local \in [Prefixes -> Nat]
    BY SuffixCountsType DEF TypeOK
  <2>3. MissingCode \in SUBSET RowIds
    BY DEF MissingCode, TypeOK
  <2>4. backfill' \in Backfills
    BY <2>1, <2>2, <2>3 DEF Backfills
  <2>5. QED BY <1>4, <2>4 DEF BackfillScan, TypeOK
<1>5. ASSUME NEW id \in RowIds, BackfillMint(id) PROVE TypeOK'
  <2>1. RowOf(id).prefix \in Prefixes
    BY <1>5, IdFacts DEF BackfillMint, BackfillRows, Row
  <2>2. counters[RowOf(id).prefix] + 1 \in Nat
    BY <2>1 DEF TypeOK
  <2>3. backfill' \in Backfills
    BY <1>5, <2>2, BackfillShape DEF BackfillMint, Backfills
  <2>4. QED BY <1>5, <2>2, <2>3 DEF BackfillMint, TypeOK
<1>6. ASSUME NEW id \in RowIds, BackfillMintLocally(id) PROVE TypeOK'
  <2>1. RowOf(id).prefix \in Prefixes
    BY <1>6, IdFacts DEF BackfillMintLocally, BackfillRows, Row
  <2>2. backfill.local[RowOf(id).prefix] + 1 \in Nat
    BY <1>6, <2>1, BackfillShape DEF BackfillMintLocally
  <2>3. backfill' \in Backfills
    BY <1>6, <2>2, BackfillShape DEF BackfillMintLocally, Backfills
  <2>4. QED BY <1>6, <2>3 DEF BackfillMintLocally, TypeOK
<1>7. ASSUME BackfillAssign PROVE TypeOK'
  <2>1. code' \in [RowIds -> Nat]
    BY <1>7, BackfillShape DEF BackfillAssign, TypeOK
  <2>2. backfill' \in Backfills
    BY <1>7, BackfillShape DEF BackfillAssign, GoOnWith, Backfills, Idle
  <2>3. QED BY <1>7, <2>1, <2>2 DEF BackfillAssign, TypeOK
<1>8. ASSUME NEW id \in RowIds, BackfillSkip(id) PROVE TypeOK'
  <2>1. backfill' \in Backfills
    BY <1>8, BackfillShape DEF BackfillSkip, GoOnWith, Backfills, Idle
  <2>2. QED BY <1>8, <2>1 DEF BackfillSkip, TypeOK
<1>9. ASSUME BackfillStop PROVE TypeOK'
  BY <1>9 DEF BackfillStop, Backfills, Idle, TypeOK
<1>10. CASE UNCHANGED vars
  BY <1>10 DEF vars, TypeOK
<1>11. QED BY <1>2, <1>3, <1>4, <1>5, <1>6, <1>7, <1>8, <1>9, <1>10 DEF Next

-----------------------------------------------------------------------------
(* The inductive invariant.                                                *)

\* A payment is recorded with all of its rows or with none.
WholePayments == \A ref \in References :
                   Recorded(ref) => Lines(ref) \subseteq contributions

IInv ==
  /\ TypeOK
  /\ BackfillRows
  /\ IsFiniteSet(contributions)
  /\ WholePayments
  /\ UniqueCodes
  /\ CountersNeverLag
  /\ ToldMeansRecorded

\* What a claim that records its rows leaves behind.
LEMMA InsertedFacts ==
  ASSUME TypeOK, NEW ref \in References, ClaimInserts(ref)
  PROVE  /\ \A id \in contributions : id \notin Lines(ref) /\ id[1] # ref
                                      /\ code'[id] = code[id]
         /\ \A i \in DOMAIN Rows[ref] : code'[<<ref, i>>] = NewCode(ref, i)
         /\ \A id \in contributions' :
              \/ id \in contributions
              \/ /\ id[1] = ref
                 /\ id[2] \in DOMAIN Rows[ref]
                 /\ id = <<ref, id[2]>>
<1>1. contributions \cap Lines(ref) = {}
  BY DEF ClaimInserts, Admitted, Recorded
<1>2. \A id \in contributions : id[1] # ref
  BY <1>1, IdFacts DEF TypeOK, Lines
<1>3. \A id \in contributions : code'[id] = code[id]
  BY <1>2 DEF ClaimInserts, TypeOK
<1>4. \A i \in DOMAIN Rows[ref] : code'[<<ref, i>>] = NewCode(ref, i)
  BY IdFacts DEF ClaimInserts
<1>5. \A id \in Lines(ref) : /\ id[1] = ref
                             /\ id[2] \in DOMAIN Rows[ref]
                             /\ id = <<ref, id[2]>>
  BY DEF Lines
<1>6. QED BY <1>1, <1>2, <1>3, <1>4, <1>5 DEF ClaimInserts

\* The counter of each prefix after the claim: at least every number minted.
LEMMA InsertedCounters ==
  ASSUME TypeOK, NEW ref \in References, ClaimInserts(ref)
  PROVE  /\ \A p \in Prefixes : counters'[p] \in Nat /\ counters'[p] >= counters[p]
         /\ \A i \in DOMAIN Rows[ref] : Rows[ref][i].prefix # NoPrefix =>
              Minted(ref, i) <= counters'[Rows[ref][i].prefix]
<1>1. ASSUME NEW p \in Prefixes
      PROVE  /\ counters'[p] = counters[p]
                    + Cardinality(SamePrefix(ref, Len(Rows[ref]), p))
             /\ Cardinality(SamePrefix(ref, Len(Rows[ref]), p)) \in Nat
  <2>1. {i \in DOMAIN Rows[ref] : Rows[ref][i].prefix = p}
          = SamePrefix(ref, Len(Rows[ref]), p)
    BY RowFacts DEF SamePrefix
  <2>2. QED BY <2>1, RowFacts, SamePrefixFacts DEF ClaimInserts
<1>2. ASSUME NEW i \in DOMAIN Rows[ref], Rows[ref][i].prefix # NoPrefix
      PROVE  Minted(ref, i) <= counters'[Rows[ref][i].prefix]
  <2> DEFINE p == Rows[ref][i].prefix
  <2>1. p \in Prefixes /\ i \in Nat /\ i <= Len(Rows[ref])
    BY <1>2, RowFacts DEF Row
  <2>2. SamePrefix(ref, i, p) \in SUBSET SamePrefix(ref, Len(Rows[ref]), p)
    BY <2>1, RowFacts DEF SamePrefix
  <2>3. Cardinality(SamePrefix(ref, i, p))
          <= Cardinality(SamePrefix(ref, Len(Rows[ref]), p))
    BY <2>2, RowFacts, SamePrefixFacts, FS_Subset
  <2>4. Minted(ref, i) = counters[p] + Cardinality(SamePrefix(ref, i, p))
    BY DEF Minted, SamePrefix
  <2>5. Cardinality(SamePrefix(ref, i, p)) \in Nat
    BY <2>1, SamePrefixFacts
  <2>6. QED BY <1>1, <2>1, <2>3, <2>4, <2>5 DEF TypeOK
<1>3. QED BY <1>1, <1>2 DEF TypeOK

\* Counters never go back.
LEMMA CountersGrow ==
  ASSUME TypeOK, BackfillRows, Next, NEW p \in Prefixes
  PROVE  counters'[p] \in Nat /\ counters'[p] >= counters[p]
<1>1. ASSUME NEW ref \in References, ClaimInserts(ref)
      PROVE  counters'[p] \in Nat /\ counters'[p] >= counters[p]
  BY <1>1, InsertedCounters
<1>2. ASSUME NEW id \in RowIds, BackfillMint(id)
      PROVE  counters'[p] \in Nat /\ counters'[p] >= counters[p]
  BY <1>2 DEF BackfillMint, TypeOK
<1>3. CASE UNCHANGED counters
  BY <1>3 DEF TypeOK
<1>4. QED BY <1>1, <1>2, <1>3
          DEF Next, Claim, ClaimKnown, ClaimCollectionFull, ClaimTierFull,
              ClaimCollides, Refuse, EditCollection, BackfillScan,
              BackfillMintLocally, BackfillAssign, BackfillSkip, BackfillStop

LEMMA RoomPersistsBackwards ==
  ASSUME TypeOK, BackfillRows, Next, NEW ref \in References, Room(ref)'
  PROVE  Room(ref)
<1> SUFFICES ASSUME NEW i \in DOMAIN Rows[ref], Rows[ref][i].prefix # NoPrefix
             PROVE  Minted(ref, i) < CodeSpace
  BY DEF Room
<1> DEFINE p == Rows[ref][i].prefix
<1>1. p \in Prefixes /\ i \in Nat
  BY RowFacts DEF Row
<1>2. Cardinality(SamePrefix(ref, i, p)) \in Nat
  BY <1>1, SamePrefixFacts
<1>3. counters'[p] + Cardinality(SamePrefix(ref, i, p)) < CodeSpace
  BY DEF Room, Minted, SamePrefix
<1>4. counters'[p] \in Nat /\ counters[p] \in Nat /\ counters'[p] >= counters[p]
  BY <1>1, CountersGrow DEF TypeOK
<1>5. counters[p] + Cardinality(SamePrefix(ref, i, p)) < CodeSpace
  BY <1>2, <1>3, <1>4, ConstantsAssumption
<1>6. QED BY <1>5 DEF Minted, SamePrefix

\* Under the invariant and with room left, a claim never meets its own codes.
LEMMA NoCollision ==
  ASSUME IInv, WellSeeded, NEW ref \in References, Room(ref)
  PROVE  ~CodeCollision(ref)
<1> SUFFICES ASSUME NEW i \in DOMAIN Rows[ref], NewCode(ref, i) # 0,
                    \/ SameCode(Rows[ref][i].prefix, NewCode(ref, i)) # {}
                    \/ \E j \in 1..(i - 1) :
                         /\ Rows[ref][j].prefix = Rows[ref][i].prefix
                         /\ NewCode(ref, j) = NewCode(ref, i)
             PROVE  FALSE
  BY DEF CodeCollision
<1> DEFINE p == Rows[ref][i].prefix
<1>0. TypeOK /\ CountersNeverLag
  BY DEF IInv
<1>1. p # NoPrefix
  BY DEF NewCode
<1>2. Minted(ref, i) \in Nat /\ Minted(ref, i) < CodeSpace
  BY <1>0, <1>1, MintedFacts DEF Room
<1>3. NewCode(ref, i) = Minted(ref, i)
  BY <1>1, <1>2, LPadFacts DEF NewCode
<1>4. ASSUME NEW id \in SameCode(p, NewCode(ref, i)) PROVE FALSE
  <2>1. code[id] <= counters[p] /\ code[id] = Minted(ref, i)
    BY <1>0, <1>3 DEF SameCode, CountersNeverLag
  <2>2. Minted(ref, i) > counters[p] /\ counters[p] \in Nat
    BY <1>0, <1>1, MintedFacts DEF TypeOK
  <2>3. QED BY <1>2, <2>1, <2>2
<1>5. ASSUME NEW j \in 1..(i - 1), Rows[ref][j].prefix = p,
             NewCode(ref, j) = NewCode(ref, i)
      PROVE  FALSE
  <2>1. j \in DOMAIN Rows[ref]
    BY RowFacts
  <2>2. Minted(ref, j) < Minted(ref, i) /\ Minted(ref, j) \in Nat
    BY <1>0, <1>1, <1>5, <2>1, MintedFacts
  <2>3. NewCode(ref, j) = Minted(ref, j)
    BY <1>1, <1>2, <1>5, <2>2, LPadFacts, ConstantsAssumption DEF NewCode
  <2>4. QED BY <1>2, <1>3, <1>5, <2>2, <2>3
<1>6. QED BY <1>4, <1>5

-----------------------------------------------------------------------------
(* Initially.                                                              *)

LEMMA InitIInv == Init => IInv
<1> SUFFICES ASSUME Init PROVE IInv
  OBVIOUS
<1>1. TypeOK
  BY InitTypeOK
<1>2. BackfillRows
  BY IdFacts, ConstantsAssumption DEF Init, Idle, BackfillRows, RowOf
<1>3. IsFiniteSet(contributions)
  BY LegacyAssumption DEF Init
<1>4. WholePayments
  <2>1. \A ref \in References : Recorded(ref) => ref \in DOMAIN Legacy
    BY DEF Init, Recorded, Lines
  <2>2. \A ref \in References : ref \in DOMAIN Legacy
                                  => Lines(ref) \subseteq contributions
    BY IdFacts DEF Init, Lines
  <2>3. QED BY <2>1, <2>2 DEF WholePayments
<1>5. UniqueCodes
  BY LegacyAssumption DEF Init, UniqueCodes, Coded
<1>6. CountersNeverLag
  <2>1. ASSUME WellSeeded, NEW id \in Coded
        PROVE  code[id] <= counters[RowOf(id).prefix]
    <3> DEFINE p == RowOf(id).prefix
    <3>1. id \in RowIds /\ id[1] \in DOMAIN Legacy /\ code[id] = Legacy[id[1]][id[2]]
      BY DEF Init, Coded
    <3>2. p \in Prefixes
      <4>1. p # NoPrefix
        BY <3>1, IdFacts, ConstantsAssumption DEF Coded, RowOf
      <4>2. QED BY <3>1, <4>1, IdFacts DEF Row
    <3>3. p \in AlphaPrefixes
      BY <2>1, <3>2 DEF WellSeeded
    <3>4. code[id] \in Suffixes(p)
      BY DEF Suffixes
    <3>5. QED BY <3>2, <3>3, <3>4 DEF Init, SuffixCounts, IsHighestSuffix
  <2>2. BackfillNumberFromCounter
    BY DEF Init, Idle, BackfillNumberFromCounter
  <2>3. QED BY <2>1, <2>2 DEF CountersNeverLag
<1>7. ToldMeansRecorded
  BY DEF Init, ToldMeansRecorded
<1>8. QED BY <1>1, <1>2, <1>3, <1>4, <1>5, <1>6, <1>7 DEF IInv

-----------------------------------------------------------------------------
(* The step that records a payment.                                        *)

LEMMA InsertsIInv ==
  ASSUME IInv, NEW ref \in References, ClaimInserts(ref), TypeOK'
  PROVE  IInv'
<1>0. TypeOK
  BY DEF IInv
<1>a. /\ backfill' = backfill
      /\ reply' = [reply EXCEPT ![ref] = "inserted"]
      /\ contributions' = contributions \cup Lines(ref)
  BY DEF ClaimInserts, Answer
<1>1. BackfillRows'
  <2>1. ASSUME NEW id \in RowIds, RowOf(id).prefix = NoPrefix
        PROVE  code'[id] = 0
    <3>1. code[id] = 0
      BY <2>1 DEF IInv, BackfillRows
    <3>2. CASE id[1] = ref
      <4>1. code'[id] = NewCode(ref, id[2]) BY <3>2 DEF ClaimInserts
      <4>2. Rows[ref][id[2]].prefix = NoPrefix BY <2>1, <3>2 DEF RowOf
      <4>3. QED BY <4>1, <4>2 DEF NewCode
    <3>3. QED BY <3>1, <3>2 DEF ClaimInserts
  <2>2. QED BY <1>a, <2>1 DEF IInv, BackfillRows
<1>2. IsFiniteSet(contributions')
  BY <1>a, LinesFinite, FS_Union DEF IInv
<1>3. WholePayments'
  <2> SUFFICES ASSUME NEW r \in References, Recorded(r)'
               PROVE  Lines(r) \subseteq contributions'
    BY DEF WholePayments
  <2>1. CASE r = ref
    BY <1>a, <2>1
  <2>2. CASE r # ref
    <3>1. Lines(r) \cap Lines(ref) = {}
      BY <2>2 DEF Lines
    <3>2. Recorded(r)
      BY <1>a, <3>1 DEF Recorded
    <3>3. QED BY <1>a, <3>2 DEF IInv, WholePayments
  <2>3. QED BY <2>1, <2>2
<1>4. UniqueCodes'
  <2> SUFFICES ASSUME NEW r \in Coded', NEW s \in Coded',
                      RowOf(r).prefix = RowOf(s).prefix, code'[r] = code'[s]
               PROVE  r = s
    BY DEF UniqueCodes
  <2>1. r \in contributions' /\ s \in contributions' /\ code'[r] # 0
    BY DEF Coded
  <2>2. ~CodeCollision(ref)
    BY DEF ClaimInserts
  <2>3. ASSUME NEW x \in contributions, NEW y \in contributions',
               y \notin contributions, code'[x] # 0,
               RowOf(x).prefix = RowOf(y).prefix, code'[x] = code'[y]
        PROVE  FALSE
    <3>1. y[2] \in DOMAIN Rows[ref] /\ y = <<ref, y[2]>>
      BY <1>0, <2>3, InsertedFacts
    <3>2. code'[y] = NewCode(ref, y[2]) /\ code'[x] = code[x]
      BY <1>0, <3>1, InsertedFacts
    <3>3. RowOf(y) = Rows[ref][y[2]]
      BY <3>1 DEF RowOf
    <3>4. x \in SameCode(Rows[ref][y[2]].prefix, NewCode(ref, y[2]))
      BY <2>3, <3>2, <3>3 DEF SameCode, Coded
    <3>5. QED BY <2>2, <2>3, <3>1, <3>2, <3>4 DEF CodeCollision
  <2>4. CASE r \in contributions /\ s \in contributions
    <3>1. code'[r] = code[r] /\ code'[s] = code[s]
      BY <1>0, <2>4, InsertedFacts
    <3>2. r \in Coded /\ s \in Coded
      BY <2>1, <2>4, <3>1 DEF Coded
    <3>3. QED BY <3>1, <3>2 DEF IInv, UniqueCodes
  <2>5. CASE r \notin contributions /\ s \notin contributions
    <3>1. /\ r[2] \in DOMAIN Rows[ref] /\ r = <<ref, r[2]>>
          /\ s[2] \in DOMAIN Rows[ref] /\ s = <<ref, s[2]>>
      BY <1>0, <2>1, <2>5, InsertedFacts
    <3>2. code'[r] = NewCode(ref, r[2]) /\ code'[s] = NewCode(ref, s[2])
      BY <1>0, <3>1, InsertedFacts
    <3>3. Rows[ref][r[2]].prefix = Rows[ref][s[2]].prefix
      BY <3>1 DEF RowOf
    <3>4. r[2] \in Nat \ {0} /\ s[2] \in Nat \ {0}
      BY <3>1, RowFacts
    <3>5. ASSUME NEW i \in DOMAIN Rows[ref], NEW j \in 1..(i - 1),
                 Rows[ref][j].prefix = Rows[ref][i].prefix,
                 NewCode(ref, j) = NewCode(ref, i)
          PROVE  NewCode(ref, i) = 0
      BY <2>2, <3>5 DEF CodeCollision
    <3>6. NewCode(ref, r[2]) = NewCode(ref, s[2]) /\ NewCode(ref, r[2]) # 0
      BY <2>1, <3>2
    <3>7. ASSUME r[2] < s[2] PROVE FALSE
      <4>1. r[2] \in 1..(s[2] - 1) BY <3>4, <3>7
      <4>2. QED BY <3>1, <3>3, <3>5, <3>6, <4>1
    <3>8. ASSUME s[2] < r[2] PROVE FALSE
      <4>1. s[2] \in 1..(r[2] - 1) BY <3>4, <3>8
      <4>2. QED BY <3>1, <3>3, <3>5, <3>6, <4>1
    <3>9. r[2] = s[2]
      BY <3>4, <3>7, <3>8
    <3>10. QED BY <3>1, <3>9
  <2>6. QED BY <2>1, <2>3, <2>4, <2>5
<1>5. CountersNeverLag'
  <2> SUFFICES ASSUME WellSeeded
               PROVE  /\ \A id \in Coded' : code'[id] <= counters'[RowOf(id).prefix]
                      /\ BackfillNumberFromCounter'
    BY DEF CountersNeverLag, WellSeeded
  <2>1. ASSUME NEW id \in Coded' PROVE code'[id] <= counters'[RowOf(id).prefix]
    <3>0. id \in contributions' /\ code'[id] # 0 /\ id \in RowIds
      BY DEF Coded, TypeOK
    <3>1. CASE id \in contributions
      <4>1. code'[id] = code[id] /\ id \in Coded /\ code[id] \in Nat
        BY <1>0, <3>0, <3>1, InsertedFacts DEF Coded, TypeOK
      <4>2. code[id] <= counters[RowOf(id).prefix]
        BY <4>1 DEF IInv, CountersNeverLag
      <4>3. CASE RowOf(id).prefix \in Prefixes
        BY <1>0, <4>1, <4>2, <4>3, InsertedCounters DEF TypeOK
      <4>4. CASE RowOf(id).prefix = NoPrefix
        BY <3>0, <4>1, <4>4 DEF IInv, BackfillRows, Coded
      <4>5. QED BY <3>0, <4>3, <4>4, IdFacts DEF Row
    <3>2. CASE id \notin contributions
      <4>1. id[2] \in DOMAIN Rows[ref] /\ id = <<ref, id[2]>>
        BY <1>0, <3>0, <3>2, InsertedFacts
      <4>2. code'[id] = NewCode(ref, id[2]) /\ RowOf(id) = Rows[ref][id[2]]
        BY <1>0, <4>1, InsertedFacts DEF RowOf
      <4>3. Rows[ref][id[2]].prefix # NoPrefix
        BY <3>0, <4>2 DEF NewCode
      <4>4. /\ code'[id] = LPad(Minted(ref, id[2]))
            /\ Minted(ref, id[2]) \in Nat
        BY <1>0, <4>1, <4>2, <4>3, MintedFacts DEF NewCode
      <4>5. Minted(ref, id[2]) <= counters'[RowOf(id).prefix]
        BY <1>0, <4>1, <4>2, <4>3, InsertedCounters
      <4>6. counters'[RowOf(id).prefix] \in Nat
        BY <1>0, <4>1, <4>2, <4>3, MintedFacts, InsertedCounters
      <4>7. code'[id] \in Nat /\ code'[id] <= Minted(ref, id[2])
        BY <4>4, LPadFacts
      <4>8. QED BY <4>4, <4>5, <4>6, <4>7
    <3>3. QED BY <3>1, <3>2
  <2>2. ASSUME backfill.stage = "minted"
        PROVE  backfill.number <= counters'[RowOf(backfill.row).prefix]
    <3>1. backfill.row \in RowIds /\ backfill.number \in Nat
      BY <1>0, <2>2, BackfillShape
    <3>2. RowOf(backfill.row).prefix \in Prefixes
      BY <2>2, <3>1, IdFacts DEF IInv, BackfillRows, Row
    <3>3. backfill.number <= counters[RowOf(backfill.row).prefix]
      BY <2>2 DEF IInv, CountersNeverLag, BackfillNumberFromCounter
    <3>4. QED BY <1>0, <3>1, <3>2, <3>3, InsertedCounters DEF TypeOK
  <2>3. QED BY <1>a, <2>1, <2>2 DEF BackfillNumberFromCounter
<1>6. ToldMeansRecorded'
  <2> SUFFICES ASSUME WellSeeded, NEW r \in References, Room(r)',
                      reply'[r] \in {"inserted", "idempotent"}
               PROVE  Lines(r) \subseteq contributions'
    BY DEF ToldMeansRecorded, WellSeeded
  <2>1. Room(r)
    BY <1>0, RoomPersistsBackwards DEF IInv, Next, Claim
  <2>2. CASE r = ref
    BY <1>a, <2>2
  <2>3. CASE r # ref
    <3>1. reply'[r] = reply[r]
      BY <1>0, <1>a, <2>3 DEF TypeOK
    <3>2. QED BY <1>a, <2>1, <3>1 DEF IInv, ToldMeansRecorded
  <2>4. QED BY <2>2, <2>3
<1>7. QED BY <1>1, <1>2, <1>3, <1>4, <1>5, <1>6 DEF IInv

-----------------------------------------------------------------------------
(* The other steps.                                                        *)

LEMMA RefusalIInv ==
  ASSUME IInv, NEW ref \in References, TypeOK',
         \/ ClaimKnown(ref) \/ ClaimCollectionFull(ref)
         \/ ClaimTierFull(ref) \/ ClaimCollides(ref)
  PROVE  IInv'
<1>1. UNCHANGED <<contributions, code, counters, maxContributions, quantity,
                  backfill>>
  BY DEF ClaimKnown, ClaimCollectionFull, ClaimTierFull, ClaimCollides, Refuse,
         Answer
<1>2. /\ BackfillRows' /\ IsFiniteSet(contributions)' /\ WholePayments'
      /\ UniqueCodes' /\ CountersNeverLag'
  BY <1>1 DEF IInv, BackfillRows, WholePayments, Recorded, UniqueCodes, Coded,
              CountersNeverLag, BackfillNumberFromCounter, WellSeeded
<1>3. ToldMeansRecorded'
  <2> SUFFICES ASSUME WellSeeded, NEW r \in References, Room(r)',
                      reply'[r] \in {"inserted", "idempotent"}
               PROVE  Lines(r) \subseteq contributions
    BY <1>1 DEF ToldMeansRecorded, WellSeeded
  <2>1. Room(r)
    BY <1>1 DEF Room, Minted
  <2>2. ASSUME reply'[r] = reply[r] PROVE Lines(r) \subseteq contributions
    BY <2>1, <2>2 DEF IInv, ToldMeansRecorded
  <2>3. CASE ClaimKnown(ref)
    BY <2>2, <2>3 DEF ClaimKnown, Refuse, Answer, IInv, WholePayments, TypeOK
  <2>4. CASE ClaimCollectionFull(ref) \/ ClaimTierFull(ref)
    BY <2>2, <2>4 DEF ClaimCollectionFull, ClaimTierFull, Refuse, Answer, IInv,
                      TypeOK
  <2>5. CASE ClaimCollides(ref)
    <3>1. r # ref
      BY <2>1, <2>5, NoCollision DEF ClaimCollides
    <3>2. reply'[r] = reply[r]
      BY <2>5, <3>1 DEF ClaimCollides, Refuse, Answer, IInv, TypeOK
    <3>3. QED BY <2>2, <3>2
  <2>6. QED BY <2>3, <2>4, <2>5
<1>4. QED BY <1>2, <1>3 DEF IInv

\* Steps that move neither rows, codes nor replies, and no counter backwards.
LEMMA QuietIInv ==
  ASSUME IInv, Next, TypeOK', BackfillRows', CountersNeverLag',
         UNCHANGED <<contributions, code, reply>>
  PROVE  IInv'
<1>1. IsFiniteSet(contributions)' /\ WholePayments' /\ UniqueCodes'
  BY DEF IInv, WholePayments, Recorded, UniqueCodes, Coded
<1>2. ASSUME NEW r \in References, Room(r)' PROVE Room(r)
  BY <1>2, RoomPersistsBackwards DEF IInv
<1>3. ToldMeansRecorded'
  BY <1>2 DEF IInv, ToldMeansRecorded, WellSeeded
<1>4. QED BY <1>1, <1>3 DEF IInv

LEMMA EditIInv ==
  ASSUME IInv, NEW cap \in CapChoices, NEW q \in [Tiers -> QuantityChoices],
         EditCollection(cap, q), TypeOK'
  PROVE  IInv'
<1>1. BackfillRows' /\ CountersNeverLag'
  BY DEF EditCollection, IInv, BackfillRows, CountersNeverLag, Coded,
         BackfillNumberFromCounter, WellSeeded
<1>2. Next
  BY DEF Next
<1>3. QED BY <1>1, <1>2, QuietIInv DEF EditCollection

LEMMA ScanIInv ==
  ASSUME IInv, BackfillScan, TypeOK'
  PROVE  IInv'
<1>1. /\ backfill'.stage = "scanned" /\ backfill'.missing = MissingCode
      /\ UNCHANGED <<contributions, code, counters, reply>>
  BY DEF BackfillScan
<1>2. BackfillRows'
  BY <1>1 DEF IInv, BackfillRows, MissingCode
<1>3. CountersNeverLag'
  BY <1>1 DEF IInv, CountersNeverLag, Coded, BackfillNumberFromCounter, WellSeeded
<1>4. QED BY <1>1, <1>2, <1>3, QuietIInv DEF Next

LEMMA MintIInv ==
  ASSUME IInv, NEW id \in RowIds, TypeOK',
         BackfillMint(id) \/ BackfillMintLocally(id)
  PROVE  IInv'
<1> DEFINE p == RowOf(id).prefix
<1>0. TypeOK /\ BackfillRows
  BY DEF IInv
<1>1. /\ UNCHANGED <<contributions, code, reply>>
      /\ id \in backfill.missing /\ backfill.stage = "scanned"
      /\ backfill'.stage = "minted" /\ backfill'.row = id
      /\ backfill'.missing = backfill.missing
  BY DEF BackfillMint, BackfillMintLocally
<1>2. BackfillRows'
  BY <1>0, <1>1 DEF BackfillRows
<1>3. p \in Prefixes
  BY <1>0, <1>1, IdFacts DEF BackfillRows, Row
<1>4. Next
  BY DEF Next
<1>5. CountersNeverLag'
  <2> SUFFICES ASSUME WellSeeded
               PROVE  /\ \A r \in Coded : code[r] <= counters'[RowOf(r).prefix]
                      /\ backfill'.number <= counters'[p]
    BY <1>1 DEF CountersNeverLag, WellSeeded, BackfillNumberFromCounter, Coded
  <2>1. BackfillMint(id)
    BY DEF WellSeeded, BackfillMintLocally
  <2>2. backfill'.number = counters[p] + 1 /\ counters'[p] = counters[p] + 1
    BY <1>0, <1>3, <2>1 DEF BackfillMint, TypeOK
  <2>3. ASSUME NEW r \in Coded PROVE code[r] <= counters'[RowOf(r).prefix]
    <3>1. code[r] <= counters[RowOf(r).prefix] /\ code[r] \in Nat /\ r \in RowIds
      BY <1>0 DEF IInv, CountersNeverLag, Coded, TypeOK
    <3>2. RowOf(r).prefix \in Prefixes
      BY <1>0, <3>1, IdFacts DEF BackfillRows, Coded, Row
    <3>3. QED BY <1>0, <1>4, <3>1, <3>2, CountersGrow DEF TypeOK
  <2>4. QED BY <1>0, <1>3, <2>2, <2>3 DEF TypeOK
<1>6. QED BY <1>1, <1>2, <1>4, <1>5, QuietIInv

LEMMA AssignIInv ==
  ASSUME IInv, BackfillAssign, TypeOK'
  PROVE  IInv'
<1> DEFINE id == backfill.row
           p == RowOf(backfill.row).prefix
           n == backfill.number
<1>0. TypeOK /\ BackfillRows
  BY DEF IInv
<1>1. /\ backfill.stage = "minted" /\ id \in RowIds /\ n \in Nat
      /\ p # NoPrefix /\ p \in Prefixes
      /\ UNCHANGED <<contributions, counters, reply>>
  BY <1>0, BackfillShape, IdFacts DEF BackfillAssign, BackfillRows, Row
<1>2. /\ \A r \in RowIds : r # id => code'[r] = code[r]
      /\ \/ code' = code
         \/ code[id] = 0 /\ SameCode(p, n) = {} /\ code'[id] = n
  BY <1>0, <1>1 DEF BackfillAssign, TypeOK
<1>3. backfill' = Idle \/ /\ backfill'.stage = "scanned"
                          /\ backfill'.missing \subseteq backfill.missing
  BY DEF BackfillAssign, GoOnWith
<1>4. BackfillRows'
  BY <1>0, <1>1, <1>2, <1>3 DEF BackfillRows, Idle
<1>5. WholePayments' /\ IsFiniteSet(contributions)'
  BY <1>1 DEF IInv, WholePayments, Recorded
<1>6. UniqueCodes'
  <2> SUFFICES ASSUME NEW r \in Coded', NEW s \in Coded',
                      RowOf(r).prefix = RowOf(s).prefix, code'[r] = code'[s]
               PROVE  r = s
    BY DEF UniqueCodes
  <2>1. /\ r \in contributions /\ s \in contributions /\ r \in RowIds
        /\ s \in RowIds /\ code'[r] # 0 /\ code'[s] # 0
    BY <1>0, <1>1 DEF Coded, TypeOK
  <2>2. CASE code' = code
    BY <2>1, <2>2 DEF IInv, UniqueCodes, Coded
  <2>3. CASE SameCode(p, n) = {} /\ code'[id] = n
    <3>1. ASSUME NEW x \in contributions, x \in RowIds, x # id, code'[x] # 0,
                 RowOf(x).prefix = p
          PROVE  code'[x] # n
      BY <1>2, <2>3, <3>1 DEF SameCode, Coded
    <3>2. CASE r = id \/ s = id
      BY <2>1, <2>3, <3>1, <3>2
    <3>3. CASE r # id /\ s # id
      BY <1>2, <2>1, <3>3 DEF IInv, UniqueCodes, Coded
    <3>4. QED BY <3>2, <3>3
  <2>4. QED BY <1>2, <2>2, <2>3
<1>7. CountersNeverLag'
  <2> SUFFICES ASSUME WellSeeded, NEW r \in Coded'
               PROVE  code'[r] <= counters[RowOf(r).prefix]
    BY <1>1, <1>3 DEF CountersNeverLag, WellSeeded, BackfillNumberFromCounter,
                      Idle
  <2>1. r \in contributions /\ r \in RowIds /\ code'[r] # 0
    BY <1>0, <1>1 DEF Coded, TypeOK
  <2>2. n <= counters[p]
    BY <1>1 DEF IInv, CountersNeverLag, BackfillNumberFromCounter
  <2>3. ASSUME code'[r] = code[r] PROVE code'[r] <= counters[RowOf(r).prefix]
    BY <2>1, <2>3 DEF IInv, CountersNeverLag, Coded
  <2>4. CASE r = id
    BY <1>2, <2>2, <2>3, <2>4
  <2>5. CASE r # id
    BY <1>2, <2>1, <2>3, <2>5
  <2>6. QED BY <2>4, <2>5
<1>8. ToldMeansRecorded'
  BY <1>1 DEF IInv, ToldMeansRecorded, WellSeeded, Room, Minted
<1>9. QED BY <1>4, <1>5, <1>6, <1>7, <1>8 DEF IInv

\* A row passed over, or a script that stops, leaves what is stored alone.
LEMMA SkipIInv ==
  ASSUME IInv, TypeOK', BackfillStop \/ \E id \in RowIds : BackfillSkip(id)
  PROVE  IInv'
<1>1. /\ UNCHANGED <<contributions, code, counters, reply>>
      /\ \/ backfill' = Idle
         \/ /\ backfill.stage \in {"scanned", "minted"}
            /\ backfill'.stage = "scanned"
            /\ backfill'.missing \subseteq backfill.missing
  BY DEF BackfillSkip, BackfillStop, GoOnWith
<1>2. BackfillRows'
  BY <1>1 DEF IInv, BackfillRows, Idle
<1>3. CountersNeverLag'
  BY <1>1 DEF IInv, CountersNeverLag, Coded, BackfillNumberFromCounter,
              WellSeeded, Idle
<1>4. Next
  BY DEF Next
<1>5. QED BY <1>1, <1>2, <1>3, <1>4, QuietIInv

LEMMA StepIInv == IInv /\ [Next]_vars => IInv'
<1> SUFFICES ASSUME IInv, [Next]_vars PROVE IInv'
  OBVIOUS
<1>1. TypeOK'
  BY StepTypeOK DEF IInv
<1>2. ASSUME NEW ref \in References, Claim(ref) PROVE IInv'
  BY <1>1, <1>2, InsertsIInv, RefusalIInv DEF Claim
<1>3. ASSUME NEW cap \in CapChoices, NEW q \in [Tiers -> QuantityChoices],
             EditCollection(cap, q)
      PROVE  IInv'
  BY <1>1, <1>3, EditIInv
<1>4. CASE BackfillScan \/ BackfillAssign
  BY <1>1, <1>4, ScanIInv, AssignIInv
<1>5. ASSUME NEW id \in RowIds, BackfillMint(id) \/ BackfillMintLocally(id)
      PROVE  IInv'
  BY <1>1, <1>5, MintIInv
<1>6. CASE BackfillStop \/ \E id \in RowIds : BackfillSkip(id)
  BY <1>1, <1>6, SkipIInv
<1>7. CASE UNCHANGED vars
  BY <1>7 DEF vars, IInv, TypeOK, BackfillRows, WholePayments, Recorded,
              UniqueCodes, Coded, CountersNeverLag, BackfillNumberFromCounter,
              ToldMeansRecorded, WellSeeded, Room, Minted
<1>8. QED BY <1>2, <1>3, <1>4, <1>5, <1>6, <1>7 DEF Next

-----------------------------------------------------------------------------
(* The theorems.                                                           *)

\* The invariant holds in every reachable state.
THEOREM Invariance == Spec => []IInv
BY InitIInv, StepIInv, PTL DEF Spec

\* The tables and the script's memory keep their shape.
THEOREM TypeCorrectness == Spec => []TypeOK
<1>1. IInv => TypeOK BY DEF IInv
<1>2. QED BY <1>1, Invariance, PTL

\* No code is ever carried by two paid rows of a collection, for any payments,
\* any legacy codes and any moment at which the script runs.
THEOREM CodesUnique == Spec => []UniqueCodes
<1>1. IInv => UniqueCodes BY DEF IInv
<1>2. QED BY <1>1, Invariance, PTL

\* With seeded counters and an answering RPC, no counter is behind its codes.
THEOREM CountersLead == Spec => []CountersNeverLag
<1>1. IInv => CountersNeverLag BY DEF IInv
<1>2. QED BY <1>1, Invariance, PTL

\* With the code width not used up, a caller told that its payment is recorded
\* has every row of it recorded.
THEOREM ToldIsRecorded == Spec => []ToldMeansRecorded
<1>1. IInv => ToldMeansRecorded BY DEF IInv
<1>2. QED BY <1>1, Invariance, PTL

\* A claim never takes a collection past the cap in force when it commits.
THEOREM CapRespected == Spec => ClaimsFitCap
<1>1. IInv /\ [Next]_vars =>
        [contributions' # contributions /\ maxContributions > 0
           => Cardinality(contributions') <= maxContributions]_vars
  <2> SUFFICES ASSUME IInv, Next, contributions' # contributions,
                      maxContributions > 0
               PROVE  Cardinality(contributions') <= maxContributions
    BY DEF vars
  <2>1. PICK ref \in References : ClaimInserts(ref)
    BY DEF Next, Claim, ClaimKnown, ClaimCollectionFull, ClaimTierFull,
           ClaimCollides, Refuse, EditCollection, BackfillScan, BackfillMint,
           BackfillMintLocally, BackfillAssign, BackfillSkip, BackfillStop
  <2>2. /\ IsFiniteSet(contributions) /\ Cardinality(contributions) \in Nat
        /\ IsFiniteSet(Lines(ref)) /\ Cardinality(Lines(ref)) = Len(Rows[ref])
    BY LinesFinite, FS_CardinalityType DEF IInv
  <2>3. contributions \cap Lines(ref) = {}
    BY <2>1 DEF ClaimInserts, Admitted, Recorded
  <2>4. Cardinality(contributions') =
          Cardinality(contributions) + Len(Rows[ref]) - 0
    <3>1. contributions' = contributions \cup Lines(ref)
      BY <2>1 DEF ClaimInserts
    <3>2. Cardinality(contributions \cup Lines(ref)) =
            Cardinality(contributions) + Cardinality(Lines(ref))
              - Cardinality(contributions \cap Lines(ref))
      BY <2>2, FS_Union
    <3>3. Cardinality(contributions \cap Lines(ref)) = 0
      BY <2>3, FS_EmptySet
    <3>4. QED BY <2>2, <3>1, <3>2, <3>3
  <2>5. ~(Cardinality(contributions) + Len(Rows[ref]) > maxContributions)
    BY <2>1 DEF ClaimInserts, Admitted, CollectionFull
  <2>6. maxContributions \in Nat /\ Len(Rows[ref]) \in Nat
    BY RowFacts, ConstantsAssumption DEF IInv, TypeOK
  <2>7. QED BY <2>2, <2>4, <2>5, <2>6
<1>2. QED BY <1>1, Invariance, PTL DEF Spec, ClaimsFitCap

LEMMA SoldIsNat ==
  ASSUME IInv, NEW t, NEW by
  PROVE  Sold(contributions, t, by) \in Nat
<1> DEFINE S == KeyRows(contributions, t, by)
<1>1. S \subseteq contributions /\ S \subseteq RowIds /\ IsFiniteSet(S)
  BY FS_Subset DEF KeyRows, IInv, TypeOK
<1>2. \A id \in RowIds : RowOf(id) \in Row
  BY IdFacts
<1>3. \A id \in RowIds : RowOf(id).quantity \in Nat
  BY <1>2 DEF Row
<1>4. \A id \in S : Quantities[id] \in Nat
  BY <1>1, <1>3 DEF Quantities
<1> HIDE DEF S
<1>5. SumFunctionOnSet(Quantities, S) \in Nat
  BY <1>1, <1>4, SumNat
<1> QED
  BY <1>5 DEF S, Sold

\* Each key on its own: what the claim counts and compares.
LEMMA KeyFits ==
  ASSUME IInv, NEW ref \in References, ClaimInserts(ref), NEW t \in Tiers,
         NEW by \in {"id", "name"}, quantity[t] # Unlimited
  PROVE  /\ Sold(contributions, t, by) \in Nat /\ Sold(contributions', t, by) \in Nat
         /\ Sold(contributions', t, by) > Sold(contributions, t, by)
              => Sold(contributions', t, by) <= quantity[t]
<1> DEFINE Old == KeyRows(contributions, t, by)
           New == KeyRows(Lines(ref), t, by)
<1>1. /\ contributions' = contributions \cup Lines(ref)
      /\ contributions \cap Lines(ref) = {}
  BY DEF ClaimInserts, Admitted, Recorded
<1>2. KeyRows(contributions', t, by) = Old \cup New
  BY <1>1 DEF KeyRows
<1>3. Old \cap New = {}
  BY <1>1 DEF KeyRows
<1>4. IsFiniteSet(Old) /\ IsFiniteSet(New)
  <2>1. IsFiniteSet(contributions) /\ IsFiniteSet(Lines(ref))
    BY LinesFinite DEF IInv
  <2>2. Old \subseteq contributions /\ New \subseteq Lines(ref)
    BY DEF KeyRows
  <2> QED
    BY <2>1, <2>2, FS_Subset
<1>5. \A id \in Old \cup New : Quantities[id] \in Nat
  <2>1. Old \subseteq RowIds /\ New \subseteq RowIds
    BY IdFacts DEF KeyRows, IInv, TypeOK
  <2>2. \A id \in RowIds : RowOf(id) \in Row
    BY IdFacts
  <2>3. \A id \in RowIds : RowOf(id).quantity \in Nat
    BY <2>2 DEF Row
  <2> QED
    BY <2>1, <2>3 DEF Quantities
<1> HIDE DEF Old, New
<1>6. SumFunctionOnSet(Quantities, Old \cup New)
        = SumFunctionOnSet(Quantities, Old) + SumFunctionOnSet(Quantities, New)
  BY <1>3, <1>4, <1>5, SumDisjoint
<1>7. SumFunctionOnSet(Quantities, Old) \in Nat /\ SumFunctionOnSet(Quantities, New) \in Nat
  BY <1>4, <1>5, SumNat
<1>8. /\ Sold(contributions, t, by) = SumFunctionOnSet(Quantities, Old)
      /\ Claims(ref, t, by) = SumFunctionOnSet(Quantities, New)
  BY DEF Sold, Claims, Old, New
<1>9. Sold(contributions', t, by) = Sold(contributions, t, by) + Claims(ref, t, by)
  <2>1. Sold(contributions', t, by) = SumFunctionOnSet(Quantities, KeyRows(contributions', t, by))
    BY DEF Sold
  <2> QED
    BY <2>1, <1>2, <1>6, <1>8
<1>10. ~TierFull(ref)
  BY DEF ClaimInserts, Admitted
<1>11. Claims(ref, t, by) > 0 => ~(Sold(contributions, t, by) + Claims(ref, t, by) > quantity[t])
  BY <1>10 DEF TierFull
<1>12. quantity[t] \in Int
  <2>1. quantity[t] \in QuantityChoices
    BY DEF IInv, TypeOK
  <2>2. Unlimited \in Int
    BY DEF Unlimited
  <2>3. QuantityChoices \subseteq Nat \cup {Unlimited}
    BY ConstantsAssumption
  <2>4. \A q \in QuantityChoices : q \in Int
    BY <2>2, <2>3
  <2> QED
    BY <2>1, <2>4
<1> QED
  BY <1>7, <1>8, <1>9, <1>11, <1>12

\* A claim never leaves a tier it sold above the quantity in force, counted over both
\* ways a row can name its tier, as long as no tier is named in both.
THEOREM TiersRespected ==
  ASSUME NamedOneWay PROVE Spec => ClaimsFitTiers
<1> DEFINE Both(rows, t) == Sold(rows, t, "id") + Sold(rows, t, "name")
<1>1. ASSUME IInv, [Next]_vars, NEW t \in Tiers, quantity[t] # Unlimited,
             Both(contributions', t) > Both(contributions, t)
      PROVE  Both(contributions', t) <= quantity[t]
  <2>1. contributions' # contributions
    <3>1. ASSUME contributions' = contributions PROVE FALSE
      <4>1. Both(contributions', t) = Both(contributions, t)
        BY <3>1
      <4>2. Both(contributions, t) \in Nat
        BY <1>1, SoldIsNat
      <4> HIDE DEF Both
      <4> QED
        BY <1>1, <4>1, <4>2
    <3> QED
      BY <3>1
  <2>2. PICK ref \in References : ClaimInserts(ref)
    BY <1>1, <2>1 DEF Next, Claim, ClaimKnown, ClaimCollectionFull, ClaimTierFull,
           ClaimCollides, Refuse, EditCollection, BackfillScan, BackfillMint,
           BackfillMintLocally, BackfillAssign, BackfillSkip, BackfillStop, vars
  <2>3. contributions \subseteq RowIds /\ contributions' \subseteq RowIds
    BY <1>1, <2>2, IdFacts DEF ClaimInserts, IInv, TypeOK
  <2>4. PICK by \in {"id", "name"} :
          \A other \in {"id", "name"} \ {by} : \A id \in RowIds : ~(RowOf(id).tier = t /\ RowOf(id).by = other)
    BY NamedOneWay, ConstantsAssumption DEF NamedOneWay
  <2>5. ASSUME NEW other \in {"id", "name"} \ {by}
        PROVE  Sold(contributions, t, other) = 0 /\ Sold(contributions', t, other) = 0
    <3>1. KeyRows(contributions, t, other) = {} /\ KeyRows(contributions', t, other) = {}
      BY <2>3, <2>4, <2>5 DEF KeyRows
    <3> QED
      BY <3>1, SumEmpty DEF Sold
  <2>6. /\ Sold(contributions, t, by) \in Nat /\ Sold(contributions', t, by) \in Nat
        /\ Sold(contributions', t, by) > Sold(contributions, t, by)
              => Sold(contributions', t, by) <= quantity[t]
    BY <1>1, <2>2, KeyFits
  <2>7. /\ Both(contributions, t) = Sold(contributions, t, by)
        /\ Both(contributions', t) = Sold(contributions', t, by)
    BY <2>5, <2>6
  <2> QED
    BY <1>1, <2>6, <2>7
<1>2. IInv /\ [Next]_vars =>
        [\A t \in Tiers :
           LET sold(rows) == Sold(rows, t, "id") + Sold(rows, t, "name") IN
           quantity[t] # Unlimited /\ sold(contributions') > sold(contributions)
             => sold(contributions') <= quantity[t]]_vars
  BY <1>1
<1> QED
  BY <1>2, Invariance, PTL DEF Spec, ClaimsFitTiers

-----------------------------------------------------------------------------
(* Codes are forever.                                                      *)

\* Only paid rows have codes, and only paid rows are on the script's list.
CodesOfPaidRows ==
  /\ \A id \in RowIds : code[id] # 0 => id \in contributions
  /\ backfill.stage \in {"scanned", "minted"} => backfill.missing \subseteq contributions
  /\ backfill.stage = "minted" => backfill.row \in contributions

LEMMA InitCodesOfPaidRows == Init => CodesOfPaidRows
BY IdFacts DEF Init, CodesOfPaidRows, Idle

\* What one step does to the paid rows and their codes.
LEMMA StepKeepsCodes ==
  ASSUME TypeOK, CodesOfPaidRows, Next
  PROVE  /\ contributions \subseteq contributions'
         /\ \A id \in RowIds : code[id] # 0 => code'[id] = code[id]
         /\ \A id \in RowIds : code'[id] # 0 => id \in contributions'
<1>1. ASSUME NEW ref \in References, ClaimInserts(ref)
      PROVE  /\ contributions \subseteq contributions'
             /\ \A id \in RowIds : code[id] # 0 => code'[id] = code[id]
             /\ \A id \in RowIds : code'[id] # 0 => id \in contributions'
  <2>1. /\ contributions' = contributions \cup Lines(ref)
        /\ \A id \in RowIds :
             code'[id] = IF id[1] = ref THEN NewCode(ref, id[2]) ELSE code[id]
        /\ contributions \cap Lines(ref) = {}
    BY <1>1 DEF ClaimInserts, Admitted, Recorded
  <2>2. \A id \in RowIds : id[1] = ref => id \in Lines(ref)
    BY IdFacts DEF Lines
  <2>3. QED BY <2>1, <2>2 DEF CodesOfPaidRows
<1>2. CASE BackfillAssign
  <2>1. /\ contributions' = contributions
        /\ backfill.row \in contributions
        /\ \/ code' = code
           \/ /\ code[backfill.row] = 0
              /\ code' = [code EXCEPT ![backfill.row] = backfill.number]
    BY <1>2 DEF BackfillAssign, CodesOfPaidRows
  <2>2. code \in [RowIds -> Nat]
    BY DEF TypeOK
  <2>3. QED BY <2>1, <2>2 DEF CodesOfPaidRows
<1>3. CASE UNCHANGED <<contributions, code>>
  BY <1>3 DEF CodesOfPaidRows
<1>4. QED BY <1>1, <1>2, <1>3
  DEF Next, Claim, ClaimKnown, ClaimCollectionFull, ClaimTierFull, ClaimCollides,
      Refuse, EditCollection, BackfillScan, BackfillMint, BackfillMintLocally,
      BackfillSkip, BackfillStop

LEMMA StepCodesOfPaidRows ==
  TypeOK /\ CodesOfPaidRows /\ [Next]_vars => CodesOfPaidRows'
<1> SUFFICES ASSUME TypeOK, CodesOfPaidRows, [Next]_vars PROVE CodesOfPaidRows'
  OBVIOUS
<1>1. CASE UNCHANGED vars
  BY <1>1 DEF vars, CodesOfPaidRows
<1>2. CASE Next
  <2>1. /\ contributions \subseteq contributions'
        /\ \A id \in RowIds : code'[id] # 0 => id \in contributions'
    BY <1>2, StepKeepsCodes
  <2>2. \/ UNCHANGED backfill
        \/ backfill' = Idle
        \/ backfill'.stage = "scanned" /\ backfill'.missing = MissingCode
        \/ /\ backfill.stage \in {"scanned", "minted"}
           /\ backfill'.stage = "scanned"
           /\ backfill'.missing \subseteq backfill.missing
        \/ /\ backfill.stage = "scanned" /\ backfill'.stage = "minted"
           /\ backfill'.missing = backfill.missing
           /\ backfill'.row \in backfill.missing
    BY <1>2 DEF Next, Claim, ClaimKnown, ClaimCollectionFull, ClaimTierFull,
         ClaimCollides, ClaimInserts, Answer, Refuse, EditCollection, BackfillScan,
         BackfillMint, BackfillMintLocally, BackfillAssign, BackfillSkip,
         BackfillStop, GoOnWith
  <2>3. MissingCode \subseteq contributions
    BY DEF MissingCode
  <2>4. QED BY <2>1, <2>2, <2>3 DEF CodesOfPaidRows, Idle
<1>3. QED BY <1>1, <1>2

\* A code once written stays as it is, and no paid row is lost: a claim never
\* meets a row that has a code, and the script only fills an empty one.
THEOREM CodesPermanent == Spec => CodesAreForever
<1>1. Spec => []CodesOfPaidRows
  BY InitCodesOfPaidRows, StepCodesOfPaidRows, TypeCorrectness, PTL DEF Spec
<1>2. TypeOK /\ CodesOfPaidRows /\ [Next]_vars =>
        [/\ contributions \subseteq contributions'
         /\ \A id \in RowIds : code[id] # 0 => code'[id] = code[id]]_vars
  BY StepKeepsCodes
<1>3. QED BY <1>1, <1>2, TypeCorrectness, PTL DEF Spec, CodesAreForever

-----------------------------------------------------------------------------
(* Claims that interleave statement by statement are claims in one step.   *)

\* At most one transaction holds the collection row.
OneInTx == \A s, t \in Sessions : InTx(s) /\ InTx(t) => s = t

\* The unique index lets row i of ref pass.
Passes(ref, i) ==
  LET n == NewCode(ref, i) IN
  n # 0 => /\ SameCode(Rows[ref][i].prefix, n) = {}
           /\ \A j \in 1..(i - 1) : Rows[ref][j].prefix = Rows[ref][i].prefix
                => NewCode(ref, j) # n

\* The rows minted so far carry the codes the claim in one step would give them now,
\* and those inserted so far would pass the index now.
Written(s) ==
  LET ref == tx[s].ref
      line == tx[s].line
      codes == tx[s].codes
  IN  /\ DOMAIN codes = 1..(IF tx[s].at = "inserting" THEN line ELSE line - 1)
      /\ line <= Len(Rows[ref]) + (IF tx[s].at = "inserting" THEN 0 ELSE 1)
      /\ \A i \in DOMAIN codes : codes[i] = NewCode(ref, i)
      /\ \A i \in 1..(line - 1) : Passes(ref, i)

\* What a transaction has found is still so.
Knows(s) ==
  /\ tx[s].at \in {"locked", "new"} =>
       tx[s].cap = maxContributions /\ tx[s].tiers = quantity
  /\ tx[s].at \in {"new", "minting", "inserting"} => ~Recorded(tx[s].ref)
  /\ tx[s].at \in {"minting", "inserting"} =>
       ~CollectionFull(tx[s].ref) /\ ~TierFull(tx[s].ref) /\ Written(s)

TxHeld ==
  /\ tx \in [Sessions -> Txs]
  /\ OneInTx
  /\ \A s \in Sessions : Knows(s)

TxInv == IInv /\ TxHeld

\* What a transaction's findings are read from.
tables == <<contributions, code, counters, maxContributions, quantity>>

LEMMA TxFacts ==
  ASSUME tx \in [Sessions -> Txs], NEW s \in Sessions
  PROVE  /\ tx[s] \in Txs
         /\ tx[s].at \in {"idle", "waiting", "locked", "new", "minting", "inserting"}
         /\ tx[s].at # "idle" => tx[s].ref \in References
         /\ tx[s].at \in {"locked", "new"} =>
              tx[s] \in [at : {"locked", "new"}, ref : References, cap : CapChoices,
                         tiers : [Tiers -> QuantityChoices]]
         /\ tx[s].at \in {"minting", "inserting"} =>
              tx[s] \in [at : {"minting", "inserting"}, ref : References, line : Nat \ {0},
                         codes : Seq(Nat)]
BY DEF Txs, NoTx

\* What a transaction has found rests on these tables and on where it stands.
LEMMA KnowsKept ==
  ASSUME NEW t, tx'[t] = tx[t], UNCHANGED tables, Knows(t)
  PROVE  Knows(t)'
<1> USE DEF tables
<1>1. ASSUME NEW ref
      PROVE  /\ Recorded(ref)' <=> Recorded(ref)
             /\ CollectionFull(ref)' <=> CollectionFull(ref)
             /\ TierFull(ref)' <=> TierFull(ref)
             /\ \A i : NewCode(ref, i)' = NewCode(ref, i)
             /\ \A i : Passes(ref, i)' <=> Passes(ref, i)
  <2>1. Recorded(ref)' <=> Recorded(ref)
    BY DEF Recorded
  <2>2. CollectionFull(ref)' <=> CollectionFull(ref)
    BY DEF CollectionFull
  <2>3. TierFull(ref)' <=> TierFull(ref)
    BY DEF TierFull, Sold, KeyRows
  <2>4. \A i : NewCode(ref, i)' = NewCode(ref, i)
    BY DEF NewCode, Minted
  <2>5. \A p, n : SameCode(p, n)' = SameCode(p, n)
    BY DEF SameCode, Coded
  <2>6. \A i : Passes(ref, i)' <=> Passes(ref, i)
    BY <2>4, <2>5 DEF Passes
  <2> QED
    BY <2>1, <2>2, <2>3, <2>4, <2>6
<1>2. Written(t)' <=> Written(t)
  BY <1>1 DEF Written
<1> QED
  BY <1>1, <1>2 DEF Knows

LEMMA SessionMoves ==
  ASSUME TxHeld, NEW s \in Sessions, NEW r \in Txs, Move(s, r),
         UNCHANGED tables \/ InTx(s),
         r.at \in {"idle", "waiting"} \/ LockFree \/ InTx(s),
         Knows(s)'
  PROVE  TxHeld'
<1>1. /\ tx' \in [Sessions -> Txs] /\ tx'[s] = r
      /\ \A t \in Sessions \ {s} : tx'[t] = tx[t]
  BY DEF Move, TxHeld
<1>2. OneInTx'
  <2>1. \A t \in Sessions \ {s} : InTx(t)' <=> InTx(t)
    BY <1>1 DEF InTx
  <2>2. InTx(s)' => InTx(s) \/ LockFree
    BY <1>1 DEF InTx
  <2> QED
    BY <2>1, <2>2 DEF OneInTx, TxHeld, LockFree
<1>3. ASSUME NEW t \in Sessions \ {s} PROVE Knows(t)'
  <2>1. CASE UNCHANGED tables
    BY <1>1, <2>1, KnowsKept DEF TxHeld
  <2>2. CASE InTx(s)
    <3>1. tx'[t].at \in {"idle", "waiting"}
      BY <1>1, <2>2 DEF TxHeld, OneInTx, InTx
    <3> QED
      BY <3>1 DEF Knows
  <2> QED
    BY <2>1, <2>2
<1> QED
  BY <1>1, <1>2, <1>3 DEF TxHeld

\* A handler that leaves or waits has found nothing.
LEMMA Outside ==
  ASSUME TxHeld, NEW s \in Sessions, NEW r \in Txs, Move(s, r), r.at \in {"idle", "waiting"}
  PROVE  Knows(s)'
BY DEF TxHeld, Move, Knows

LEMMA Returns ==
  ASSUME TxHeld, NEW s \in Sessions, NEW outcome, Return(s, outcome)
  PROVE  TxHeld' /\ Refuse(tx[s].ref, outcome)
<1>1. NoTx \in Txs /\ NoTx.at = "idle" /\ Move(s, NoTx)
  BY DEF Txs, NoTx, Return, Leave
<1>2. UNCHANGED tables
  BY DEF Return, tables
<1> QED
  BY <1>1, <1>2, Outside, SessionMoves DEF Return, Refuse, Answer

\* Before anything is written: Begin, the lock, the replay check and the capacity.
LEMMA BeginHeld ==
  ASSUME TxInv, NEW s \in Sessions, NEW ref \in References, Begin(s, ref)
  PROVE  TxHeld' /\ UNCHANGED vars
<1> DEFINE r == [at |-> "waiting", ref |-> ref]
<1>1. r \in Txs /\ r.at = "waiting" /\ Move(s, r)
  BY DEF Txs, Begin
<1>2. UNCHANGED tables /\ UNCHANGED vars
  BY DEF Begin, tables, vars
<1> HIDE DEF r
<1> QED
  BY <1>1, <1>2, Outside, SessionMoves DEF TxInv

LEMMA LockHeld ==
  ASSUME TxInv, NEW s \in Sessions, LockCollection(s)
  PROVE  TxHeld' /\ UNCHANGED vars
<1> DEFINE r == [at |-> "locked", ref |-> tx[s].ref, cap |-> maxContributions, tiers |-> quantity]
<1>1. tx[s].ref \in References
  BY TxFacts DEF TxInv, TxHeld, LockCollection
<1>2. r \in Txs
  BY <1>1 DEF Txs, TxInv, IInv, TypeOK
<1>3. /\ r.at = "locked" /\ r.ref = tx[s].ref /\ r.cap = maxContributions
      /\ r.tiers = quantity /\ Move(s, r)
  BY DEF LockCollection
<1>4. LockFree /\ UNCHANGED tables /\ UNCHANGED vars
  BY DEF LockCollection, tables, vars
<1> HIDE DEF r
<1>5. tx'[s] = r
  BY <1>3 DEF Move, TxInv, TxHeld
<1>6. Knows(s)'
  BY <1>3, <1>4, <1>5 DEF Knows, tables
<1> QED
  BY <1>2, <1>3, <1>4, <1>6, SessionMoves DEF TxInv

LEMMA FindHeld ==
  ASSUME TxInv, NEW s \in Sessions, FindExisting(s)
  PROVE  TxHeld' /\ (UNCHANGED vars \/ \E ref \in References : Claim(ref))
<1>1. tx[s].at = "locked" /\ tx[s].ref \in References /\ TxHeld
  BY TxFacts DEF FindExisting, TxInv, TxHeld
<1>2. CASE Recorded(tx[s].ref)
  <2>1. Return(s, "idempotent")
    BY <1>2 DEF FindExisting
  <2> QED
    BY <1>1, <1>2, <2>1, Returns DEF Claim, ClaimKnown
<1>3. CASE ~Recorded(tx[s].ref)
  <2> DEFINE r == [tx[s] EXCEPT !.at = "new"]
  <2>1. tx[s] \in [at : {"locked", "new"}, ref : References, cap : CapChoices,
                   tiers : [Tiers -> QuantityChoices]]
    BY <1>1, TxFacts DEF TxHeld
  <2>2. /\ r \in Txs /\ r.at = "new" /\ r.ref = tx[s].ref /\ r.cap = tx[s].cap
        /\ r.tiers = tx[s].tiers
    BY <2>1 DEF Txs
  <2>3. Move(s, r) /\ UNCHANGED vars /\ UNCHANGED tables /\ InTx(s)
    BY <1>1, <1>3 DEF FindExisting, tables, vars, InTx
  <2> HIDE DEF r
  <2>4. tx'[s] = r
    BY <1>1, <2>3 DEF Move, TxHeld
  <2>5. \A ref : Recorded(ref)' <=> Recorded(ref)
    BY <2>3 DEF Recorded, tables
  <2>6. PICK ref : ref = tx[s].ref /\ ~Recorded(ref)
    BY <1>3
  <2>7. Knows(s)'
    <3>1. tx[s].cap = maxContributions /\ tx[s].tiers = quantity
      BY <1>1 DEF TxHeld, Knows
    <3>2. tx'[s].at = "new" /\ tx'[s].ref = ref /\ ~Recorded(ref)'
      BY <2>2, <2>4, <2>5, <2>6
    <3> QED
      BY <2>2, <2>3, <2>4, <3>1, <3>2 DEF Knows, tables
  <2> QED
    BY <1>1, <2>2, <2>3, <2>7, SessionMoves
<1> QED
  BY <1>2, <1>3

LEMMA CapacityHeld ==
  ASSUME TxInv, NEW s \in Sessions, CheckCapacity(s)
  PROVE  TxHeld' /\ (UNCHANGED vars \/ \E ref \in References : Claim(ref))
<1>1. PICK ref \in References : ref = tx[s].ref
  BY TxFacts DEF CheckCapacity, TxInv, TxHeld
<1>2. /\ tx[s].at = "new" /\ TxHeld /\ InTx(s) /\ ~Recorded(ref)
      /\ tx[s].cap = maxContributions /\ tx[s].tiers = quantity
  BY <1>1 DEF CheckCapacity, TxInv, TxHeld, Knows, InTx
<1>3. OverCap(s) <=> CollectionFull(ref)
  BY <1>1, <1>2 DEF OverCap, CollectionFull
<1>4. OverTier(s) <=> TierFull(ref)
  BY <1>1, <1>2 DEF OverTier, TierFull
<1>5. CASE OverCap(s)
  <2>1. Return(s, "collection_full")
    BY <1>5 DEF CheckCapacity
  <2> QED
    BY <1>1, <1>2, <1>3, <1>5, <2>1, Returns DEF Claim, ClaimCollectionFull
<1>6. CASE ~OverCap(s) /\ OverTier(s)
  <2>1. Return(s, "tier_full")
    BY <1>6 DEF CheckCapacity
  <2> QED
    BY <1>1, <1>2, <1>3, <1>4, <1>6, <2>1, Returns DEF Claim, ClaimTierFull
<1>7. CASE ~OverCap(s) /\ ~OverTier(s)
  <2> DEFINE r == [at |-> "minting", ref |-> ref, line |-> 1, codes |-> << >>]
  <2>1. Move(s, r) /\ UNCHANGED vars /\ UNCHANGED tables
    BY <1>1, <1>7 DEF CheckCapacity, tables, vars
  <2>2. /\ r \in Txs /\ r.at = "minting" /\ r.ref = ref /\ r.line = 1 /\ r.codes = << >>
    BY DEF Txs
  <2> HIDE DEF r
  <2>3. tx'[s] = r
    BY <1>2, <2>1 DEF Move, TxHeld
  <2>4. ~Recorded(ref)' /\ ~CollectionFull(ref)' /\ ~TierFull(ref)'
    BY <1>2, <1>3, <1>4, <1>7, <2>1 DEF tables, Recorded, CollectionFull, TierFull, Sold, KeyRows
  <2>5. Written(s)'
    <3>1. Len(Rows[ref]) \in Nat
      BY RowFacts
    <3>2. /\ tx'[s].at = "minting" /\ tx'[s].line = 1 /\ tx'[s].codes = << >>
          /\ tx'[s].ref = ref
      BY <2>2, <2>3
    <3>3. DOMAIN tx'[s].codes = {} /\ 1..(1 - 1) = {}
      BY <3>2
    <3>4. 1 <= Len(Rows[ref]) + 1
      BY <3>1
    <3> QED
      BY <3>2, <3>3, <3>4 DEF Written
  <2>6. Knows(s)'
    BY <2>2, <2>3, <2>4, <2>5 DEF Knows
  <2> QED
    BY <1>2, <2>1, <2>2, <2>6, SessionMoves
<1> QED
  BY <1>5, <1>6, <1>7

\* The rows of one prefix among the first i, one by one.
LEMMA SamePrefixNext ==
  ASSUME NEW ref \in References, NEW i \in Nat \ {0}, NEW p
  PROVE  Cardinality(SamePrefix(ref, i, p)) =
           Cardinality(SamePrefix(ref, i - 1, p)) + (IF Rows[ref][i].prefix = p THEN 1 ELSE 0)
<1>1. /\ IsFiniteSet(SamePrefix(ref, i - 1, p))
      /\ Cardinality(SamePrefix(ref, i - 1, p)) \in Nat
      /\ i \notin SamePrefix(ref, i - 1, p)
  <2>1. i - 1 \in Nat
    OBVIOUS
  <2>2. i \notin SamePrefix(ref, i - 1, p)
    BY DEF SamePrefix
  <2> QED
    BY <2>1, <2>2, SamePrefixFacts
<1>2. CASE Rows[ref][i].prefix = p
  <2>1. SamePrefix(ref, i, p) = SamePrefix(ref, i - 1, p) \cup {i}
    BY <1>2 DEF SamePrefix
  <2> QED
    BY <1>1, <1>2, <2>1, FS_AddElement
<1>3. CASE Rows[ref][i].prefix # p
  <2>1. SamePrefix(ref, i, p) = SamePrefix(ref, i - 1, p)
    BY <1>3 DEF SamePrefix
  <2> QED
    BY <1>1, <1>3, <2>1
<1> QED
  BY <1>2, <1>3

\* A transaction that has written: its record, and what it has bumped.
LEMMA WritingFacts ==
  ASSUME TxHeld, NEW s \in Sessions, tx[s].at \in {"minting", "inserting"}
  PROVE  /\ tx[s].ref \in References /\ tx[s].line \in Nat \ {0} /\ tx[s].codes \in Seq(Nat)
         /\ Len(tx[s].codes) = IF tx[s].at = "inserting" THEN tx[s].line ELSE tx[s].line - 1
         /\ DOMAIN tx[s].codes = 1..Len(tx[s].codes)
         /\ Len(tx[s].codes) <= Len(Rows[tx[s].ref])
         /\ \A p : Bumped(s, p) = Cardinality(SamePrefix(tx[s].ref, Len(tx[s].codes), p))
         /\ Written(s) /\ InTx(s)
         /\ ~Recorded(tx[s].ref) /\ ~CollectionFull(tx[s].ref) /\ ~TierFull(tx[s].ref)
<1>1. /\ tx[s].ref \in References /\ tx[s].line \in Nat \ {0} /\ tx[s].codes \in Seq(Nat)
  BY TxFacts DEF TxHeld
<1>2. Written(s) /\ ~Recorded(tx[s].ref) /\ ~CollectionFull(tx[s].ref) /\ ~TierFull(tx[s].ref)
  BY DEF TxHeld, Knows
<1>3. PICK ref, line, codes, n : ref = tx[s].ref /\ line = tx[s].line /\ codes = tx[s].codes
        /\ n = IF tx[s].at = "inserting" THEN tx[s].line ELSE tx[s].line - 1
  OBVIOUS
<1>4. n \in Nat /\ DOMAIN codes = 1..n
  BY <1>1, <1>2, <1>3 DEF Written
<1>5. Len(codes) = n
  BY <1>1, <1>3, <1>4
<1>6. Len(Rows[ref]) \in Nat
  BY <1>1, <1>3, RowFacts
<1>7. n <= Len(Rows[ref])
  <2>1. line <= Len(Rows[ref]) + (IF tx[s].at = "inserting" THEN 0 ELSE 1)
    BY <1>2, <1>3 DEF Written
  <2>2. CASE tx[s].at = "inserting"
    BY <1>3, <1>6, <2>1, <2>2
  <2>3. CASE tx[s].at # "inserting"
    <3>1. n = line - 1 /\ line <= Len(Rows[ref]) + 1 /\ line \in Int
      BY <1>1, <1>3, <2>1, <2>3
    <3> QED
      BY <1>6, <3>1
  <2> QED
    BY <2>2, <2>3
<1>8. \A p : Bumped(s, p) = Cardinality(SamePrefix(ref, n, p))
  BY <1>3, <1>4 DEF Bumped, SamePrefix
<1> QED
  BY <1>1, <1>2, <1>3, <1>4, <1>5, <1>7, <1>8 DEF InTx

LEMMA MintHeld ==
  ASSUME TxInv, NEW s \in Sessions, MintRow(s)
  PROVE  TxHeld' /\ UNCHANGED vars
<1>1. TxHeld /\ tx[s].at = "minting" /\ UNCHANGED vars /\ UNCHANGED tables
  BY DEF TxInv, MintRow, vars, tables
<1>2. PICK ref, line, codes, p : ref = tx[s].ref /\ line = tx[s].line /\ codes = tx[s].codes
        /\ p = Rows[ref][line].prefix
  OBVIOUS
<1>3. /\ ref \in References /\ line \in Nat \ {0} /\ codes \in Seq(Nat)
      /\ Len(codes) = line - 1 /\ Written(s) /\ InTx(s)
      /\ ~Recorded(ref) /\ ~CollectionFull(ref) /\ ~TierFull(ref)
      /\ Bumped(s, p) = Cardinality(SamePrefix(ref, line - 1, p))
  BY <1>1, <1>2, WritingFacts
<1>4. line <= Len(Rows[ref]) /\ line \in DOMAIN Rows[ref] /\ Len(Rows[ref]) \in Nat
  BY <1>2, <1>3, RowFacts DEF MintRow
<1> DEFINE n == IF p = NoPrefix THEN 0 ELSE LPad(counters[p] + Bumped(s, p) + 1)
           more == Append(codes, n)
           r == [tx[s] EXCEPT !.at = "inserting", !.codes = more]
<1>5. n = NewCode(ref, line)
  <2>1. CASE p = NoPrefix
    BY <1>2, <2>1 DEF NewCode
  <2>2. CASE p # NoPrefix
    <3>1. counters[p] \in Nat
      <4>1. p \in Prefixes
        BY <1>2, <1>3, <1>4, <2>2, RowFacts DEF Row
      <4> QED
        BY <4>1 DEF TxInv, IInv, TypeOK
    <3>2. Cardinality(SamePrefix(ref, line, p)) = Cardinality(SamePrefix(ref, line - 1, p)) + 1
      BY <1>2, <1>3, SamePrefixNext
    <3>3. Cardinality(SamePrefix(ref, line - 1, p)) \in Nat
      BY <1>3, SamePrefixFacts
    <3>4. Minted(ref, line) = counters[p] + Cardinality(SamePrefix(ref, line, p))
      BY <1>2 DEF Minted, SamePrefix
    <3>5. counters[p] + Bumped(s, p) + 1 = Minted(ref, line)
      <4>1. PICK c, b, k : /\ c = counters[p] /\ k = Cardinality(SamePrefix(ref, line, p))
                           /\ b = Cardinality(SamePrefix(ref, line - 1, p))
        OBVIOUS
      <4>2. c \in Nat /\ b \in Nat /\ k = b + 1
        BY <3>1, <3>2, <3>3, <4>1
      <4>3. Bumped(s, p) = b /\ Minted(ref, line) = c + k
        BY <1>3, <3>4, <4>1
      <4>4. c + b + 1 = c + k
        BY <4>2
      <4> QED
        BY <4>1, <4>3, <4>4
    <3> QED
      BY <1>2, <2>2, <3>5 DEF NewCode
  <2> QED
    BY <2>1, <2>2
<1>6. n \in Nat
  BY <1>3, <1>4, <1>5, NewCodeType DEF TxInv, IInv
<1>7. Move(s, r)
  BY <1>2 DEF MintRow
<1> HIDE DEF n
<1>8. more \in Seq(Nat) /\ Len(more) = line /\ DOMAIN more = 1..line /\ more[line] = n
      /\ \A i \in 1..(line - 1) : more[i] = codes[i]
  BY <1>3, <1>6
<1> HIDE DEF more
<1>9. /\ r \in Txs /\ r.at = "inserting" /\ r.ref = ref /\ r.line = line /\ r.codes = more
  <2>1. tx[s] \in [at : {"minting", "inserting"}, ref : References, line : Nat \ {0}, codes : Seq(Nat)]
    BY <1>1, TxFacts DEF TxHeld
  <2> QED
    BY <1>2, <1>8, <2>1 DEF Txs
<1> HIDE DEF r
<1>10. tx'[s] = r
  BY <1>1, <1>7 DEF Move, TxHeld
<1>11. ASSUME NEW i
       PROVE  NewCode(ref, i)' = NewCode(ref, i) /\ (Passes(ref, i)' <=> Passes(ref, i))
  <2>1. \A j : NewCode(ref, j)' = NewCode(ref, j)
    BY <1>1 DEF tables, NewCode, Minted
  <2>2. \A q, m : SameCode(q, m)' = SameCode(q, m)
    BY <1>1 DEF tables, SameCode, Coded
  <2> QED
    BY <2>1, <2>2 DEF Passes
<1>12. Written(s)'
  <2>1. /\ \A i \in 1..(line - 1) : codes[i] = NewCode(ref, i) /\ Passes(ref, i)
    BY <1>1, <1>2, <1>3 DEF Written
  <2>2. \A i \in 1..line : more[i] = NewCode(ref, i)
    BY <1>3, <1>5, <1>8, <2>1
  <2> QED
    BY <1>3, <1>4, <1>8, <1>9, <1>10, <1>11, <2>1, <2>2 DEF Written
<1>13. ~Recorded(ref)' /\ ~CollectionFull(ref)' /\ ~TierFull(ref)'
  BY <1>1, <1>3 DEF tables, Recorded, CollectionFull, TierFull, Sold, KeyRows
<1>14. Knows(s)'
  BY <1>9, <1>10, <1>12, <1>13 DEF Knows
<1> QED
  BY <1>1, <1>3, <1>7, <1>9, <1>14, SessionMoves

LEMMA InsertHeld ==
  ASSUME TxInv, NEW s \in Sessions, InsertRow(s)
  PROVE  TxHeld' /\ (UNCHANGED vars \/ \E ref \in References : Claim(ref))
<1>1. TxHeld /\ tx[s].at = "inserting"
  BY DEF TxInv, InsertRow
<1>2. PICK ref, line, codes, p, n : ref = tx[s].ref /\ line = tx[s].line /\ codes = tx[s].codes
        /\ p = Rows[ref][line].prefix /\ n = codes[line]
  OBVIOUS
<1>3. /\ ref \in References /\ line \in Nat \ {0} /\ codes \in Seq(Nat)
      /\ Len(codes) = line /\ DOMAIN codes = 1..line /\ Written(s) /\ InTx(s)
      /\ ~Recorded(ref) /\ ~CollectionFull(ref) /\ ~TierFull(ref)
      /\ line <= Len(Rows[ref])
  BY <1>1, <1>2, WritingFacts
<1>4. line \in DOMAIN Rows[ref] /\ Len(Rows[ref]) \in Nat
  BY <1>3, RowFacts
<1>5. /\ \A i \in 1..line : codes[i] = NewCode(ref, i)
      /\ \A i \in 1..(line - 1) : Passes(ref, i)
  BY <1>1, <1>2, <1>3 DEF Written
<1>6. HoldsCode(s, p, n) <=> \E i \in 1..(line - 1) : Rows[ref][i].prefix = p /\ NewCode(ref, i) = n
  <2>1. HoldsCode(s, p, n) <=> \E i \in 1..(line - 1) : Rows[ref][i].prefix = p /\ codes[i] = n
    BY <1>1, <1>2 DEF HoldsCode
  <2>2. \A i \in 1..(line - 1) : i \in 1..line
    BY <1>3
  <2>3. \A i \in 1..(line - 1) : codes[i] = NewCode(ref, i)
    BY <1>5, <2>2
  <2> QED
    BY <2>1, <2>3
<1>7. n = NewCode(ref, line)
  BY <1>2, <1>3, <1>5
<1>8. CASE n # 0 /\ (SameCode(p, n) # {} \/ HoldsCode(s, p, n))
  <2>1. Return(s, "idempotent")
    BY <1>2, <1>8 DEF InsertRow
  <2>2. CodeCollision(ref)
    BY <1>2, <1>4, <1>6, <1>7, <1>8 DEF CodeCollision
  <2> QED
    BY <1>1, <1>2, <1>3, <2>1, <2>2, Returns DEF Claim, ClaimCollides, Admitted
<1>9. CASE ~(n # 0 /\ (SameCode(p, n) # {} \/ HoldsCode(s, p, n)))
  <2> DEFINE r == [tx[s] EXCEPT !.at = "minting", !.line = line + 1]
  <2>1. Move(s, r) /\ UNCHANGED vars /\ UNCHANGED tables
    BY <1>2, <1>9 DEF InsertRow, vars, tables
  <2>2. /\ r \in Txs /\ r.at = "minting" /\ r.ref = ref /\ r.line = line + 1 /\ r.codes = codes
    <3>1. tx[s] \in [at : {"minting", "inserting"}, ref : References, line : Nat \ {0}, codes : Seq(Nat)]
      BY <1>1, TxFacts DEF TxHeld
    <3>2. line + 1 \in Nat \ {0}
      BY <1>3
    <3> QED
      BY <1>2, <3>1, <3>2 DEF Txs
  <2> HIDE DEF r
  <2>3. tx'[s] = r
    BY <1>1, <2>1 DEF Move, TxHeld
  <2>4. ASSUME NEW i
        PROVE  NewCode(ref, i)' = NewCode(ref, i) /\ (Passes(ref, i)' <=> Passes(ref, i))
    <3>1. \A j : NewCode(ref, j)' = NewCode(ref, j)
      BY <2>1 DEF tables, NewCode, Minted
    <3>2. \A q, m : SameCode(q, m)' = SameCode(q, m)
      BY <2>1 DEF tables, SameCode, Coded
    <3> QED
      BY <3>1, <3>2 DEF Passes
  <2>5. Passes(ref, line)
    BY <1>2, <1>6, <1>7, <1>9 DEF Passes
  <2>6. \A i \in 1..line : codes[i] = NewCode(ref, i)' /\ Passes(ref, i)'
    BY <1>3, <1>5, <2>4, <2>5
  <2>7. line + 1 - 1 = line /\ line + 1 <= Len(Rows[ref]) + 1
    BY <1>3, <1>4
  <2>8. Written(s)'
    <3>1. PICK next : next = line + 1
      OBVIOUS
    <3>2. /\ tx'[s].at = "minting" /\ tx'[s].line = next /\ tx'[s].codes = codes
          /\ tx'[s].ref = ref
      BY <2>2, <2>3, <3>1
    <3>3. next - 1 = line /\ next <= Len(Rows[ref]) + 1
      BY <1>3, <1>4, <3>1
    <3>4. DOMAIN codes = 1..(next - 1)
      BY <1>3, <3>3
    <3>5. \A i \in DOMAIN codes : codes[i] = NewCode(ref, i)'
      BY <1>3, <2>6
    <3>6. \A i \in 1..(next - 1) : Passes(ref, i)'
      BY <2>6, <3>3
    <3> QED
      BY <3>2, <3>3, <3>4, <3>5, <3>6 DEF Written
  <2>9. ~Recorded(ref)' /\ ~CollectionFull(ref)' /\ ~TierFull(ref)'
    BY <1>3, <2>1 DEF tables, Recorded, CollectionFull, TierFull, Sold, KeyRows
  <2>10. Knows(s)'
    BY <2>2, <2>3, <2>8, <2>9 DEF Knows
  <2> QED
    BY <1>1, <1>3, <2>1, <2>2, <2>10, SessionMoves
<1> QED
  BY <1>8, <1>9

\* The transaction ends without having written anything.
LEMMA AbortHeld ==
  ASSUME TxInv, NEW s \in Sessions, Abort(s)
  PROVE  TxHeld' /\ UNCHANGED vars
<1>1. NoTx \in Txs /\ NoTx.at = "idle" /\ Move(s, NoTx)
  BY DEF Txs, NoTx, Abort, Leave
<1>2. UNCHANGED tables /\ UNCHANGED vars
  BY DEF Abort, tables, vars
<1> QED
  BY <1>1, <1>2, Outside, SessionMoves DEF TxInv

\* The commit is the claim in one step: every row of the payment has passed.
LEMMA CommitHeld ==
  ASSUME TxInv, NEW s \in Sessions, Commit(s)
  PROVE  TxHeld' /\ \E ref \in References : ClaimInserts(ref)
<1>1. TxHeld /\ tx[s].at = "minting"
  BY DEF TxInv, Commit
<1>2. PICK ref, line, codes : ref = tx[s].ref /\ line = tx[s].line /\ codes = tx[s].codes
  OBVIOUS
<1>3. /\ ref \in References /\ line \in Nat \ {0} /\ codes \in Seq(Nat)
      /\ Len(codes) = line - 1 /\ DOMAIN codes = 1..Len(codes)
      /\ Len(codes) <= Len(Rows[ref]) /\ Written(s) /\ InTx(s)
      /\ ~Recorded(ref) /\ ~CollectionFull(ref) /\ ~TierFull(ref)
      /\ \A p : Bumped(s, p) = Cardinality(SamePrefix(ref, Len(codes), p))
  BY <1>1, <1>2, WritingFacts
<1>4. Len(Rows[ref]) \in Nat /\ DOMAIN Rows[ref] = 1..Len(Rows[ref])
  BY <1>3, RowFacts
<1>5. Len(codes) = Len(Rows[ref])
  <2>1. line > Len(Rows[ref])
    BY <1>2 DEF Commit
  <2> QED
    BY <1>3, <1>4, <2>1
<1>6. \A i \in DOMAIN Rows[ref] : codes[i] = NewCode(ref, i) /\ Passes(ref, i)
  <2>1. DOMAIN codes = DOMAIN Rows[ref] /\ 1..(line - 1) = DOMAIN Rows[ref]
    BY <1>3, <1>4, <1>5
  <2>2. \A i \in DOMAIN codes : codes[i] = NewCode(ref, i)
    BY <1>2, <1>3 DEF Written
  <2>3. \A i \in 1..(line - 1) : Passes(ref, i)
    BY <1>2, <1>3 DEF Written
  <2> QED
    BY <2>1, <2>2, <2>3
<1>7. ~CodeCollision(ref)
  BY <1>6 DEF CodeCollision, Passes
<1>8. code' = [id \in RowIds |-> IF id[1] = ref THEN NewCode(ref, id[2]) ELSE code[id]]
  <2>1. code' = [id \in RowIds |-> IF id[1] = ref THEN codes[id[2]] ELSE code[id]]
    BY <1>2 DEF Commit
  <2>2. \A id \in RowIds : id[1] = ref => codes[id[2]] = NewCode(ref, id[2])
    BY <1>6, IdFacts
  <2> QED
    BY <2>1, <2>2
<1>9. counters' = [p \in Prefixes |-> counters[p] +
                    Cardinality({i \in DOMAIN Rows[ref] : Rows[ref][i].prefix = p})]
  <2>1. counters' = [p \in Prefixes |-> counters[p] + Bumped(s, p)]
    BY DEF Commit
  <2>2. \A p : Bumped(s, p) = Cardinality({i \in DOMAIN Rows[ref] : Rows[ref][i].prefix = p})
    BY <1>3, <1>4, <1>5 DEF SamePrefix
  <2> QED
    BY <2>1, <2>2
<1>10. ClaimInserts(ref)
  BY <1>2, <1>3, <1>7, <1>8, <1>9 DEF Commit, ClaimInserts, Admitted, Answer
<1>11. NoTx \in Txs /\ NoTx.at = "idle" /\ Move(s, NoTx)
  BY DEF Txs, NoTx, Commit, Leave
<1> QED
  BY <1>1, <1>3, <1>10, <1>11, Outside, SessionMoves

\* An edit finds no transaction on the collection row.
LEMMA EditHeld ==
  ASSUME TxInv, NEW cap \in CapChoices, NEW q \in [Tiers -> QuantityChoices], TxEdit(cap, q)
  PROVE  TxHeld' /\ EditCollection(cap, q)
<1>1. LockFree /\ tx' = tx /\ EditCollection(cap, q) /\ TxHeld
  BY DEF TxInv, TxEdit
<1>2. OneInTx'
  BY <1>1 DEF TxHeld, OneInTx, InTx
<1>3. ASSUME NEW s \in Sessions PROVE Knows(s)'
  <2>1. tx'[s].at \in {"idle", "waiting"}
    BY <1>1 DEF LockFree, InTx
  <2> QED
    BY <2>1 DEF Knows
<1> QED
  BY <1>1, <1>2, <1>3 DEF TxHeld

-----------------------------------------------------------------------------
(* The script beside an open transaction.                                  *)

\* A step of the script that leaves the counters of the prefixes minted and the
\* codes inserted alone leaves what the transaction found alone.
LEMMA ScriptKeeps ==
  ASSUME TxInv, NEW s \in Sessions, tx' = tx,
         UNCHANGED <<contributions, maxContributions, quantity>>,
         \A p : Bumped(s, p) > 0 => counters'[p] = counters[p],
         \A p, n : HoldsCode(s, p, n) /\ SameCode(p, n) = {} => SameCode(p, n)' = {}
  PROVE  Knows(s)'
<1>1. TxHeld
  BY DEF TxInv
<1>2. ASSUME NEW ref
      PROVE  /\ Recorded(ref)' <=> Recorded(ref)
             /\ CollectionFull(ref)' <=> CollectionFull(ref)
             /\ TierFull(ref)' <=> TierFull(ref)
  BY DEF Recorded, CollectionFull, TierFull, Sold, KeyRows
<1>3. CASE tx[s].at \notin {"minting", "inserting"}
  BY <1>1, <1>2, <1>3 DEF TxHeld, Knows
<1>4. CASE tx[s].at \in {"minting", "inserting"}
  <2>1. PICK ref, line, codes, at : /\ ref = tx[s].ref /\ line = tx[s].line
                                    /\ codes = tx[s].codes /\ at = tx[s].at
    OBVIOUS
  <2>2. /\ ref \in References /\ line \in Nat \ {0} /\ codes \in Seq(Nat)
        /\ Len(codes) = (IF at = "inserting" THEN line ELSE line - 1)
        /\ DOMAIN codes = 1..Len(codes) /\ Len(codes) <= Len(Rows[ref])
        /\ Written(s)
        /\ ~Recorded(ref) /\ ~CollectionFull(ref) /\ ~TierFull(ref)
        /\ \A p : Bumped(s, p) = Cardinality(SamePrefix(ref, Len(codes), p))
    BY <1>1, <1>4, <2>1, WritingFacts
  <2>3. Len(Rows[ref]) \in Nat /\ DOMAIN Rows[ref] = 1..Len(Rows[ref])
    BY <2>2, RowFacts
  <2>4. /\ DOMAIN codes = 1..(IF at = "inserting" THEN line ELSE line - 1)
        /\ line <= Len(Rows[ref]) + (IF at = "inserting" THEN 0 ELSE 1)
        /\ \A i \in DOMAIN codes : codes[i] = NewCode(ref, i)
        /\ \A i \in 1..(line - 1) : Passes(ref, i)
    BY <2>1, <2>2 DEF Written
  <2>5. ASSUME NEW i \in DOMAIN codes PROVE NewCode(ref, i)' = NewCode(ref, i)
    <3>1. PICK p : p = Rows[ref][i].prefix
      OBVIOUS
    <3>2. Cardinality(SamePrefix(ref, 0, p)) < Cardinality(SamePrefix(ref, i, p))
      BY <2>2, <3>1, SamePrefixGrows
    <3>3. SamePrefix(ref, i, p) \in SUBSET SamePrefix(ref, Len(codes), p)
      BY <2>2 DEF SamePrefix
    <3>4. /\ Cardinality(SamePrefix(ref, 0, p)) \in Nat
          /\ Cardinality(SamePrefix(ref, i, p)) \in Nat
          /\ Cardinality(SamePrefix(ref, Len(codes), p)) \in Nat
          /\ IsFiniteSet(SamePrefix(ref, Len(codes), p))
      BY <2>2, SamePrefixFacts
    <3>5. Cardinality(SamePrefix(ref, i, p)) <= Cardinality(SamePrefix(ref, Len(codes), p))
      BY <3>3, <3>4, FS_Subset
    <3>6. Bumped(s, p) > 0
      BY <2>2, <3>2, <3>4, <3>5
    <3>7. counters'[p] = counters[p]
      BY <3>6
    <3> QED
      BY <3>1, <3>7 DEF NewCode, Minted
  <2>6. ASSUME NEW i \in 1..(line - 1) PROVE Passes(ref, i)'
    <3>1. PICK p, n : p = Rows[ref][i].prefix /\ n = NewCode(ref, i)
      OBVIOUS
    <3>2. i \in DOMAIN codes /\ \A j \in 1..(i - 1) : j \in DOMAIN codes
      BY <2>2, <2>4
    <3>3. NewCode(ref, i)' = n /\ \A j \in 1..(i - 1) : NewCode(ref, j)' = NewCode(ref, j)
      BY <2>5, <3>1, <3>2
    <3>4. Passes(ref, i)
      BY <2>4
    <3>5. HoldsCode(s, p, n)
      BY <1>4, <2>1, <2>4, <3>1, <3>2 DEF HoldsCode
    <3>6. n # 0 => SameCode(p, n) = {}
      BY <3>1, <3>4 DEF Passes
    <3>7. n # 0 => SameCode(p, n)' = {}
      BY <3>5, <3>6
    <3> QED
      BY <3>1, <3>3, <3>4, <3>7 DEF Passes
  <2>7. Written(s)'
    <3>1. tx'[s].ref = ref /\ tx'[s].line = line /\ tx'[s].codes = codes /\ tx'[s].at = at
      BY <2>1
    <3>2. \A i \in DOMAIN codes : codes[i] = NewCode(ref, i)'
      BY <2>4, <2>5
    <3> QED
      BY <2>4, <2>6, <3>1, <3>2 DEF Written
  <2>8. ~Recorded(ref)' /\ ~CollectionFull(ref)' /\ ~TierFull(ref)'
    BY <1>2, <2>2
  <2>9. tx'[s].ref = ref /\ tx'[s].at \in {"minting", "inserting"}
    BY <1>4, <2>1
  <2> QED
    BY <2>7, <2>8, <2>9 DEF Knows
<1> QED
  BY <1>3, <1>4

\* The script's own step, and what it does to the rows a transaction counts on.
LEMMA ScriptHeld ==
  ASSUME TxInv, TxBackfill
  PROVE  TxHeld' /\ Next
<1>1. TxHeld /\ tx' = tx /\ TypeOK /\ BackfillRows
  BY DEF TxInv, IInv, TxBackfill
<1>2. OneInTx' /\ tx' \in [Sessions -> Txs]
  BY <1>1 DEF TxHeld, OneInTx, InTx
<1>3. SUFFICES Next /\ \A s \in Sessions : Knows(s)'
  BY <1>2 DEF TxHeld
<1>4. CASE \/ BackfillScan \/ BackfillStop
           \/ \E id \in RowIds : BackfillMintLocally(id) \/ BackfillSkip(id)
  <2>1. UNCHANGED tables
    BY <1>4 DEF tables, BackfillScan, BackfillStop, BackfillMintLocally, BackfillSkip
  <2>2. \A s \in Sessions : Knows(s)'
    BY <1>1, <2>1, KnowsKept DEF TxHeld
  <2> QED
    BY <1>4, <2>2 DEF Next
<1>5. ASSUME NEW id \in RowIds, CounterRowFree(RowOf(id).prefix), BackfillMint(id)
      PROVE  Next /\ \A s \in Sessions : Knows(s)'
  <2>1. /\ UNCHANGED <<contributions, maxContributions, quantity>> /\ code' = code
        /\ \A p : p # RowOf(id).prefix => counters'[p] = counters[p]
    BY <1>1, <1>5 DEF BackfillMint, TypeOK
  <2>2. ASSUME NEW s \in Sessions PROVE Knows(s)'
    <3>1. \A p : Bumped(s, p) > 0 => counters'[p] = counters[p]
      BY <1>5, <2>1 DEF CounterRowFree
    <3>2. \A p, n : SameCode(p, n)' = SameCode(p, n)
      BY <2>1 DEF SameCode, Coded
    <3> QED
      BY <1>1, <2>1, <3>1, <3>2, ScriptKeeps
  <2> QED
    BY <1>5, <2>2 DEF Next
<1>6. ASSUME BackfillAssign,
             \A s \in Sessions : ~HoldsCode(s, RowOf(backfill.row).prefix, backfill.number)
      PROVE  Next /\ \A s \in Sessions : Knows(s)'
  <2>1. PICK id, m : id = backfill.row /\ m = backfill.number
    OBVIOUS
  <2>2. /\ UNCHANGED <<contributions, counters, maxContributions, quantity>>
        /\ \A r : r # id => code'[r] = code[r]
        /\ code' = code \/ code'[id] = m
    BY <1>1, <1>6, <2>1 DEF BackfillAssign, TypeOK
  <2>3. ASSUME NEW s \in Sessions PROVE Knows(s)'
    <3>1. ASSUME NEW p, NEW n, HoldsCode(s, p, n), SameCode(p, n) = {}
          PROVE  SameCode(p, n)' = {}
      <4> SUFFICES ASSUME NEW r \in SameCode(p, n)' PROVE FALSE
        OBVIOUS
      <4>1. /\ r \in contributions /\ RowOf(r).prefix = p /\ code'[r] = n /\ n # 0
        BY <2>2 DEF SameCode, Coded
      <4>2. code'[r] # code[r]
        BY <3>1, <4>1 DEF SameCode, Coded
      <4>3. r = id /\ n = m
        BY <2>2, <4>1, <4>2
      <4> QED
        BY <1>6, <2>1, <3>1, <4>1, <4>3
    <3> QED
      BY <1>1, <2>2, <3>1, ScriptKeeps
  <2> QED
    BY <1>6, <2>3 DEF Next
<1> QED
  BY <1>4, <1>5, <1>6 DEF TxBackfill

-----------------------------------------------------------------------------
(* The refinement.                                                         *)

LEMMA TxStep == TxInv /\ [TxNext]_txVars => [Next]_vars /\ TxInv'
<1> SUFFICES ASSUME TxInv, [TxNext]_txVars PROVE [Next]_vars /\ TxHeld'
  BY StepIInv DEF TxInv
<1>1. ASSUME NEW s \in Sessions, NEW ref \in References, Begin(s, ref)
      PROVE  [Next]_vars /\ TxHeld'
  BY <1>1, BeginHeld
<1>2. ASSUME NEW s \in Sessions, LockCollection(s) PROVE [Next]_vars /\ TxHeld'
  BY <1>2, LockHeld
<1>3. ASSUME NEW s \in Sessions, FindExisting(s) PROVE [Next]_vars /\ TxHeld'
  BY <1>3, FindHeld DEF Next
<1>4. ASSUME NEW s \in Sessions, CheckCapacity(s) PROVE [Next]_vars /\ TxHeld'
  BY <1>4, CapacityHeld DEF Next
<1>5. ASSUME NEW s \in Sessions, MintRow(s) PROVE [Next]_vars /\ TxHeld'
  BY <1>5, MintHeld
<1>6. ASSUME NEW s \in Sessions, InsertRow(s) PROVE [Next]_vars /\ TxHeld'
  BY <1>6, InsertHeld DEF Next
<1>7. ASSUME NEW s \in Sessions, Commit(s) PROVE [Next]_vars /\ TxHeld'
  BY <1>7, CommitHeld DEF Next, Claim
<1>8. ASSUME NEW s \in Sessions, Abort(s) PROVE [Next]_vars /\ TxHeld'
  BY <1>8, AbortHeld
<1>9. ASSUME NEW cap \in CapChoices, NEW q \in [Tiers -> QuantityChoices], TxEdit(cap, q)
      PROVE  [Next]_vars /\ TxHeld'
  BY <1>9, EditHeld DEF Next
<1>10. CASE TxBackfill
  BY <1>10, ScriptHeld
<1>11. CASE UNCHANGED txVars
  <2>1. UNCHANGED vars /\ UNCHANGED tables /\ tx' = tx
    BY <1>11 DEF txVars, vars, tables
  <2>2. OneInTx' /\ tx' \in [Sessions -> Txs]
    BY <2>1 DEF TxInv, TxHeld, OneInTx, InTx
  <2>3. \A s \in Sessions : Knows(s)'
    BY <2>1, KnowsKept DEF TxInv, TxHeld
  <2> QED
    BY <2>1, <2>2, <2>3 DEF TxHeld
<1> QED
  BY <1>1, <1>2, <1>3, <1>4, <1>5, <1>6, <1>7, <1>8, <1>9, <1>10, <1>11 DEF TxNext

LEMMA TxStart == TxInit => TxInv
<1> SUFFICES ASSUME TxInit PROVE TxInv
  OBVIOUS
<1>1. IInv
  BY InitIInv DEF TxInit
<1>2. \A s \in Sessions : tx[s] = NoTx /\ tx[s].at = "idle"
  BY DEF TxInit, NoTx
<1>3. tx \in [Sessions -> Txs]
  BY DEF TxInit, Txs
<1>4. OneInTx /\ \A s \in Sessions : Knows(s)
  BY <1>2 DEF OneInTx, InTx, Knows
<1> QED
  BY <1>1, <1>3, <1>4 DEF TxInv, TxHeld

\* Whatever a transaction has found under the collection's lock still holds
\* when it writes, whichever sessions, edits and script steps come between.
THEOREM TxInvariance == TxSpec => []TxInv
BY TxStart, TxStep, PTL DEF TxSpec

\* Claims that interleave statement by statement, each in its transaction, are
\* claims that happen in one step each: FOR UPDATE, the counter rows' locks and
\* the unique index are enough (H2, lines 104-250).
THEOREM TxImplements == TxSpec => ImplementsPaymentClaim
<1>1. TxInit => Init
  BY DEF TxInit
<1> QED
  BY <1>1, TxInvariance, TxStep, PTL DEF TxSpec, Spec, ImplementsPaymentClaim

\* So interleaved sessions keep what one-step claims keep: codes are unique, no
\* counter lags, and who is told that a payment is recorded finds its rows.
THEOREM TxToldIsRecorded == TxSpec => [](UniqueCodes /\ CountersNeverLag /\ ToldMeansRecorded)
BY TxInvariance, PTL DEF TxInv, IInv

-----------------------------------------------------------------------------
(* The notification of a payment.                                          *)

\* A call that may still push to the device without a fault: it has not, and the result
\* it would write leaves the event open.
MayPush(step, d) ==
  \/ step.at \in {"legacy", "belling", "reading"}
  \/ step.at = "sending" /\ (d \in step.todo \/ "sent" \notin step.outcomes)

Unspent(d) == {s \in Senders : MayPush(send[s], d)}

\* The event is there for the next call to take, now or once the lease has lapsed.
Takeable ==
  \/ event \in {"none", "failed"}
  \/ event = "processing" /\ (~leased \/ Holders = {})

One(b) == IF b THEN 1 ELSE 0

\* Each push that no fault pays for has been paid by whoever took the event.
Budget ==
  \A d \in Devices : shown[d] + Cardinality(Unspent(d)) + One(Takeable) <= 1 + faults

\* A delivery that is past its verification is of a recorded payment, and a call
\* past its claim has left an event, or was let go without.
Found == event # "none" \/ rowless
Noticed ==
  /\ answered => recorded /\ Found
  /\ \A h \in Hooks :
       /\ hook[h] \in {"noticing", "pushing"} => recorded
       /\ hook[h] = "pushing" => send[h].at \in {"claiming", "legacy"} \/ Found

\* The types, for which an event nobody has inserted must have no attempts.
PushShape == PushTypeOK /\ (event = "none" => attempts = 0)

HookShape ==
  /\ recorded \in BOOLEAN /\ answered \in BOOLEAN
  /\ receipt \in {"none", "due", "done"}
  /\ hook \in [Hooks -> {"idle", "checking", "verifying", "noticing", "pushing"}]

NoticeInv == PushShape /\ Budget /\ HookShape /\ Noticed

-----------------------------------------------------------------------------
(* Counting the calls. *)

\* A step of one call adds it to the counted ones or takes it away.
LEMMA CountOne ==
  ASSUME NEW S, IsFiniteSet(S), NEW s \in S, NEW T, T \subseteq S
  PROVE  /\ Cardinality(T) \in Nat /\ Cardinality(T \ {s}) \in Nat
         /\ Cardinality(T) = Cardinality(T \ {s}) + (IF s \in T THEN 1 ELSE 0)
<1>1. IsFiniteSet(T) /\ IsFiniteSet(T \ {s})
  BY FS_Subset
<1>2. Cardinality(T) \in Nat /\ Cardinality(T \ {s}) \in Nat
  BY <1>1, FS_CardinalityType
<1>3. CASE s \in T
  <2>1. Cardinality(T \ {s}) = Cardinality(T) - 1
    BY <1>1, <1>3, FS_RemoveElement
  <2> QED
    BY <1>2, <1>3, <2>1
<1>4. CASE s \notin T
  <2>1. T \ {s} = T
    BY <1>4
  <2>2. (IF s \in T THEN 1 ELSE 0) = 0
    BY <1>4
  <2>3. Cardinality(T) = Cardinality(T \ {s})
    BY <2>1
  <2> HIDE <1>4
  <2> QED
    BY <1>2, <2>2, <2>3
<1> QED
  BY <1>3, <1>4

\* What one call does is paid for out of its own push, the event's and the faults.
LEMMA BudgetStep ==
  ASSUME PushShape, Budget, NEW s \in Senders,
         \A t \in Senders \ {s} : send'[t] = send[t],
         shown' \in [Devices -> Nat], faults' \in Nat,
         \A d \in Devices :
           shown'[d] + One(MayPush(send'[s], d)) + One(Takeable') + faults
             <= shown[d] + One(MayPush(send[s], d)) + One(Takeable) + faults'
  PROVE  Budget'
<1> SUFFICES ASSUME NEW d \in Devices
             PROVE  shown'[d] + Cardinality(Unspent(d)') + One(Takeable') <= 1 + faults'
  BY DEF Budget
<1>1. IsFiniteSet(Senders)
  BY PushAssumption DEF PushAssumption
<1> PICK before, after : before = Unspent(d) /\ after = Unspent(d)'
  OBVIOUS
<1>2. /\ before \subseteq Senders /\ after \subseteq Senders
      /\ before \ {s} = after \ {s}
      /\ s \in before <=> MayPush(send[s], d)
      /\ s \in after <=> MayPush(send'[s], d)
  BY DEF Unspent
<1> DEFINE others == Cardinality(before \ {s})
<1>3. /\ others \in Nat
      /\ Cardinality(before) = others + (IF s \in before THEN 1 ELSE 0)
  BY <1>1, <1>2, CountOne
<1>4. Cardinality(after) = others + (IF s \in after THEN 1 ELSE 0)
  <2>1. Cardinality(after) = Cardinality(after \ {s}) + (IF s \in after THEN 1 ELSE 0)
    BY <1>1, <1>2, CountOne
  <2> QED
    BY <1>2, <2>1
<1>5. /\ One(MayPush(send[s], d)) = IF s \in before THEN 1 ELSE 0
      /\ One(MayPush(send'[s], d)) = IF s \in after THEN 1 ELSE 0
  BY <1>2 DEF One
<1>7. \A b : One(b) \in 0..1
  BY DEF One
<1> DEFINE w == One(MayPush(send[s], d))
           i == One(MayPush(send'[s], d))
           x == One(Takeable)
           y == One(Takeable')
<1>8. w \in 0..1 /\ i \in 0..1 /\ x \in 0..1 /\ y \in 0..1
  BY <1>7
<1>9. shown[d] \in Nat /\ shown'[d] \in Nat /\ faults \in Nat
  BY DEF PushShape, PushTypeOK
<1>10. shown[d] + (others + w) + x <= 1 + faults
  BY <1>3, <1>5 DEF Budget
<1>11. shown'[d] + i + y + faults <= shown[d] + w + x + faults'
  OBVIOUS
<1>12. shown'[d] + (others + i) + y <= 1 + faults'
  <2> HIDE DEF others, w, i, x, y
  <2> QED
    BY <1>3, <1>8, <1>9, <1>10, <1>11
<1>13. Cardinality(after) = others + i
  BY <1>4, <1>5
<1> QED
  BY <1>12, <1>13

LEMMA OneIs ==
  ASSUME NEW b
  PROVE  One(b) \in 0..1 /\ (b => One(b) = 1) /\ (~b => One(b) = 0)
BY DEF One

-----------------------------------------------------------------------------
(* The steps of one call.                                                  *)

LEMMA StepShape ==
  ASSUME PushShape, NEW s \in Senders
  PROVE  /\ send[s].at \in {"idle", "claiming", "legacy", "belling", "reading", "sending"}
         /\ send[s].at = "idle" <=> send[s] = NoCall
         /\ send[s].at \in {"belling", "reading"} =>
              send[s] \in [at : {"belling", "reading"}, row : BOOLEAN]
         /\ send[s].at = "sending" =>
              send[s] \in [at : {"sending"}, row : BOOLEAN, todo : SUBSET Devices,
                           outcomes : SUBSET {"sent", "failed", "removed"}]
<1>1. send[s] \in Steps
  BY DEF PushShape, PushTypeOK
<1>2. CASE send[s] = NoCall
  BY <1>2 DEF NoCall
<1>3. CASE send[s] \in [at : {"claiming", "legacy"}]
  <2>1. send[s].at \in {"claiming", "legacy"} /\ send[s] # NoCall
    BY <1>3 DEF NoCall
  <2> QED
    BY <2>1
<1>4. CASE send[s] \in [at : {"belling", "reading"}, row : BOOLEAN]
  <2>1. send[s].at \in {"belling", "reading"} /\ send[s] # NoCall
    BY <1>4 DEF NoCall
  <2> QED
    BY <1>4, <2>1
<1>5. CASE send[s] \in [at : {"sending"}, row : BOOLEAN, todo : SUBSET Devices,
                        outcomes : SUBSET {"sent", "failed", "removed"}]
  <2>1. send[s].at = "sending" /\ send[s] # NoCall
    BY <1>5 DEF NoCall
  <2> QED
    BY <1>5, <2>1
<1> QED
  BY <1>1, <1>2, <1>3, <1>4, <1>5 DEF Steps

\* A call goes where it goes and the others stay.
LEMMA Going ==
  ASSUME PushShape, NEW s \in Senders, NEW step, Goto(s, step)
  PROVE  /\ send'[s] = step /\ \A t \in Senders \ {s} : send'[t] = send[t]
         /\ step \in Steps => send' \in [Senders -> Steps]
BY DEF PushShape, PushTypeOK, Goto

\* Who leaves the row of the event alone and holds it as before leaves it as takeable.
LEMMA RowKept ==
  ASSUME UNCHANGED <<event, leased>>, NEW s \in Senders,
         \A t \in Senders \ {s} : send'[t] = send[t],
         s \in Holders => s \in Holders'
  PROVE  One(Takeable') <= One(Takeable)
<1>1. Holders \subseteq Holders'
  BY DEF Holders
<1>2. Takeable' => Takeable
  BY <1>1 DEF Takeable
<1> PICK was, is : was = Takeable /\ is = Takeable'
  OBVIOUS
<1>3. (is => was) /\ One(was) \in 0..1 /\ One(is) \in 0..1
  BY <1>2, OneIs
<1>4. (was => One(was) = 1) /\ (~is => One(is) = 0)
  BY OneIs
<1> QED
  BY <1>3, <1>4

\* The call may go on, and what it does is paid for.
Paid(s) ==
  /\ PushShape' /\ Budget'
  /\ Found => Found'
  /\ \A t \in Senders \ {s} : send'[t] = send[t]
  /\ send[s].at \in {"claiming", "legacy"} =>
       send'[s].at \in {"claiming", "legacy"} \/ Found'

LEMMA TakeFacts ==
  ASSUME PushShape, Take
  PROVE  /\ Takeable /\ event' = "processing" /\ leased' = TRUE
         /\ attempts' \in 0..MaxAttempts
<1>1. MaxAttempts \in Nat \ {0} /\ attempts \in 0..MaxAttempts
  BY PushAssumption DEF PushAssumption, PushShape, PushTypeOK
<1>2. event = "none" => attempts = 0
  BY DEF PushShape
<1>3. event = "none" \/ attempts < MaxAttempts
  BY DEF Take, Reclaimable
<1>4. attempts' \in 0..MaxAttempts
  BY <1>1, <1>2, <1>3 DEF Take
<1> QED
  BY <1>4 DEF Take, Reclaimable, Retryable, Takeable

\* The steps that leave the row of the event alone: a push to a device is paid for by
\* the call's own or by a fault.
LEMMA PaidQuietly ==
  ASSUME PushShape, Budget, NEW s \in Senders, NEW step, Goto(s, step), step \in Steps,
         UNCHANGED eventRow, s \in Holders => s \in Holders',
         bell' \in BOOLEAN, rowless' \in BOOLEAN, rowless => rowless',
         subscribed' \subseteq Devices,
         shown' \in [Devices -> Nat], faults' \in 0..MaxFaults,
         \A d \in Devices :
           shown'[d] + One(MayPush(step, d)) + faults
             <= shown[d] + One(MayPush(send[s], d)) + faults',
         send[s].at \in {"claiming", "legacy"} =>
           step.at \in {"claiming", "legacy"} \/ Found'
  PROVE  Paid(s)
<1>1. /\ send'[s] = step /\ \A t \in Senders \ {s} : send'[t] = send[t]
      /\ send' \in [Senders -> Steps]
  BY Going
<1>2. UNCHANGED <<event, attempts, young, leased>>
  BY DEF eventRow
<1>3. PushShape'
  BY <1>1, <1>2 DEF PushShape, PushTypeOK
<1>4. One(Takeable') <= One(Takeable)
  BY <1>1, <1>2, RowKept
<1>5. Budget'
  <2>1. \A d \in Devices :
          shown'[d] + One(MayPush(send'[s], d)) + One(Takeable') + faults
            <= shown[d] + One(MayPush(send[s], d)) + One(Takeable) + faults'
    <3> SUFFICES ASSUME NEW d \in Devices
                 PROVE  shown'[d] + One(MayPush(step, d)) + One(Takeable') + faults
                          <= shown[d] + One(MayPush(send[s], d)) + One(Takeable) + faults'
      BY <1>1
    <3>1. shown'[d] + One(MayPush(step, d)) + faults
            <= shown[d] + One(MayPush(send[s], d)) + faults'
      OBVIOUS
    <3>2. shown[d] \in Nat /\ shown'[d] \in Nat /\ faults \in Nat /\ faults' \in Nat
      BY PushAssumption DEF PushAssumption, PushShape, PushTypeOK
    <3> DEFINE i == One(MayPush(step, d))
               w == One(MayPush(send[s], d))
               x == One(Takeable)
               y == One(Takeable')
    <3>3. i \in 0..1 /\ w \in 0..1 /\ x \in 0..1 /\ y \in 0..1
      BY OneIs
    <3> HIDE DEF i, w, x, y
    <3> QED
      BY <1>4, <3>1, <3>2, <3>3 DEF i, w, x, y
  <2>2. faults' \in Nat
    OBVIOUS
  <2> QED
    BY <1>1, <2>1, <2>2, BudgetStep
<1>6. Found => Found'
  BY <1>2 DEF Found
<1> QED
  BY <1>1, <1>3, <1>5, <1>6 DEF Paid

\* As above, when nothing is pushed.
LEMMA PaidNothing ==
  ASSUME PushShape, Budget, NEW s \in Senders, NEW step, Goto(s, step), step \in Steps,
         UNCHANGED <<eventRow, shown>>, s \in Holders => s \in Holders',
         bell' \in BOOLEAN, rowless' \in BOOLEAN, rowless => rowless',
         subscribed' \subseteq Devices,
         Fault \/ (NoFault /\ \A d \in Devices : MayPush(step, d) => MayPush(send[s], d)),
         send[s].at \in {"claiming", "legacy"} =>
           step.at \in {"claiming", "legacy"} \/ Found'
  PROVE  Paid(s)
<1>1. shown \in [Devices -> Nat] /\ faults \in 0..MaxFaults /\ MaxFaults \in Nat
  BY PushAssumption DEF PushAssumption, PushShape, PushTypeOK
<1>2. faults' \in 0..MaxFaults
  BY <1>1 DEF Fault, NoFault
<1>3. \A d \in Devices :
        shown'[d] + One(MayPush(step, d)) + faults
          <= shown[d] + One(MayPush(send[s], d)) + faults'
  <2> SUFFICES ASSUME NEW d \in Devices
               PROVE  shown[d] + One(MayPush(step, d)) + faults
                        <= shown[d] + One(MayPush(send[s], d)) + faults'
    OBVIOUS
  <2>1. shown[d] \in Nat
    BY <1>1
  <2> PICK i, w : i = One(MayPush(step, d)) /\ w = One(MayPush(send[s], d))
    OBVIOUS
  <2>2. i \in 0..1 /\ w \in 0..1
    BY OneIs
  <2>3. CASE Fault
    BY <1>1, <2>1, <2>2, <2>3 DEF Fault
  <2>4. CASE NoFault /\ (MayPush(step, d) => MayPush(send[s], d))
    <3>1. i <= w
      BY <2>2, <2>4, OneIs
    <3> QED
      BY <1>1, <2>1, <2>2, <2>4, <3>1 DEF NoFault
  <2> QED
    BY <2>3, <2>4
<1> QED
  BY <1>1, <1>2, <1>3, PaidQuietly

LEMMA ClaimPaid ==
  ASSUME PushShape, Budget, NEW s \in Senders, ClaimEvent(s)
  PROVE  Paid(s)
<1>1. send[s].at = "claiming" /\ s \notin Holders /\ \A d : ~MayPush(send[s], d)
  BY DEF ClaimEvent, Holders, MayPush
<1>2. CASE Take /\ Goto(s, [at |-> "belling", row |-> TRUE])
  <2> PICK step : step = [at |-> "belling", row |-> TRUE]
    OBVIOUS
  <2>1. step \in Steps /\ step.at = "belling" /\ step.row = TRUE
    BY DEF Steps
  <2>2. /\ send'[s] = step /\ \A t \in Senders \ {s} : send'[t] = send[t]
        /\ send' \in [Senders -> Steps]
    BY <1>2, <2>1, Going
  <2>3. /\ Takeable /\ event' = "processing" /\ leased' = TRUE
        /\ attempts' \in 0..MaxAttempts
    BY <1>2, TakeFacts
  <2>4. s \in Holders'
    BY <2>1, <2>2 DEF Holders
  <2>5. ~Takeable'
    BY <2>3, <2>4 DEF Takeable
  <2>6. UNCHANGED <<young, bell, subscribed, shown, rowless, faults>>
    BY DEF ClaimEvent, NoFault
  <2>7. PushShape'
    BY <2>2, <2>3, <2>6 DEF PushShape, PushTypeOK
  <2>8. Budget'
    <3>1. \A d \in Devices :
            shown'[d] + One(MayPush(send'[s], d)) + One(Takeable') + faults
              <= shown[d] + One(MayPush(send[s], d)) + One(Takeable) + faults'
      <4> SUFFICES ASSUME NEW d \in Devices
                   PROVE  shown[d] + One(MayPush(send'[s], d)) + One(Takeable') + faults
                            <= shown[d] + One(MayPush(send[s], d)) + One(Takeable) + faults
        BY <2>6
      <4>1. shown[d] \in Nat /\ faults \in Nat
        BY PushAssumption DEF PushAssumption, PushShape, PushTypeOK
      <4>2. One(Takeable) = 1 /\ One(Takeable') = 0 /\ One(MayPush(send[s], d)) = 0
        BY <1>1, <2>3, <2>5 DEF One
      <4>3. One(MayPush(send'[s], d)) \in 0..1
        BY OneIs
      <4> QED
        BY <4>1, <4>2, <4>3
    <3>2. shown' \in [Devices -> Nat] /\ faults' \in Nat
      BY <2>6, PushAssumption DEF PushAssumption, PushShape, PushTypeOK
    <3> QED
      BY <2>2, <3>1, <3>2, BudgetStep
  <2>9. Found'
    BY <2>3 DEF Found
  <2> QED
    BY <2>2, <2>7, <2>8, <2>9 DEF Paid
<1>3. CASE /\ event # "none" /\ ~Reclaimable
           /\ Goto(s, NoCall) /\ UNCHANGED <<event, attempts, leased>>
  <2>1. NoCall \in Steps /\ \A d : ~MayPush(NoCall, d)
    BY DEF Steps, NoCall, MayPush
  <2>2. /\ UNCHANGED <<eventRow, shown>> /\ NoFault /\ Found'
        /\ bell' \in BOOLEAN /\ rowless' \in BOOLEAN /\ (rowless => rowless')
    BY <1>3 DEF ClaimEvent, eventRow, PushShape, PushTypeOK, Found
  <2>3. subscribed' \subseteq Devices
    BY DEF ClaimEvent, PushShape, PushTypeOK
  <2> QED
    BY <1>1, <1>3, <2>1, <2>2, <2>3, PaidNothing
<1> QED
  BY <1>2, <1>3 DEF ClaimEvent

LEMMA ClaimErrorsPaid ==
  ASSUME PushShape, Budget, NEW s \in Senders, ClaimErrors(s)
  PROVE  Paid(s)
<1> PICK step : step = [at |-> "legacy"]
  OBVIOUS
<1>1. step \in Steps /\ step.at = "legacy" /\ Goto(s, step)
  BY DEF Steps, ClaimErrors
<1>2. send[s].at = "claiming" /\ s \notin Holders /\ \A d : ~MayPush(send[s], d)
  BY DEF ClaimErrors, Holders, MayPush
<1>3. /\ send'[s] = step /\ \A t \in Senders \ {s} : send'[t] = send[t]
      /\ send' \in [Senders -> Steps]
  BY <1>1, Going
<1>4. UNCHANGED <<young, bell, subscribed, shown, rowless>> /\ Fault
  BY DEF ClaimErrors
<1>5. faults \in Nat /\ faults' = faults + 1 /\ faults' \in 0..MaxFaults
  BY <1>4, PushAssumption DEF PushAssumption, PushShape, PushTypeOK, Fault
<1>6. CASE Take
  <2>1. /\ Takeable /\ event' = "processing" /\ leased' = TRUE
        /\ attempts' \in 0..MaxAttempts
    BY <1>6, TakeFacts
  <2>2. PushShape'
    BY <1>3, <1>4, <1>5, <2>1 DEF PushShape, PushTypeOK
  <2>3. Budget'
    <3>1. \A d \in Devices :
            shown'[d] + One(MayPush(send'[s], d)) + One(Takeable') + faults
              <= shown[d] + One(MayPush(send[s], d)) + One(Takeable) + faults'
      <4> SUFFICES ASSUME NEW d \in Devices
                   PROVE  shown[d] + One(MayPush(send'[s], d)) + One(Takeable') + faults
                            <= shown[d] + One(MayPush(send[s], d)) + One(Takeable) + faults'
        BY <1>4
      <4>1. shown[d] \in Nat
        BY DEF PushShape, PushTypeOK
      <4>2. One(Takeable) = 1 /\ One(MayPush(send[s], d)) = 0
        BY <1>2, <2>1 DEF One
      <4>3. One(MayPush(send'[s], d)) \in 0..1 /\ One(Takeable') \in 0..1
        BY OneIs
      <4> QED
        BY <1>5, <4>1, <4>2, <4>3
    <3>2. shown' \in [Devices -> Nat] /\ faults' \in Nat
      BY <1>4, <1>5 DEF PushShape, PushTypeOK
    <3> QED
      BY <1>3, <3>1, <3>2, BudgetStep
  <2>4. Found'
    BY <2>1 DEF Found
  <2> QED
    BY <1>3, <2>2, <2>3, <2>4 DEF Paid
<1>7. CASE UNCHANGED <<event, attempts, leased>>
  <2>1. UNCHANGED <<eventRow, shown>>
    BY <1>4, <1>7 DEF eventRow
  <2>2. bell' \in BOOLEAN /\ rowless' \in BOOLEAN /\ (rowless => rowless')
    BY <1>4 DEF PushShape, PushTypeOK
  <2>3. subscribed' \subseteq Devices
    BY <1>4 DEF PushShape, PushTypeOK
  <2> QED
    BY <1>1, <1>2, <1>4, <2>1, <2>2, <2>3, PaidNothing
<1> QED
  BY <1>6, <1>7 DEF ClaimErrors

LEMMA LegacyPaid ==
  ASSUME PushShape, Budget, NEW s \in Senders, LegacyInsert(s) \/ LegacyFails(s)
  PROVE  Paid(s)
<1>1. send[s].at = "legacy" /\ s \notin Holders /\ \A d : MayPush(send[s], d)
  BY DEF LegacyInsert, LegacyFails, Holders, MayPush
<1>2. CASE LegacyInsert(s) /\ event = "none"
  <2> PICK step : step = [at |-> "belling", row |-> TRUE]
    OBVIOUS
  <2>1. step \in Steps /\ step.at = "belling" /\ Goto(s, step)
    BY <1>2 DEF Steps, LegacyInsert
  <2>2. /\ send'[s] = step /\ \A t \in Senders \ {s} : send'[t] = send[t]
        /\ send' \in [Senders -> Steps]
    BY <2>1, Going
  <2>3. /\ event' = "sent" /\ attempts' = 1 /\ leased' = TRUE
        /\ UNCHANGED <<young, bell, subscribed, shown, rowless, faults>>
    BY <1>2 DEF LegacyInsert, NoFault
  <2>4. Takeable /\ ~Takeable'
    BY <1>2, <2>3 DEF Takeable
  <2>5. attempts' \in 0..MaxAttempts
    BY <2>3, PushAssumption DEF PushAssumption
  <2>6. PushShape'
    BY <2>2, <2>3, <2>5 DEF PushShape, PushTypeOK, Terminal
  <2>7. Budget'
    <3>1. \A d \in Devices :
            shown'[d] + One(MayPush(send'[s], d)) + One(Takeable') + faults
              <= shown[d] + One(MayPush(send[s], d)) + One(Takeable) + faults'
      <4> SUFFICES ASSUME NEW d \in Devices
                   PROVE  shown[d] + One(MayPush(send'[s], d)) + One(Takeable') + faults
                            <= shown[d] + One(MayPush(send[s], d)) + One(Takeable) + faults
        BY <2>3
      <4>1. shown[d] \in Nat /\ faults \in Nat
        BY PushAssumption DEF PushAssumption, PushShape, PushTypeOK
      <4>2. One(Takeable) = 1 /\ One(Takeable') = 0
        BY <2>4, OneIs
      <4>3. One(MayPush(send'[s], d)) \in 0..1 /\ One(MayPush(send[s], d)) \in 0..1
        BY OneIs
      <4> QED
        BY <4>1, <4>2, <4>3
    <3>2. shown' \in [Devices -> Nat] /\ faults' \in Nat
      BY <2>3, PushAssumption DEF PushAssumption, PushShape, PushTypeOK
    <3> QED
      BY <2>2, <3>1, <3>2, BudgetStep
  <2>8. Found'
    BY <2>3 DEF Found
  <2> QED
    BY <2>2, <2>6, <2>7, <2>8 DEF Paid
<1>3. CASE LegacyInsert(s) /\ event # "none"
  <2>1. NoCall \in Steps /\ \A d : ~MayPush(NoCall, d)
    BY DEF Steps, NoCall, MayPush
  <2>2. /\ UNCHANGED <<eventRow, shown, bell, subscribed, rowless>> /\ NoFault
        /\ Goto(s, NoCall) /\ Found'
    BY <1>3 DEF LegacyInsert, eventRow, Found
  <2>3. bell \in BOOLEAN /\ rowless \in BOOLEAN /\ subscribed \subseteq Devices
    BY DEF PushShape, PushTypeOK
  <2> QED
    BY <1>1, <2>1, <2>2, <2>3, PaidNothing
<1>4. CASE LegacyFails(s)
  <2> PICK step : step = [at |-> "belling", row |-> FALSE]
    OBVIOUS
  <2>1. step \in Steps /\ Goto(s, step)
    BY <1>4 DEF Steps, LegacyFails
  <2>2. /\ UNCHANGED <<eventRow, shown, bell, subscribed>> /\ NoFault
        /\ rowless' = TRUE /\ Found'
    BY <1>4 DEF LegacyFails, Found
  <2>3. bell \in BOOLEAN /\ subscribed \subseteq Devices
    BY DEF PushShape, PushTypeOK
  <2> QED
    BY <1>1, <2>1, <2>2, <2>3, PaidNothing
<1> QED
  BY <1>2, <1>3, <1>4

\* The bell and the query of the subscriptions.
LEMMA ReadPaid ==
  ASSUME PushShape, Budget, NEW s \in Senders,
         RecordBell(s) \/ BellFails(s) \/ ReadSubscriptions(s) \/ ReadFails(s)
  PROVE  Paid(s)
<1>1. /\ send[s] \in [at : {"belling", "reading"}, row : BOOLEAN]
      /\ \A d : MayPush(send[s], d)
  BY StepShape DEF RecordBell, BellFails, ReadSubscriptions, ReadFails, MayPush
<1>2. /\ UNCHANGED <<eventRow, shown, subscribed, rowless>> /\ bell' \in BOOLEAN
      /\ Fault \/ NoFault
  BY DEF RecordBell, BellFails, ReadSubscriptions, ReadFails, PushShape, PushTypeOK
<1>3. rowless \in BOOLEAN /\ subscribed \subseteq Devices
  BY DEF PushShape, PushTypeOK
<1>4. CASE RecordBell(s) \/ BellFails(s)
  <2> PICK step : step = [send[s] EXCEPT !.at = "reading"]
    OBVIOUS
  <2>1. /\ step \in [at : {"belling", "reading"}, row : BOOLEAN]
        /\ step.at = "reading" /\ step.row = send[s].row
    BY <1>1
  <2>2. step \in Steps /\ Goto(s, step)
    BY <1>4, <2>1 DEF Steps, RecordBell, BellFails
  <2>3. s \in Holders => s \in Holders'
    BY <2>1, <2>2, Going DEF Holders
  <2> QED
    BY <1>1, <1>2, <1>3, <2>2, <2>3, PaidNothing
<1>5. CASE ReadSubscriptions(s) \/ ReadFails(s)
  <2>1. PICK todo \in SUBSET Devices :
          \E outcomes \in SUBSET {"failed"} : Sending(s, todo, outcomes)
    BY <1>3, <1>5 DEF ReadSubscriptions, ReadFails
  <2>2. PICK outcomes \in SUBSET {"failed"} : Sending(s, todo, outcomes)
    BY <2>1
  <2> PICK step : step = [at |-> "sending", row |-> send[s].row, todo |-> todo,
                          outcomes |-> outcomes]
    OBVIOUS
  <2>3. /\ step \in [at : {"sending"}, row : BOOLEAN, todo : SUBSET Devices,
                     outcomes : SUBSET {"sent", "failed", "removed"}]
        /\ step.at = "sending" /\ step.row = send[s].row
    BY <1>1, <2>1, <2>2
  <2>4. step \in Steps /\ Goto(s, step)
    BY <2>2, <2>3 DEF Steps, Sending
  <2>5. s \in Holders => s \in Holders'
    BY <2>3, <2>4, Going DEF Holders
  <2> QED
    BY <1>1, <1>2, <1>3, <2>4, <2>5, PaidNothing
<1> QED
  BY <1>4, <1>5

\* One more push on one device, paid for by the call's own or by a fault.
LEMMA ShownPaid ==
  ASSUME PushShape, NEW s \in Senders, NEW e \in Devices, NEW step,
         shown' = [shown EXCEPT ![e] = @ + 1],
         MayPush(send[s], e),
         \A d \in Devices : MayPush(step, d) => MayPush(send[s], d),
         Fault \/ (NoFault /\ ~MayPush(step, e))
  PROVE  /\ shown' \in [Devices -> Nat] /\ faults' \in 0..MaxFaults
         /\ \A d \in Devices :
              shown'[d] + One(MayPush(step, d)) + faults
                <= shown[d] + One(MayPush(send[s], d)) + faults'
<1>1. shown \in [Devices -> Nat] /\ faults \in 0..MaxFaults /\ MaxFaults \in Nat
  BY PushAssumption DEF PushAssumption, PushShape, PushTypeOK
<1>2. faults' \in 0..MaxFaults /\ faults' \in {faults, faults + 1}
  BY <1>1 DEF Fault, NoFault
<1>3. ASSUME NEW d \in Devices
      PROVE  shown'[d] + One(MayPush(step, d)) + faults
               <= shown[d] + One(MayPush(send[s], d)) + faults'
  <2> PICK i, w : i = One(MayPush(step, d)) /\ w = One(MayPush(send[s], d))
    OBVIOUS
  <2>1. i \in 0..1 /\ w \in 0..1
    BY OneIs
  <2>2. i <= w
    <3>1. CASE MayPush(send[s], d)
      <4>1. w = 1
        BY <3>1 DEF One
      <4> QED
        BY <2>1, <4>1
    <3>2. CASE ~MayPush(send[s], d)
      <4>1. i = 0
        BY <3>2 DEF One
      <4> QED
        BY <2>1, <4>1
    <3> QED
      BY <3>1, <3>2
  <2>3. CASE d # e
    <3>1. shown'[d] = shown[d]
      BY <1>1, <2>3
    <3>2. shown[d] + i + faults <= shown[d] + w + faults'
      BY <1>1, <1>2, <2>1, <2>2
    <3> QED
      BY <3>1, <3>2
  <2>4. CASE d = e
    <3>1. shown'[d] = shown[d] + 1 /\ shown[d] \in Nat
      BY <1>1, <2>4
    <3>2. w = 1
      BY <2>4 DEF One
    <3>3. CASE Fault
      <4>1. faults' = faults + 1
        BY <3>3 DEF Fault
      <4> QED
        BY <1>1, <2>1, <3>1, <3>2, <4>1
    <3>4. CASE NoFault /\ ~MayPush(step, e)
      <4>1. i = 0 /\ faults' = faults
        BY <2>4, <3>4 DEF One, NoFault
      <4> QED
        BY <1>1, <3>1, <3>2, <4>1
    <3> QED
      BY <3>3, <3>4
  <2> QED
    BY <2>3, <2>4
<1> QED
  BY <1>1, <1>2, <1>3

LEMMA DeliverPaid ==
  ASSUME PushShape, Budget, NEW s \in Senders, NEW e \in Devices, Deliver(s, e)
  PROVE  Paid(s)
<1>1. /\ send[s] \in [at : {"sending"}, row : BOOLEAN, todo : SUBSET Devices,
                      outcomes : SUBSET {"sent", "failed", "removed"}]
      /\ send[s].at = "sending" /\ e \in send[s].todo /\ MayPush(send[s], e)
  BY StepShape DEF Deliver, MayPush
<1>2. /\ UNCHANGED <<eventRow, bell, rowless>> /\ bell \in BOOLEAN /\ rowless \in BOOLEAN
      /\ subscribed \subseteq Devices
  BY DEF Deliver, PushShape, PushTypeOK
<1>3. PICK outcome \in {"sent", "failed", "removed"} :
        /\ Done(s, e, outcome)
        /\ \/ /\ outcome = "sent" \/ Fault
              /\ Fault \/ NoFault
              /\ shown' = [shown EXCEPT ![e] = @ + 1] /\ UNCHANGED subscribed
           \/ /\ NoFault /\ UNCHANGED shown /\ subscribed' \subseteq subscribed
  BY DEF Deliver
<1> PICK step : step = [at |-> "sending", row |-> send[s].row,
                        todo |-> send[s].todo \ {e},
                        outcomes |-> send[s].outcomes \cup {outcome}]
  OBVIOUS
<1>4. /\ step \in [at : {"sending"}, row : BOOLEAN, todo : SUBSET Devices,
                   outcomes : SUBSET {"sent", "failed", "removed"}]
      /\ step.at = "sending" /\ step.row = send[s].row /\ step.todo = send[s].todo \ {e}
      /\ step.outcomes = send[s].outcomes \cup {outcome}
  BY <1>1
<1>5. step \in Steps /\ Goto(s, step)
  BY <1>3, <1>4 DEF Steps, Done, Sending
<1>6. s \in Holders => s \in Holders'
  BY <1>4, <1>5, Going DEF Holders
<1>7. \A d \in Devices : MayPush(step, d) => MayPush(send[s], d)
  BY <1>1, <1>4 DEF MayPush
<1>8. CASE /\ outcome = "sent" \/ Fault
           /\ Fault \/ NoFault
           /\ shown' = [shown EXCEPT ![e] = @ + 1] /\ UNCHANGED subscribed
  <2>1. Fault \/ (NoFault /\ ~MayPush(step, e))
    BY <1>4, <1>8 DEF MayPush
  <2>2. /\ shown' \in [Devices -> Nat] /\ faults' \in 0..MaxFaults
        /\ \A d \in Devices :
             shown'[d] + One(MayPush(step, d)) + faults
               <= shown[d] + One(MayPush(send[s], d)) + faults'
    BY <1>1, <1>7, <1>8, <2>1, ShownPaid
  <2> QED
    BY <1>1, <1>2, <1>5, <1>6, <1>8, <2>2, PaidQuietly
<1>9. CASE NoFault /\ UNCHANGED shown /\ subscribed' \subseteq subscribed
  BY <1>1, <1>2, <1>5, <1>6, <1>7, <1>9, PaidNothing
<1> QED
  BY <1>3, <1>8, <1>9

\* A call that ends with a fault: the fault pays for the event it leaves behind.
LEMMA DropPaid ==
  ASSUME PushShape, Budget, NEW s \in Senders, Goto(s, NoCall), Fault,
         UNCHANGED <<eventRow, bell, subscribed, shown, rowless>>
  PROVE  /\ PushShape' /\ Budget' /\ (Found => Found')
         /\ \A t \in Senders \ {s} : send'[t] = send[t]
<1>1. NoCall \in Steps /\ \A d : ~MayPush(NoCall, d)
  BY DEF Steps, NoCall, MayPush
<1>2. /\ send'[s] = NoCall /\ \A t \in Senders \ {s} : send'[t] = send[t]
      /\ send' \in [Senders -> Steps]
  BY <1>1, Going
<1>3. UNCHANGED <<event, attempts, young, leased, bell, subscribed, shown, rowless>>
  BY DEF eventRow
<1>4. faults \in Nat /\ faults' = faults + 1 /\ faults' \in 0..MaxFaults
  BY PushAssumption DEF PushAssumption, PushShape, PushTypeOK, Fault
<1>5. PushShape'
  BY <1>2, <1>3, <1>4 DEF PushShape, PushTypeOK
<1>6. \A d \in Devices :
        shown'[d] + One(MayPush(send'[s], d)) + One(Takeable') + faults
          <= shown[d] + One(MayPush(send[s], d)) + One(Takeable) + faults'
  <2> SUFFICES ASSUME NEW d \in Devices
               PROVE  shown[d] + One(MayPush(NoCall, d)) + One(Takeable') + faults
                        <= shown[d] + One(MayPush(send[s], d)) + One(Takeable) + faults'
    BY <1>2, <1>3
  <2>1. shown[d] \in Nat
    BY DEF PushShape, PushTypeOK
  <2>2. One(MayPush(NoCall, d)) = 0
    BY <1>1 DEF One
  <2>3. /\ One(MayPush(send[s], d)) \in 0..1 /\ One(Takeable) \in 0..1
        /\ One(Takeable') \in 0..1
    BY OneIs
  <2> QED
    BY <1>4, <2>1, <2>2, <2>3
<1>7. shown' \in [Devices -> Nat] /\ faults' \in Nat
  BY <1>3, <1>4 DEF PushShape, PushTypeOK
<1>8. Budget'
  BY <1>2, <1>6, <1>7, BudgetStep
<1> QED
  BY <1>2, <1>3, <1>5, <1>8 DEF Found

\* The result, of which the event may be open again: then nothing was pushed.
LEMMA ResultPaid ==
  ASSUME PushShape, Budget, NEW s \in Senders, RecordResult(s) \/ RecordFails(s)
  PROVE  Paid(s)
<1>1. /\ send[s] \in [at : {"sending"}, row : BOOLEAN, todo : SUBSET Devices,
                      outcomes : SUBSET {"sent", "failed", "removed"}]
      /\ send[s].at = "sending" /\ Goto(s, NoCall)
  BY StepShape DEF RecordResult, RecordFails
<1>2. NoCall \in Steps /\ \A d : ~MayPush(NoCall, d)
  BY DEF Steps, NoCall, MayPush
<1>3. /\ send'[s] = NoCall /\ \A t \in Senders \ {s} : send'[t] = send[t]
      /\ send' \in [Senders -> Steps]
  BY <1>1, <1>2, Going
<1>4. UNCHANGED <<attempts, young, leased, bell, subscribed, shown, rowless>>
  BY DEF RecordResult, RecordFails, eventRow
<1>5. CASE event' = event /\ (send[s].row = FALSE \/ Fault) /\ (Fault \/ NoFault)
  <2>1. /\ UNCHANGED eventRow /\ bell \in BOOLEAN /\ rowless \in BOOLEAN
        /\ subscribed \subseteq Devices
    BY <1>4, <1>5 DEF PushShape, PushTypeOK, eventRow
  <2>2. CASE send[s].row = FALSE
    <3>1. s \notin Holders
      BY <2>2 DEF Holders
    <3> QED
      BY <1>1, <1>2, <1>4, <1>5, <2>1, <3>1, PaidNothing
  <2>3. CASE Fault
    BY <1>1, <1>4, <1>5, <2>1, <2>3, DropPaid DEF Paid
  <2> QED
    BY <1>5, <2>2, <2>3
<1>6. CASE /\ RecordResult(s) /\ send[s].row
           /\ event' = Status(send[s].outcomes)
  <2>1. NoFault /\ send[s].todo = {} /\ event' \in {"failed"} \cup Terminal
    BY <1>6 DEF RecordResult, Status, Terminal
  <2>2. PushShape'
    BY <1>3, <1>4, <2>1 DEF PushShape, PushTypeOK, NoFault, Terminal
  <2>3. ASSUME NEW d \in Devices
        PROVE  One(Takeable') <= One(MayPush(send[s], d))
    <3>1. CASE "sent" \in send[s].outcomes
      <4>1. event' = "sent"
        BY <1>6, <3>1 DEF Status
      <4>2. ~Takeable'
        BY <4>1 DEF Takeable
      <4>3. One(Takeable') = 0
        BY <4>2 DEF One
      <4> QED
        BY <4>3, OneIs
    <3>2. CASE "sent" \notin send[s].outcomes
      <4>1. MayPush(send[s], d)
        BY <1>1, <3>2 DEF MayPush
      <4>2. One(MayPush(send[s], d)) = 1
        BY <4>1 DEF One
      <4> QED
        BY <4>2, OneIs
    <3> QED
      BY <3>1, <3>2
  <2>4. \A d \in Devices :
          shown'[d] + One(MayPush(send'[s], d)) + One(Takeable') + faults
            <= shown[d] + One(MayPush(send[s], d)) + One(Takeable) + faults'
    <3> SUFFICES ASSUME NEW d \in Devices
                 PROVE  shown[d] + One(MayPush(NoCall, d)) + One(Takeable') + faults
                          <= shown[d] + One(MayPush(send[s], d)) + One(Takeable) + faults
      BY <1>3, <1>4, <2>1 DEF NoFault
    <3>1. shown[d] \in Nat /\ faults \in Nat
      BY PushAssumption DEF PushAssumption, PushShape, PushTypeOK
    <3>2. One(MayPush(NoCall, d)) = 0
      BY <1>2 DEF One
    <3>3. /\ One(MayPush(send[s], d)) \in 0..1 /\ One(Takeable) \in 0..1
          /\ One(Takeable') \in 0..1
      BY OneIs
    <3> QED
      BY <2>3, <3>1, <3>2, <3>3
  <2>5. shown' \in [Devices -> Nat] /\ faults' \in Nat
    BY <1>4, <2>1, PushAssumption DEF PushAssumption, PushShape, PushTypeOK, NoFault
  <2>6. Budget'
    BY <1>3, <2>4, <2>5, BudgetStep
  <2>7. Found => Found'
    BY <2>1 DEF Found, Terminal
  <2> QED
    BY <1>1, <1>3, <2>2, <2>6, <2>7 DEF Paid
<1>7. CASE RecordResult(s)
  <2>1. send[s].row \in BOOLEAN
    BY <1>1
  <2>2. CASE send[s].row
    BY <1>6, <1>7, <2>2 DEF RecordResult
  <2>3. CASE ~send[s].row
    BY <1>5, <1>7, <2>1, <2>3 DEF RecordResult
  <2> QED
    BY <2>2, <2>3
<1>8. CASE RecordFails(s)
  BY <1>5, <1>8 DEF RecordFails, eventRow
<1> QED
  BY <1>7, <1>8

LEMMA SenderPaid ==
  ASSUME PushShape, Budget, NEW s \in Senders, SenderStep(s)
  PROVE  Paid(s)
BY ClaimPaid, ClaimErrorsPaid, LegacyPaid, ReadPaid, DeliverPaid, ResultPaid
   DEF SenderStep

-----------------------------------------------------------------------------
(* What happens around the calls.                                          *)

LEMMA StaysPaid ==
  ASSUME PushShape, Budget, UNCHANGED <<send, shown>>, faults' \in Nat,
         One(Takeable') + faults <= One(Takeable) + faults'
  PROVE  Budget'
<1>1. Receipt \in Senders
  BY NoticeAssumption
<1>2. \A d \in Devices :
        shown'[d] + One(MayPush(send'[Receipt], d)) + One(Takeable') + faults
          <= shown[d] + One(MayPush(send[Receipt], d)) + One(Takeable) + faults'
  <2> SUFFICES ASSUME NEW d \in Devices
               PROVE  shown[d] + One(MayPush(send[Receipt], d)) + One(Takeable') + faults
                        <= shown[d] + One(MayPush(send[Receipt], d)) + One(Takeable) + faults'
    OBVIOUS
  <2>1. shown[d] \in Nat /\ faults \in Nat
    BY PushAssumption DEF PushAssumption, PushShape, PushTypeOK
  <2>2. /\ One(MayPush(send[Receipt], d)) \in 0..1 /\ One(Takeable) \in 0..1
        /\ One(Takeable') \in 0..1
    BY OneIs
  <2> QED
    BY <2>1, <2>2
<1>3. shown' \in [Devices -> Nat]
  BY DEF PushShape, PushTypeOK
<1> QED
  BY <1>1, <1>2, <1>3, BudgetStep

\* The event, the calls and the devices stay as they are.
LEMMA PushUntouched ==
  ASSUME PushShape, Budget,
         UNCHANGED <<eventRow, bell, subscribed, send, shown>>,
         rowless' \in BOOLEAN, rowless => rowless', Fault \/ NoFault
  PROVE  PushShape' /\ Budget' /\ (Found => Found')
<1>1. UNCHANGED <<event, attempts, young, leased>>
  BY DEF eventRow
<1>2. faults \in Nat /\ faults' \in 0..MaxFaults /\ faults' \in Nat /\ faults <= faults'
  BY PushAssumption DEF PushAssumption, PushShape, PushTypeOK, Fault, NoFault
<1>3. PushShape'
  BY <1>1, <1>2 DEF PushShape, PushTypeOK
<1>4. One(Takeable') = One(Takeable)
  BY <1>1 DEF Takeable, Holders
<1>5. One(Takeable) \in 0..1
  BY OneIs
<1>6. Budget'
  BY <1>2, <1>4, <1>5, StaysPaid
<1> QED
  BY <1>1, <1>3, <1>6 DEF Found

LEMMA WorldPaid ==
  ASSUME PushShape, Budget, World
  PROVE  PushShape' /\ Budget' /\ (Found => Found') /\ send' = send
<1>1. faults \in 0..MaxFaults /\ MaxFaults \in Nat
  BY PushAssumption DEF PushAssumption, PushShape, PushTypeOK
<1>2. UNCHANGED <<event, attempts, bell, send, shown, rowless>>
  BY DEF World, LeasePasses, GrowsOld, Subscribe, Unsubscribe, eventRow
<1>3. /\ young' \in BOOLEAN /\ leased' \in BOOLEAN /\ subscribed' \subseteq Devices
      /\ faults' \in 0..MaxFaults /\ faults' \in Nat
  <2>1. Fault \/ NoFault
    BY DEF World, LeasePasses, GrowsOld, Subscribe, Unsubscribe
  <2>2. faults' \in 0..MaxFaults /\ faults' \in Nat
    BY <1>1, <2>1 DEF Fault, NoFault
  <2>3. young \in BOOLEAN /\ leased \in BOOLEAN /\ subscribed \subseteq Devices
    BY DEF PushShape, PushTypeOK
  <2>4. young' \in BOOLEAN /\ leased' \in BOOLEAN
    BY <2>3 DEF World, LeasePasses, GrowsOld, Subscribe, Unsubscribe, eventRow
  <2>5. subscribed' \subseteq Devices
    BY <2>3 DEF World, LeasePasses, GrowsOld, Subscribe, Unsubscribe
  <2> QED
    BY <2>2, <2>4, <2>5
<1>4. PushShape'
  BY <1>2, <1>3 DEF PushShape, PushTypeOK
<1>5. Holders' = Holders
  BY <1>2 DEF Holders
<1>6. One(Takeable) \in 0..1 /\ One(Takeable') \in 0..1
  BY OneIs
<1>7. One(Takeable') + faults <= One(Takeable) + faults'
  <2>1. CASE LeasePasses /\ Fault
    BY <1>1, <1>6, <2>1 DEF Fault
  <2>2. CASE LeasePasses /\ Holders = {}
    <3>1. Takeable /\ NoFault
      BY <2>2 DEF LeasePasses, Takeable
    <3>2. One(Takeable) = 1 /\ faults' = faults
      BY <3>1 DEF One, NoFault
    <3> QED
      BY <1>1, <1>6, <3>2
  <2>3. CASE UNCHANGED leased /\ NoFault
    <3>1. Takeable' = Takeable
      BY <1>2, <1>5, <2>3 DEF Takeable
    <3>2. One(Takeable') = One(Takeable)
      BY <3>1
    <3> QED
      BY <1>1, <1>6, <2>3, <3>2 DEF NoFault
  <2> QED
    BY <2>1, <2>2, <2>3 DEF World, LeasePasses, GrowsOld, Subscribe, Unsubscribe, eventRow
<1>8. Budget'
  BY <1>2, <1>3, <1>7, StaysPaid
<1> QED
  BY <1>2, <1>4, <1>8 DEF Found

\* A new call is paid for by the event it will take.
LEMMA CallPaid ==
  ASSUME PushShape, Budget, NEW s \in Senders, Call(s), NoFault,
         UNCHANGED <<eventRow, bell, subscribed, shown, rowless>>
  PROVE  Paid(s) /\ send'[s].at = "claiming"
<1> PICK step : step = [at |-> "claiming"]
  OBVIOUS
<1>1. step \in Steps /\ step.at = "claiming" /\ \A d : ~MayPush(step, d)
  BY DEF Steps, MayPush
<1>2. Goto(s, step) /\ s \notin Holders
  BY DEF Call, Holders, NoCall
<1>3. bell \in BOOLEAN /\ rowless \in BOOLEAN /\ subscribed \subseteq Devices
  BY DEF PushShape, PushTypeOK
<1>4. Paid(s)
  BY <1>1, <1>2, <1>3, PaidNothing
<1> QED
  BY <1>1, <1>2, <1>4, Going

-----------------------------------------------------------------------------
(* The webhook, the receipt and the invariant.                             *)

LEMMA InitNotice == ASSUME NoticeInit PROVE NoticeInv
<1>1. PushShape
  <2>1. send \in [Senders -> Steps]
    BY DEF NoticeInit, PushInit, Steps
  <2>2. attempts \in 0..MaxAttempts /\ faults \in 0..MaxFaults
    BY PushAssumption DEF NoticeInit, PushInit, PushAssumption
  <2>3. shown \in [Devices -> Nat] /\ subscribed \subseteq Devices
    BY DEF NoticeInit, PushInit
  <2> QED
    BY <2>1, <2>2, <2>3 DEF NoticeInit, PushInit, PushShape, PushTypeOK
<1>2. Budget
  <2> SUFFICES ASSUME NEW d \in Devices
               PROVE  shown[d] + Cardinality(Unspent(d)) + One(Takeable) <= 1 + faults
    BY DEF Budget
  <2>1. Unspent(d) = {}
    BY DEF NoticeInit, PushInit, Unspent, MayPush, NoCall
  <2>2. Cardinality(Unspent(d)) = 0
    BY <2>1, FS_EmptySet
  <2>3. shown[d] = 0 /\ faults = 0
    BY DEF NoticeInit, PushInit
  <2>4. One(Takeable) \in 0..1
    BY OneIs
  <2> QED
    BY <2>2, <2>3, <2>4
<1>3. HookShape /\ Noticed
  BY DEF NoticeInit, HookShape, Noticed
<1> QED
  BY <1>1, <1>2, <1>3 DEF NoticeInv

\* A step of a call tells the delivery that waits for it nothing less.
LEMMA NoticedByCall ==
  ASSUME Noticed, NEW s \in Senders, Paid(s), UNCHANGED noticeVars
  PROVE  Noticed'
<1>1. UNCHANGED <<recorded, receipt, hook, answered>>
  BY DEF noticeVars
<1>2. answered' => recorded' /\ Found'
  BY <1>1 DEF Noticed, Paid
<1>3. ASSUME NEW h \in Hooks, hook[h] = "pushing"
      PROVE  send'[h].at \in {"claiming", "legacy"} \/ Found'
  <2>1. h \in Senders
    BY NoticeAssumption
  <2>2. send[h].at \in {"claiming", "legacy"} \/ Found
    BY <1>3 DEF Noticed
  <2> QED
    BY <2>1, <2>2 DEF Paid
<1> QED
  BY <1>1, <1>2, <1>3 DEF Noticed

LEMMA HookKept ==
  ASSUME NoticeInv, NEW h \in Hooks, Receive(h) \/ HookStep(h)
  PROVE  NoticeInv'
<1>1. PushShape /\ Budget /\ HookShape /\ Noticed /\ rowless \in BOOLEAN
  BY DEF NoticeInv, PushShape, PushTypeOK
<1>2. PICK to \in {"idle", "checking", "verifying", "noticing", "pushing"} :
        hook' = [hook EXCEPT ![h] = to]
  BY DEF HookStep, Receive, CheckRecorded, CheckFails, EdgeAnswers, EdgeFails, Notify,
         NotifySkipped, AnswerHook, HookGoes
<1>3. /\ hook' \in [Hooks -> {"idle", "checking", "verifying", "noticing", "pushing"}]
      /\ hook'[h] = to /\ \A g \in Hooks \ {h} : hook'[g] = hook[g]
  BY <1>1, <1>2 DEF HookShape
<1>4. /\ recorded' \in BOOLEAN /\ receipt' \in {"none", "due", "done"}
      /\ answered' \in BOOLEAN /\ (recorded => recorded')
  BY <1>1 DEF HookStep, Receive, CheckRecorded, CheckFails, EdgeAnswers, EdgeFails, Notify,
         NotifySkipped, AnswerHook, Record, HookShape
<1>5. HookShape'
  BY <1>3, <1>4 DEF HookShape
<1>6. CASE Notify(h)
  <2>1. h \in Senders
    BY NoticeAssumption
  <2>2. Paid(h) /\ send'[h].at = "claiming"
    BY <1>1, <1>6, <2>1, CallPaid DEF Notify, NoFault
  <2>3. UNCHANGED <<recorded, answered>> /\ hook[h] = "noticing" /\ hook'[h] = "pushing"
    BY <1>1, <1>6 DEF Notify, HookGoes, HookShape
  <2>4. \A g \in Hooks \ {h} : send'[g] = send[g]
    BY <2>2, NoticeAssumption DEF Paid
  <2>5. Noticed'
    BY <1>1, <1>3, <2>2, <2>3, <2>4 DEF Noticed, Paid
  <2> QED
    BY <1>5, <2>2, <2>5 DEF NoticeInv, Paid
<1>7. CASE /\ UNCHANGED <<eventRow, bell, subscribed, send, shown>>
           /\ rowless' \in BOOLEAN /\ (rowless => rowless') /\ (Fault \/ NoFault)
           /\ to = "noticing" => recorded'
           /\ to = "pushing" => recorded' /\ Found'
           /\ answered' => answered \/ (recorded /\ Found)
  <2>1. PushShape' /\ Budget' /\ (Found => Found')
    BY <1>1, <1>7, PushUntouched
  <2>2. Noticed'
    BY <1>1, <1>3, <1>4, <1>7, <2>1 DEF Noticed
  <2> QED
    BY <1>5, <2>1, <2>2 DEF NoticeInv
<1>8. CASE Receive(h) \/ CheckRecorded(h) \/ EdgeAnswers(h)
  <2>1. /\ UNCHANGED <<eventRow, bell, subscribed, send, shown, rowless, answered>>
        /\ NoFault
    BY <1>8 DEF Receive, CheckRecorded, EdgeAnswers, pushVars, NoFault
  <2>2. /\ to \in {"idle", "checking", "verifying", "noticing"}
        /\ to = "noticing" => recorded'
    BY <1>1, <1>2, <1>8
    DEF Receive, CheckRecorded, EdgeAnswers, HookGoes, Record, HookShape
  <2> QED
    BY <1>1, <1>7, <2>1, <2>2
<1>9. CASE CheckFails(h) \/ EdgeFails(h) \/ NotifySkipped(h)
  <2>1. /\ UNCHANGED <<eventRow, bell, subscribed, send, shown, answered, recorded>>
        /\ Fault /\ rowless' \in BOOLEAN /\ (rowless => rowless')
    BY <1>1, <1>9 DEF CheckFails, EdgeFails, NotifySkipped
  <2>2. /\ to # "noticing"
        /\ to = "pushing" => rowless' = TRUE /\ hook[h] = "noticing"
    BY <1>1, <1>2, <1>9 DEF CheckFails, EdgeFails, NotifySkipped, HookGoes, HookShape
  <2>3. to = "pushing" => recorded' /\ Found'
    BY <1>1, <2>1, <2>2 DEF Noticed, Found
  <2> QED
    BY <1>1, <1>7, <2>1, <2>2, <2>3
<1>10. CASE AnswerHook(h)
  <2>1. /\ UNCHANGED <<eventRow, bell, subscribed, send, shown, rowless, recorded>>
        /\ NoFault /\ hook[h] = "pushing" /\ to = "idle" /\ send[h] = NoCall
    BY <1>1, <1>2, <1>10 DEF AnswerHook, HookGoes, HookShape, pushVars, NoFault
  <2>2. recorded /\ Found
    BY <1>1, <2>1 DEF Noticed, NoCall
  <2> QED
    BY <1>1, <1>7, <2>1, <2>2
<1> QED
  BY <1>6, <1>8, <1>9, <1>10 DEF HookStep

\* The edge function and the receipt.
LEMMA ReceiptKept ==
  ASSUME NoticeInv, EdgeRecords \/ ReceiptNotifies \/ ReceiptLost
  PROVE  NoticeInv'
<1>1. PushShape /\ Budget /\ HookShape /\ Noticed /\ rowless \in BOOLEAN
  BY DEF NoticeInv, PushShape, PushTypeOK
<1>2. UNCHANGED <<hook, answered>> /\ (recorded => recorded')
  BY DEF EdgeRecords, Record, ReceiptNotifies, ReceiptLost
<1>3. HookShape'
  BY <1>1, <1>2 DEF HookShape, EdgeRecords, Record, ReceiptNotifies, ReceiptLost
<1>4. CASE ReceiptNotifies
  <2>1. Receipt \in Senders
    BY NoticeAssumption
  <2>2. Paid(Receipt) /\ send'[Receipt].at = "claiming" /\ send[Receipt] = NoCall
    BY <1>1, <1>4, <2>1, CallPaid DEF ReceiptNotifies, NoFault, Call
  <2>3. \A h \in Hooks : h # Receipt => send'[h] = send[h]
    BY <2>2, NoticeAssumption DEF Paid
  <2>4. Noticed'
    BY <1>1, <1>2, <2>2, <2>3 DEF Noticed, Paid
  <2> QED
    BY <1>3, <2>2, <2>4 DEF NoticeInv, Paid
<1>5. CASE EdgeRecords \/ ReceiptLost
  <2>1. /\ UNCHANGED <<eventRow, bell, subscribed, send, shown, rowless>>
        /\ Fault \/ NoFault
    BY <1>5 DEF EdgeRecords, ReceiptLost, pushVars, NoFault
  <2>2. PushShape' /\ Budget' /\ (Found => Found')
    BY <1>1, <2>1, PushUntouched
  <2>3. Noticed'
    BY <1>1, <1>2, <2>1, <2>2 DEF Noticed
  <2> QED
    BY <1>3, <2>2, <2>3 DEF NoticeInv
<1> QED
  BY <1>4, <1>5

LEMMA CrashKept ==
  ASSUME NoticeInv, NEW s \in Senders, Crash(s)
  PROVE  NoticeInv'
<1>1. PushShape /\ Budget /\ HookShape /\ Noticed
  BY DEF NoticeInv
<1>2. /\ PushShape' /\ Budget' /\ (Found => Found')
      /\ \A t \in Senders \ {s} : send'[t] = send[t]
  BY <1>1, DropPaid DEF Crash
<1>3. UNCHANGED <<recorded, receipt, answered>>
  BY DEF Crash
<1>4. /\ \A h \in Hooks : hook'[h] = IF h = s THEN "idle" ELSE hook[h]
      /\ hook' \in [Hooks -> {"idle", "checking", "verifying", "noticing", "pushing"}]
  BY <1>1 DEF Crash, HookShape
<1>5. HookShape'
  BY <1>1, <1>3, <1>4 DEF HookShape
<1>6. \A h \in Hooks : h # s => send'[h] = send[h]
  BY <1>2, NoticeAssumption
<1>7. Noticed'
  BY <1>1, <1>2, <1>3, <1>4, <1>6 DEF Noticed
<1> QED
  BY <1>2, <1>5, <1>7 DEF NoticeInv

LEMMA NextNotice ==
  ASSUME NoticeInv, [NoticeNext]_allVars
  PROVE  NoticeInv'
<1>1. PushShape /\ Budget /\ HookShape /\ Noticed
  BY DEF NoticeInv
<1>2. CASE UNCHANGED allVars
  <2>1. UNCHANGED <<recorded, receipt, hook, answered>>
    BY <1>2 DEF allVars, noticeVars
  <2>2. UNCHANGED <<eventRow, bell, subscribed, send, shown, rowless>> /\ NoFault
    BY <1>2 DEF allVars, pushVars, NoFault
  <2>3. rowless \in BOOLEAN
    BY <1>1 DEF PushShape, PushTypeOK
  <2>4. PushShape' /\ Budget' /\ (Found => Found')
    BY <1>1, <2>2, <2>3, PushUntouched
  <2>5. HookShape' /\ Noticed'
    BY <1>1, <2>1, <2>2, <2>4 DEF HookShape, Noticed
  <2> QED
    BY <2>4, <2>5 DEF NoticeInv
<1>3. CASE \E s \in Senders : PushStep(s)
  <2>1. PICK s \in Senders : PushStep(s)
    BY <1>3
  <2>2. Paid(s) /\ UNCHANGED noticeVars
    BY <1>1, <2>1, SenderPaid DEF PushStep
  <2>3. HookShape'
    BY <1>1, <2>2 DEF HookShape, noticeVars
  <2> QED
    BY <1>1, <2>2, <2>3, NoticedByCall DEF NoticeInv, Paid
<1>4. CASE Retry
  <2>1. Sweeper \in Senders
    BY NoticeAssumption
  <2>2. Paid(Sweeper) /\ UNCHANGED noticeVars
    BY <1>1, <1>4, <2>1, CallPaid DEF Retry, Sweep
  <2>3. HookShape'
    BY <1>1, <2>2 DEF HookShape, noticeVars
  <2> QED
    BY <1>1, <2>1, <2>2, <2>3, NoticedByCall DEF NoticeInv, Paid
<1>5. CASE World /\ UNCHANGED noticeVars
  <2>1. PushShape' /\ Budget' /\ (Found => Found') /\ send' = send
    BY <1>1, <1>5, WorldPaid
  <2>2. UNCHANGED <<recorded, receipt, hook, answered>>
    BY <1>5 DEF noticeVars
  <2>3. HookShape' /\ Noticed'
    BY <1>1, <2>1, <2>2 DEF HookShape, Noticed
  <2> QED
    BY <2>1, <2>3 DEF NoticeInv
<1> QED
  BY <1>2, <1>3, <1>4, <1>5, HookKept, ReceiptKept, CrashKept DEF NoticeNext

LEMMA AlwaysNotice == NoticeSpec => []NoticeInv
<1>1. NoticeInit => NoticeInv
  BY InitNotice
<1>2. NoticeInv /\ [NoticeNext]_allVars => NoticeInv'
  BY NextNotice
<1>3. QED
  BY <1>1, <1>2, PTL DEF NoticeSpec

\* The event, its calls and the deliveries of the webhook keep their shape.
THEOREM NoticeTyped == NoticeSpec => []NoticeTypeOK
<1>1. NoticeInv => NoticeTypeOK
  BY DEF NoticeInv, PushShape, HookShape, NoticeTypeOK
<1>2. QED
  BY <1>1, AlwaysNotice, PTL

\* A device shows the payment once, and once more for each fault at most, however many
\* deliveries, receipts, retries and devices there are: a push is paid for by the call
\* that claimed the event, or by what failed.
THEOREM PushedAtMostOnce == NoticeSpec => []PushedOnce
<1>1. NoticeInv => PushedOnce
  <2> SUFFICES ASSUME NoticeInv, NEW d \in Devices
               PROVE  shown[d] <= 1 + faults
    BY DEF PushedOnce
  <2>1. shown[d] + Cardinality(Unspent(d)) + One(Takeable) <= 1 + faults
    BY DEF NoticeInv, Budget
  <2>2. shown[d] \in Nat /\ faults \in Nat
    BY PushAssumption DEF NoticeInv, PushAssumption, PushShape, PushTypeOK
  <2>3. IsFiniteSet(Unspent(d))
    <3>1. Unspent(d) \subseteq Senders
      BY DEF Unspent
    <3> QED
      BY <3>1, FS_Subset, PushAssumption DEF PushAssumption
  <2>4. Cardinality(Unspent(d)) \in Nat /\ One(Takeable) \in 0..1
    BY <2>3, FS_CardinalityType, OneIs
  <2> QED
    BY <2>1, <2>2, <2>4
<1>2. QED
  BY <1>1, AlwaysNotice, PTL

\* A webhook is answered 2xx only when the payment is recorded and its notification
\* taken up, or when the notifier's own reads failed.
THEOREM AnsweredIsNotified == NoticeSpec => []AnsweredMeansNotified
<1>1. NoticeInv => AnsweredMeansNotified
  BY DEF NoticeInv, Noticed, Found, AnsweredMeansNotified
<1>2. QED
  BY <1>1, AlwaysNotice, PTL

\* Nothing writes to an event that is sent or had no device, once nobody holds it.
THEOREM DoneStaysDone == NoticeSpec => DoneIsFinal
<1>1. [NoticeNext]_allVars => (Settled => event' = event)
  <2> SUFFICES ASSUME [NoticeNext]_allVars, Settled, event' # event
               PROVE  FALSE
    OBVIOUS
  <2>1. event \in {"sent", "no_subscriptions"} /\ Holders = {}
    BY DEF Settled, Terminal
  <2>2. ~Take
    BY <2>1 DEF Take, Reclaimable, Retryable
  <2>3. PICK s \in Senders : SenderStep(s)
    <3>1. ~UNCHANGED allVars /\ ~UNCHANGED pushVars /\ ~UNCHANGED eventRow
      BY DEF allVars, pushVars, eventRow
    <3>2. ASSUME NEW h \in Hooks PROVE ~Receive(h) /\ ~HookStep(h)
      BY <3>1 DEF Receive, HookStep, CheckRecorded, CheckFails, EdgeAnswers, EdgeFails,
           Notify, NotifySkipped, AnswerHook
    <3>3. ~EdgeRecords /\ ~ReceiptNotifies /\ ~ReceiptLost /\ ~Retry
      BY <3>1 DEF EdgeRecords, ReceiptNotifies, ReceiptLost, Retry, Sweep
    <3>4. ~World
      BY <3>1 DEF World, LeasePasses, GrowsOld, Subscribe, Unsubscribe
    <3>5. \A s \in Senders : ~Crash(s)
      BY <3>1 DEF Crash
    <3> QED
      BY <3>1, <3>2, <3>3, <3>4, <3>5 DEF NoticeNext, PushStep
  <2>4. ~UNCHANGED eventRow
    BY DEF eventRow
  <2>5. ~ClaimEvent(s) /\ ~ClaimErrors(s) /\ ~LegacyInsert(s)
    BY <2>1, <2>2 DEF ClaimEvent, ClaimErrors, LegacyInsert
  <2>6. RecordResult(s)
    BY <2>3, <2>4, <2>5 DEF SenderStep, LegacyFails, RecordBell, BellFails,
         ReadSubscriptions, ReadFails, Deliver, RecordFails
  <2>7. s \in Holders
    BY <2>6 DEF RecordResult, Holders
  <2> QED
    BY <2>1, <2>7
<1>2. QED
  BY <1>1, PTL DEF NoticeSpec, DoneIsFinal

-----------------------------------------------------------------------------
(* The monitoring of payments.                                             *)

LEMMA CategoryIs ==
  ASSUME NEW p, NEW row
  PROVE  /\ row = "paid" /\ Recovered(p) => Category(p, row) = "recovered"
         /\ row = "paid" /\ ~Recovered(p) => Category(p, row) = "successful"
         /\ row # "paid" => Category(p, row) \in {"resolved", "pending", "failed", "orphaned"}
         /\ row # "paid" => (Category(p, row) = "resolved" <=> Resolved(p))
BY Zenon DEF Category

LEMMA OneCategory ==
  ASSUME NEW x, NEW c, "paid" \notin x.rows, \A row : row # "paid" => Category(x, row) = c
  PROVE  Categories(x) = {c}
<1> DEFINE R == IF x.rows = {} THEN {"none"} ELSE x.rows
<1>1. Categories(x) = {Category(x, row) : row \in R}
  BY DEF Categories
<1>2. R # {} /\ "paid" \notin R
  OBVIOUS
<1> HIDE DEF R
<1>3. \A row \in R : Category(x, row) = c
  BY <1>2
<1>4. \E row \in R : Category(x, row) = c
  BY <1>2, <1>3
<1> QED
  BY <1>1, <1>3, <1>4

LEMMA LogWritten ==
  ASSUME NEW p \in Monitored, NEW l \in Seq([source : Sources, success : BOOLEAN]),
         NEW x, x = [p EXCEPT !.log = l]
  PROVE  x \in Monitored /\ x.rows = p.rows /\ x.log = l /\ x.age = p.age
BY DEF Monitored

LEMMA ActionWritten ==
  ASSUME NEW p \in Monitored, NEW act \in AdminActions,
         NEW x, x = [p EXCEPT !.actions = Append(@, act)]
  PROVE  /\ x \in Monitored /\ x.rows = p.rows /\ x.log = p.log /\ x.age = p.age
         /\ x.actions = Append(p.actions, act)
<1> DEFINE as == Append(p.actions, act)
<1>1. as \in Seq(AdminActions)
  BY DEF Monitored
<1>2. x = [p EXCEPT !.actions = as]
  OBVIOUS
<1> HIDE DEF as
<1>3. x \in Monitored /\ x.rows = p.rows /\ x.log = p.log /\ x.age = p.age /\ x.actions = as
  BY <1>1, <1>2 DEF Monitored
<1> QED
  BY <1>3 DEF as

\* Nothing leaves the logs and the rows of a payment.
Onward(p, x) == /\ x \in Monitored
                /\ p.rows \subseteq x.rows /\ x.rows \subseteq p.rows \cup {"paid"}
                /\ Recovered(p) => Recovered(x)

LEMMA VerifiedOnward ==
  ASSUME NEW p \in Monitored, NEW source \in Sources, NEW x \in Verified(p, source)
  PROVE  Onward(p, x)
<1> DEFINE Entry == [source : Sources, success : BOOLEAN]
           yes == [source |-> source, success |-> TRUE]
           no == [source |-> source, success |-> FALSE]
<1>1. yes \in Entry /\ no \in Entry /\ p.log \in Seq(Entry)
  BY DEF Monitored
<1>2. \/ \E l \in {p.log, Append(p.log, yes)} : x = [p EXCEPT !.rows = @ \cup {"paid"}, !.log = l]
      \/ \E l \in {p.log, Append(p.log, no)} : x = [p EXCEPT !.log = l]
  BY Zenon DEF Verified
<1>3. ASSUME NEW e \in Entry, NEW l \in {p.log, Append(p.log, e)}
      PROVE  /\ l \in Seq(Entry)
             /\ \A i \in DOMAIN p.log : i \in DOMAIN l /\ l[i] = p.log[i]
  <2>1. PICK L : L = p.log /\ L \in Seq(Entry)
    BY <1>1
  <2> HIDE DEF Entry
  <2>2. /\ Append(L, e) \in Seq(Entry)
        /\ \A i \in DOMAIN L : i \in DOMAIN Append(L, e) /\ Append(L, e)[i] = L[i]
    BY <2>1
  <2> QED
    BY <1>3, <2>1, <2>2
<1>4. CASE \E l \in {p.log, Append(p.log, yes)} : x = [p EXCEPT !.rows = @ \cup {"paid"}, !.log = l]
  <2>1. PICK l \in {p.log, Append(p.log, yes)} : x = [p EXCEPT !.rows = @ \cup {"paid"}, !.log = l]
    BY <1>4
  <2>2. /\ l \in Seq(Entry)
        /\ \A i \in DOMAIN p.log : i \in DOMAIN l /\ l[i] = p.log[i]
    BY <1>1, <1>3
  <2>3. x \in Monitored /\ x.rows = p.rows \cup {"paid"} /\ x.log = l
    <3>1. PICK r : r = p.rows \cup {"paid"} /\ r \in SUBSET {"paid", "pending"}
      BY DEF Monitored
    <3>2. x = [p EXCEPT !.rows = r, !.log = l]
      BY <2>1, <3>1
    <3> QED
      BY <2>2, <3>1, <3>2 DEF Monitored
  <2> QED
    BY <2>2, <2>3 DEF Onward, Recovered
<1>5. CASE \E l \in {p.log, Append(p.log, no)} : x = [p EXCEPT !.log = l]
  <2>1. PICK l \in {p.log, Append(p.log, no)} : x = [p EXCEPT !.log = l]
    BY <1>5
  <2>2. /\ l \in Seq(Entry)
        /\ \A i \in DOMAIN p.log : i \in DOMAIN l /\ l[i] = p.log[i]
    BY <1>1, <1>3
  <2>3. x \in Monitored /\ x.rows = p.rows /\ x.log = l
    BY <2>1, <2>2, LogWritten
  <2> QED
    BY <2>2, <2>3 DEF Onward, Recovered
<1> QED
  BY <1>2, <1>4, <1>5

LEMMA LoggedOnward ==
  ASSUME NEW p \in Monitored, NEW act \in AdminActions, NEW x \in Logged(p, act)
  PROVE  /\ x \in Monitored /\ x.rows = p.rows /\ x.log = p.log /\ x.age = p.age
         /\ x # p => x.actions = Append(p.actions, act)
         /\ Recovered(x) <=> Recovered(p)
<1>1. x = p \/ x = [p EXCEPT !.actions = Append(@, act)]
  BY DEF Logged
<1>2. /\ x \in Monitored /\ x.rows = p.rows /\ x.log = p.log /\ x.age = p.age
      /\ x # p => x.actions = Append(p.actions, act)
  BY <1>1, ActionWritten
<1> QED
  BY <1>2 DEF Recovered

\* What a call can do to a payment.
LEMMA HappensOnward ==
  ASSUME NEW p \in Monitored, NEW q \in Happens(p)
  PROVE  Onward(p, q)
<1>1. CASE \E source \in Sources : q \in Verified(p, source)
  BY <1>1, VerifiedOnward
<1>2. CASE \E act \in AdminActions : q \in Logged(p, act)
  BY <1>2, LoggedOnward DEF Onward
<1>3. CASE \E act \in AdminActions : q \in Retried(p, act)
  <2>1. PICK act \in AdminActions : q \in Retried(p, act)
    BY <1>3
  <2>2. PICK x \in Verified(p, "admin_reconcile") : q \in Logged(x, act)
    BY <2>1 DEF Retried
  <2>3. Onward(p, x)
    BY VerifiedOnward DEF Sources, RecoverySources
  <2> QED
    BY <2>2, <2>3, LoggedOnward DEF Onward
<1>4. /\ ReconcilePayment(p) = Verified(p, "admin_reconcile")
      /\ RetryPayment(p) = Retried(p, "retry")
      /\ ManualReconcilePayment(p) = Retried(p, "manual_reconcile")
      /\ RetryAllFailed(p) = Retried(p, "retry_all")
      /\ ResolvePayment(p) = Logged(p, "mark_resolved")
      /\ AddPaymentNote(p) = Logged(p, "add_note")
  BY Zenon DEF ReconcilePayment, RetryPayment, ManualReconcilePayment, RetryAllFailed,
     ResolvePayment, AddPaymentNote
<1>5. \/ \E source \in Sources : q \in Verified(p, source)
      \/ \E act \in AdminActions : q \in Logged(p, act)
      \/ \E act \in AdminActions : q \in Retried(p, act)
  <2>1. q \in UNION {Verified(p, source) : source \in Sources}
          => \E source \in Sources : q \in Verified(p, source)
    BY Zenon
  <2>2. \A act \in {"retry", "manual_reconcile", "retry_all", "mark_resolved", "add_note"} :
          act \in AdminActions
    BY DEF AdminActions
  <2>3. /\ "retry" \in AdminActions /\ "manual_reconcile" \in AdminActions
        /\ "retry_all" \in AdminActions /\ "mark_resolved" \in AdminActions
        /\ "add_note" \in AdminActions
    BY <2>2
  <2>4. \/ q \in UNION {Verified(p, source) : source \in Sources}
        \/ q \in ReconcilePayment(p) \/ q \in RetryPayment(p) \/ q \in ManualReconcilePayment(p) \/ q \in RetryAllFailed(p)
        \/ q \in ResolvePayment(p) \/ q \in AddPaymentNote(p)
    BY Zenon DEF Happens
  <2>5. "admin_reconcile" \in Sources
    BY DEF Sources, RecoverySources
  <2> QED
    BY <1>4, <2>1, <2>3, <2>4, <2>5, Zenon
<1> QED
  BY <1>1, <1>2, <1>3, <1>5

\* A recorded payment is never again pending, orphaned, failed or resolved, whatever is
\* verified, retried, marked or noted, and once shown as recovered it stays so.
THEOREM RecordedStays ==
  ASSUME NEW p \in Monitored, p.rows = {"paid"}, NEW q \in Happens(p)
  PROVE  /\ Categories(q) = {"successful"} \/ Categories(q) = {"recovered"}
         /\ Categories(p) = {"recovered"} => Categories(q) = {"recovered"}
<1>1. q \in Monitored /\ q.rows = {"paid"} /\ (Recovered(p) => Recovered(q))
  BY HappensOnward DEF Onward
<1>2. ASSUME NEW x, x.rows = {"paid"}
      PROVE  Categories(x) = {IF Recovered(x) THEN "recovered" ELSE "successful"}
  BY <1>2, CategoryIs DEF Categories
<1> QED
  BY <1>1, <1>2

\* An admin's retry of a payment that was recorded at its first try is logged as a
\* success, and from then on the panel counts the payment as recovered.
THEOREM ReplayLooksRecovered ==
  ASSUME NEW p \in Monitored, p.rows = {"paid"}
  PROVE  \E q \in RetryPayment(p) : Categories(q) = {"recovered"}
<1> DEFINE e == [source |-> "admin_reconcile", success |-> TRUE]
           q == [p EXCEPT !.rows = @ \cup {"paid"}, !.log = Append(p.log, e)]
<1>1. q \in Verified(p, "admin_reconcile")
  BY DEF Verified
<1>2. q \in RetryPayment(p)
  BY <1>1 DEF RetryPayment, Retried, Logged
<1>3. q.rows = {"paid"} /\ q.log = Append(p.log, e)
  BY DEF Monitored
<1>4. Len(p.log) + 1 \in DOMAIN q.log /\ q.log[Len(p.log) + 1] = e
  BY <1>3 DEF Monitored
<1>5. Recovered(q)
  BY <1>4 DEF Recovered, RecoverySources
<1>6. Categories(q) = {"recovered"}
  BY <1>3, <1>5, CategoryIs DEF Categories
<1> QED
  BY <1>2, <1>6

\* Only the last action tells whether a payment is resolved: a note on a resolved
\* payment whose recording failed once puts it back among those a retry of all failed
\* payments takes, and marking it again takes it out.
THEOREM NoteReopens ==
  ASSUME NEW p \in Monitored, "paid" \notin p.rows, FailedAttempt(p), p.age >= Grace,
         NEW q
  PROVE  /\ q \in AddPaymentNote(p) \ {p} => Categories(q) = {"failed"}
         /\ q \in ResolvePayment(p) \ {p} => Categories(q) = {"resolved"}
<1>1. ASSUME NEW act \in AdminActions, q \in Logged(p, act) \ {p}
      PROVE  /\ q \in Monitored /\ q.rows = p.rows /\ q.log = p.log /\ q.age = p.age
             /\ Resolved(q) <=> act = "mark_resolved"
  <2>1. /\ q \in Monitored /\ q.rows = p.rows /\ q.log = p.log /\ q.age = p.age
        /\ q.actions = Append(p.actions, act)
    BY <1>1, LoggedOnward
  <2>2. Len(q.actions) = Len(p.actions) + 1 /\ q.actions[Len(q.actions)] = act /\ q.actions # << >>
    BY <2>1 DEF Monitored
  <2> QED
    BY <2>1, <2>2 DEF Resolved
<1>2. ASSUME q \in AddPaymentNote(p) \ {p} PROVE Categories(q) = {"failed"}
  <2>1. /\ q \in Monitored /\ q.rows = p.rows /\ q.log = p.log /\ q.age = p.age /\ ~Resolved(q)
    BY <1>1, <1>2 DEF AddPaymentNote, AdminActions
  <2>2. FailedAttempt(q) /\ ~(q.age < Grace)
    BY <2>1 DEF FailedAttempt, Grace, Monitored
  <2>3. \A row : row # "paid" => Category(q, row) = "failed"
    BY <2>1, <2>2 DEF Category, Monitored, Grace
  <2> QED
    BY <2>1, <2>3, OneCategory
<1>3. ASSUME q \in ResolvePayment(p) \ {p} PROVE Categories(q) = {"resolved"}
  <2>1. q.rows = p.rows /\ Resolved(q)
    BY <1>1, <1>3 DEF ResolvePayment, AdminActions
  <2>2. \A row : row # "paid" => Category(q, row) = "resolved"
    BY <2>1, CategoryIs
  <2> QED
    BY <2>1, <2>2, OneCategory
<1> QED
  BY <1>2, <1>3

\* The number of payments without a contribution and the list of them agree as long as
\* every contribution is paid; an unpaid one is in the list and not in the number.  What
\* the next sweep will try is part of the list.
THEOREM CountsAgree ==
  ASSUME NEW items, \A r \in DOMAIN items : items[r] \in Monitored
  PROVE  /\ AwaitingRecovery(items) \subseteq AwaitingTab(items)
         /\ AwaitingContribution(items) \subseteq AwaitingTab(items)
         /\ (\A r \in DOMAIN items : items[r].rows \subseteq {"paid"})
              => AwaitingContribution(items) = AwaitingTab(items)
         /\ \A r \in AwaitingTab(items) \ AwaitingContribution(items) :
              "pending" \in items[r].rows
<1> DEFINE W == {"pending", "orphaned", "failed"}
<1>1. ASSUME NEW r \in DOMAIN items, items[r].rows = {}
      PROVE  r \in AwaitingTab(items) <=> ~Resolved(items[r])
  <2>1. Categories(items[r]) = {Category(items[r], "none")}
    BY <1>1 DEF Categories
  <2> QED
    BY <2>1, CategoryIs DEF AwaitingTab, Tab
<1>2. ASSUME NEW r \in AwaitingTab(items), items[r].rows # {}
      PROVE  "pending" \in items[r].rows
  <2>1. PICK row \in items[r].rows : Category(items[r], row) \in W
    BY <1>2 DEF AwaitingTab, Tab, Categories
  <2>2. row # "paid"
    BY <2>1, CategoryIs
  <2>3. row \in {"paid", "pending"}
    BY <2>1 DEF Monitored, AwaitingTab, Tab
  <2> QED
    BY <2>2, <2>3
<1>3. AwaitingContribution(items) \subseteq AwaitingTab(items)
  BY <1>1 DEF AwaitingContribution
<1>4. AwaitingRecovery(items) \subseteq AwaitingTab(items)
  BY DEF AwaitingRecovery, AwaitingTab, Tab
<1>5. \A r \in AwaitingTab(items) \ AwaitingContribution(items) : "pending" \in items[r].rows
  BY <1>1, <1>2 DEF AwaitingContribution, AwaitingTab, Tab
<1>6. ASSUME \A r \in DOMAIN items : items[r].rows \subseteq {"paid"}
      PROVE  AwaitingContribution(items) = AwaitingTab(items)
  <2>1. AwaitingTab(items) \subseteq DOMAIN items
    BY DEF AwaitingTab, Tab
  <2> QED
    BY <1>3, <1>5, <1>6, <2>1
<1> QED
  BY <1>3, <1>4, <1>5, <1>6
=============================================================================
