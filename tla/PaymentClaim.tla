---------------------------- MODULE PaymentClaim ----------------------------
(***************************************************************************)
(* What one collection promises when a verified payment is recorded: the   *)
(* RPC claim_payment_contributions(collection, reference, rows) of         *)
(* database/h2_atomic_contributor_code_allocation.sql, taken as the single *)
(* transaction its collection row lock makes of it (PaymentClaimTx opens   *)
(* the transaction and refines this module), together with the two other   *)
(* writers of the same rows: the organizer's edit of the collection and    *)
(* scripts/backfillUniqueContributionCodes.js.                             *)
(*                                                                         *)
(* One collection is enough: every statement of the RPC is scoped by       *)
(* collection_id.  A contribution row is named <<reference, line_index>>.  *)
(***************************************************************************)
EXTENDS Integers, Sequences, FiniteSets, Functions

CONSTANTS
  References,    \* payment references of the collection
  Rows,          \* Rows[ref]: the p_rows a verification of ref supplies
  Prefixes,      \* normalised code prefixes
  AlphaPrefixes, \* those made of letters only, the ones C1's regex can parse
  Tiers,         \* price tiers of the collection
  Legacy,        \* Legacy[ref]: the codes of references paid before C1 / H2
  Radix,         \* 10 in the code; smaller to reach the width in a run
  CodeSpace,     \* Radix^3: the numbers lpad(.., 3, '0') leaves whole
  RpcMayFail,    \* the backfill's call of the counter RPC can return an error
  MaxMinted,     \* bound: the script mints no number above it
  CapChoices,    \* values the organizer gives max_contributions; 0 is null
  QuantityChoices

NoPrefix == "no prefix"
NoTier == "no tier"
Unlimited == -1

Row == [tier : Tiers \cup {NoTier}, by : {"id", "name"},
        quantity : Nat \ {0}, prefix : Prefixes \cup {NoPrefix}]

ASSUME ConstantsAssumption ==
  /\ AlphaPrefixes \subseteq Prefixes
  /\ NoPrefix \notin Prefixes /\ NoTier \notin Tiers
  /\ Rows \in [References -> Seq(Row)]
  /\ \A ref \in References : Rows[ref] # << >>      \* NO_ROWS_SUPPLIED
  /\ DOMAIN Legacy \subseteq References
  /\ \A ref \in DOMAIN Legacy : Legacy[ref] \in [DOMAIN Rows[ref] -> Nat]
  /\ \A ref \in DOMAIN Legacy : \A i \in DOMAIN Rows[ref] :
       Rows[ref][i].prefix = NoPrefix => Legacy[ref][i] = 0
  /\ Radix \in Nat \ {0, 1} /\ CodeSpace \in Nat \ {0}
  /\ RpcMayFail \in BOOLEAN /\ MaxMinted \in Nat
  /\ CapChoices \subseteq Nat
  /\ QuantityChoices \subseteq Nat \cup {Unlimited}

Lines(ref) == {ref} \X DOMAIN Rows[ref]
RowIds == UNION {Lines(ref) : ref \in References}
RowOf(id) == Rows[id[1]][id[2]]

\* The legacy rows are a finite table under the unique index.
ASSUME LegacyAssumption ==
  /\ IsFiniteSet({id \in RowIds : id[1] \in DOMAIN Legacy})
  /\ \A r, s \in {id \in RowIds : id[1] \in DOMAIN Legacy} :
       /\ RowOf(r).prefix = RowOf(s).prefix
       /\ Legacy[r[1]][r[2]] # 0
       /\ Legacy[r[1]][r[2]] = Legacy[s[1]][s[2]]
       => r = s

Outcomes == {"none", "inserted", "idempotent", "collection_full", "tier_full"}
Idle == [stage |-> "idle"]

VARIABLES
  contributions,    \* ids of the rows with status 'paid'
  code,             \* number in a row's contributor_unique_code; 0 is null
  counters,         \* contribution_code_counters.next_number by prefix
  maxContributions, \* collections.max_contributions
  quantity,         \* price_tiers[].quantity
  reply,            \* last outcome returned for a reference
  backfill          \* where the running backfill script stands

vars == <<contributions, code, counters, maxContributions, quantity, reply,
          backfill>>

-----------------------------------------------------------------------------
\* Contributor codes.

\* lpad(n::text, 3, '0') drops the digits that do not fit, from the right:
\* exact below Radix * Radix * CodeSpace, the 100 000th code of one prefix.
Dropped(n) == CASE n < CodeSpace -> 1
                [] n >= CodeSpace /\ n < Radix * CodeSpace -> Radix
                [] OTHER -> Radix * Radix
LPad(n) == n \div Dropped(n)

Coded == {id \in contributions : code[id] # 0}
SameCode(p, n) == {id \in Coded : RowOf(id).prefix = p /\ code[id] = n}

\* Mutant: every row of a call mints from the counter as the call found it.
MintedOnce(ref, i) == counters[Rows[ref][i].prefix] + 1

\* The number row i of ref mints: its prefix's counter after the earlier rows.
Minted(ref, i) ==
  LET p == Rows[ref][i].prefix
  IN  counters[p] + Cardinality({j \in 1..i : Rows[ref][j].prefix = p})

NewCode(ref, i) ==
  IF Rows[ref][i].prefix = NoPrefix THEN 0 ELSE LPad(Minted(ref, i))

\* Mutant: the unique index is missing.
NoUniqueIndex(ref) == FALSE

\* uq_contributions_unique_code refuses one of the rows being inserted.
CodeCollision(ref) ==
  \E i \in DOMAIN Rows[ref] :
    /\ NewCode(ref, i) # 0
    /\ \/ SameCode(Rows[ref][i].prefix, NewCode(ref, i)) # {}
       \/ \E j \in 1..(i - 1) :
            /\ Rows[ref][j].prefix = Rows[ref][i].prefix
            /\ NewCode(ref, j) = NewCode(ref, i)

\* The highest suffix in use for a prefix, as C1's seeding and the script
\* take it with the regex ^([A-Za-z]+)-?(\d+)$: 0 for a prefix it can not parse.
Suffixes(p) == {0} \cup {code[id] : id \in {r \in Coded : RowOf(r).prefix = p}}
IsHighestSuffix(p, n) == IF p \in AlphaPrefixes
                         THEN n \in Suffixes(p) /\ \A m \in Suffixes(p) : m <= n
                         ELSE n = 0
SuffixCounts == {f \in [Prefixes -> {0} \cup {code[id] : id \in Coded}] :
                   \A p \in Prefixes : IsHighestSuffix(p, f[p])}

-----------------------------------------------------------------------------
\* Capacity.

Quantities == [id \in RowIds |-> RowOf(id).quantity]

\* Under one key: rows with that TierId, or rows with no TierId and that Tier name.
KeyRows(rows, t, by) == {id \in rows : RowOf(id).tier = t /\ RowOf(id).by = by}

Sold(rows, t, by) == SumFunctionOnSet(Quantities, KeyRows(rows, t, by))
Claims(ref, t, by) == Sold(Lines(ref), t, by)

\* Mutant: the cap is compared before the rows of the call are added.
CollectionFullAlready(ref) ==
  maxContributions > 0 /\ Cardinality(contributions) >= maxContributions

CollectionFull(ref) ==
  /\ maxContributions > 0
  /\ Cardinality(contributions) + Len(Rows[ref]) > maxContributions

\* Mutant: every row is checked on its own, the call's demand is not summed.
TierFullByRow(ref) ==
  \E i \in DOMAIN Rows[ref] :
    /\ Rows[ref][i].tier # NoTier
    /\ quantity[Rows[ref][i].tier] # Unlimited
    /\ Sold(contributions, Rows[ref][i].tier, Rows[ref][i].by)
         + Rows[ref][i].quantity > quantity[Rows[ref][i].tier]

TierFull(ref) ==
  \E t \in Tiers, by \in {"id", "name"} :
    /\ Claims(ref, t, by) > 0
    /\ quantity[t] # Unlimited
    /\ Sold(contributions, t, by) + Claims(ref, t, by) > quantity[t]

-----------------------------------------------------------------------------
Init ==
  /\ contributions = {id \in RowIds : id[1] \in DOMAIN Legacy}
  /\ code = [id \in RowIds |->
               IF id[1] \in DOMAIN Legacy THEN Legacy[id[1]][id[2]] ELSE 0]
  /\ counters \in SuffixCounts
  /\ maxContributions \in CapChoices
  /\ quantity \in [Tiers -> QuantityChoices]
  /\ reply = [ref \in References |-> "none"]
  /\ backfill = Idle

Answer(ref, outcome) ==
  /\ reply' = [reply EXCEPT ![ref] = outcome]
  /\ UNCHANGED <<maxContributions, quantity, backfill>>

Refuse(ref, outcome) ==
  /\ Answer(ref, outcome)
  /\ UNCHANGED <<contributions, code, counters>>

Recorded(ref) == contributions \cap Lines(ref) # {}

\* The idempotency check finds rows of the reference.
ClaimKnown(ref) ==
  /\ Recorded(ref)
  /\ Refuse(ref, "idempotent")

ClaimCollectionFull(ref) ==
  /\ ~Recorded(ref)
  /\ CollectionFull(ref)
  /\ Refuse(ref, "collection_full")

ClaimTierFull(ref) ==
  /\ ~Recorded(ref)
  /\ ~CollectionFull(ref)
  /\ TierFull(ref)
  /\ Refuse(ref, "tier_full")

\* Mutant: the idempotency check does not stop the claim.
AdmittedAgain(ref) == ~CollectionFull(ref) /\ ~TierFull(ref)

Admitted(ref) == ~Recorded(ref) /\ ~CollectionFull(ref) /\ ~TierFull(ref)

\* EXCEPTION WHEN unique_violation: everything is rolled back, counters too.
ClaimCollides(ref) ==
  /\ Admitted(ref)
  /\ CodeCollision(ref)
  /\ Refuse(ref, "idempotent")

ClaimInserts(ref) ==
  /\ Admitted(ref)
  /\ ~CodeCollision(ref)
  /\ contributions' = contributions \cup Lines(ref)
  /\ code' = [id \in RowIds |->
                IF id[1] = ref THEN NewCode(ref, id[2]) ELSE code[id]]
  /\ counters' = [p \in Prefixes |-> counters[p] +
                   Cardinality({i \in DOMAIN Rows[ref] : Rows[ref][i].prefix = p})]
  /\ Answer(ref, "inserted")

Claim(ref) ==
  \/ ClaimKnown(ref)
  \/ ClaimCollectionFull(ref)
  \/ ClaimTierFull(ref)
  \/ ClaimCollides(ref)
  \/ ClaimInserts(ref)

\* Mutant: the edit stores the places left instead of the cap.
EditToPlacesLeft(cap, q) ==
  /\ maxContributions' = cap - Cardinality(contributions)
  /\ quantity' = q
  /\ UNCHANGED <<contributions, code, counters, reply, backfill>>

\* The organizer's edit overwrites the cap and the tiers, sold out or not.
EditCollection(cap, q) ==
  /\ maxContributions' = cap
  /\ quantity' = q
  /\ UNCHANGED <<contributions, code, counters, reply, backfill>>

-----------------------------------------------------------------------------
\* scripts/backfillUniqueContributionCodes.js, one run at a time.

MissingCode == {id \in contributions :
                  code[id] = 0 /\ RowOf(id).prefix # NoPrefix}

\* fetchPaidContributions, and the fallback counters taken from its rows.
BackfillScan ==
  /\ backfill = Idle
  /\ MissingCode # {}
  /\ \E local \in SuffixCounts :
       backfill' = [stage |-> "scanned", missing |-> MissingCode, local |-> local]
  /\ UNCHANGED <<contributions, code, counters, maxContributions, quantity,
                 reply>>

\* Mutant: the script asks what the next number is and does not take it.
BackfillPreview(id) ==
  /\ backfill.stage = "scanned"
  /\ id \in backfill.missing
  /\ code[id] = 0
  /\ backfill' = [stage |-> "minted", missing |-> backfill.missing,
                  local |-> backfill.local, row |-> id,
                  number |-> counters[RowOf(id).prefix] + 1]
  /\ UNCHANGED <<contributions, code, counters, maxContributions, quantity,
                 reply>>

\* Re-read the row, then mint through next_contribution_code_number.
BackfillMint(id) ==
  LET p == RowOf(id).prefix IN
  /\ backfill.stage = "scanned"
  /\ id \in backfill.missing
  /\ code[id] = 0
  /\ counters[p] < MaxMinted
  /\ counters' = [counters EXCEPT ![p] = @ + 1]
  /\ backfill' = [stage |-> "minted", missing |-> backfill.missing,
                  local |-> backfill.local, row |-> id,
                  number |-> counters[p] + 1]
  /\ UNCHANGED <<contributions, code, maxContributions, quantity, reply>>

\* The RPC answered with an error: number from the script's own count.
BackfillMintLocally(id) ==
  LET p == RowOf(id).prefix
      n == backfill.local[p] + 1
  IN
  /\ RpcMayFail
  /\ backfill.stage = "scanned"
  /\ id \in backfill.missing
  /\ code[id] = 0
  /\ backfill' = [stage |-> "minted", missing |-> backfill.missing,
                  local |-> [backfill.local EXCEPT ![p] = n], row |-> id,
                  number |-> n]
  /\ UNCHANGED <<contributions, code, counters, maxContributions, quantity,
                 reply>>

GoOnWith(left) ==
  backfill' = IF left = {} THEN Idle
              ELSE [stage |-> "scanned", missing |-> left, local |-> backfill.local]

\* Write the code unless the unique index refuses it; padStart never cuts.
BackfillAssign ==
  LET id == backfill.row IN
  /\ backfill.stage = "minted"
  /\ code' = IF /\ code[id] = 0
                /\ SameCode(RowOf(id).prefix, backfill.number) = {}
             THEN [code EXCEPT ![id] = backfill.number] ELSE code
  /\ GoOnWith(backfill.missing \ {id})
  /\ UNCHANGED <<contributions, counters, maxContributions, quantity, reply>>

\* The re-read of the row or the write of its code failed: the next row.
BackfillSkip(id) ==
  /\ backfill.stage \in {"scanned", "minted"}
  /\ id \in backfill.missing
  /\ backfill.stage = "minted" => id = backfill.row
  /\ GoOnWith(backfill.missing \ {id})
  /\ UNCHANGED <<contributions, code, counters, maxContributions, quantity,
                 reply>>

\* The script is killed.
BackfillStop ==
  /\ backfill # Idle
  /\ backfill' = Idle
  /\ UNCHANGED <<contributions, code, counters, maxContributions, quantity,
                 reply>>

Next ==
  \/ \E ref \in References : Claim(ref)
  \/ \E cap \in CapChoices, q \in [Tiers -> QuantityChoices] :
       EditCollection(cap, q)
  \/ BackfillScan
  \/ \E id \in RowIds : BackfillMint(id) \/ BackfillMintLocally(id)
                            \/ BackfillSkip(id)
  \/ BackfillAssign
  \/ BackfillStop

Spec == Init /\ [][Next]_vars

-----------------------------------------------------------------------------
\* Properties.

Backfills ==
  [stage : {"idle"}]
    \cup [stage : {"scanned"}, missing : SUBSET RowIds, local : [Prefixes -> Nat]]
    \cup [stage : {"minted"}, missing : SUBSET RowIds, local : [Prefixes -> Nat],
           row : RowIds, number : Nat]

\* The shape of the tables and of the script's memory.
TypeOK ==
  /\ contributions \subseteq RowIds
  /\ code \in [RowIds -> Nat]
  /\ counters \in [Prefixes -> Nat]
  /\ maxContributions \in CapChoices
  /\ quantity \in [Tiers -> QuantityChoices]
  /\ reply \in [References -> Outcomes]
  /\ backfill \in Backfills

\* No two paid rows of the collection carry the same contributor code,
\* whoever minted it: the claim (H2, line 215), C1's counter or the script.
UniqueCodes ==
  \A r, s \in Coded : RowOf(r).prefix = RowOf(s).prefix /\ code[r] = code[s]
                        => r = s

\* A claim of this payment mints numbers that lpad leaves whole.
Room(ref) == \A i \in DOMAIN Rows[ref] :
               Rows[ref][i].prefix # NoPrefix => Minted(ref, i) < CodeSpace

\* The counters the C1 migration is meant to leave, and an RPC that answers.
WellSeeded == AlphaPrefixes = Prefixes /\ ~RpcMayFail

\* The number the script is about to write was handed out by the counter:
\* "never a locally-computed number -- so this can never drift from what the
\* live system would hand out next" (the script, lines 280-283).
BackfillNumberFromCounter ==
  backfill.stage = "minted" =>
    backfill.number <= counters[RowOf(backfill.row).prefix]

\* A counter is never behind a code in use, nor behind the number the script
\* is about to write: what lines 56-60 of H2 and 35-38 of C1 count on.
CountersNeverLag ==
  WellSeeded =>
    /\ \A id \in Coded : code[id] <= counters[RowOf(id).prefix]
    /\ BackfillNumberFromCounter

\* A caller told "inserted" or "idempotent" finds every row of its payment
\* recorded, as long as the counters are seeded and its codes within the width.
ToldMeansRecorded ==
  WellSeeded =>
    \A ref \in References :
      reply[ref] \in {"inserted", "idempotent"} /\ Room(ref)
        => Lines(ref) \subseteq contributions

\* ToldMeansRecorded without its two conditions.  H2 says of the unique_violation
\* handler: "the concurrent winner's committed rows are returned instead".
NoEmptyIdempotent ==
  \A ref \in References : reply[ref] = "idempotent" => Recorded(ref)

\* A code, once written, is never changed or taken away, and no paid row is
\* lost: a claim and the script never overwrite one another.
CodesAreForever ==
  [][/\ contributions \subseteq contributions'
     /\ \A id \in RowIds : code[id] # 0 => code'[id] = code[id]]_vars

\* A claim that records rows leaves the collection within the cap in force,
\* whatever was edited or claimed before.
ClaimsFitCap ==
  [][contributions' # contributions /\ maxContributions > 0
       => Cardinality(contributions') <= maxContributions]_vars

\* The payments of a collection name a tier by id all of them, or none.
NamedOneWay ==
  \A r, s \in RowIds : RowOf(r).tier = RowOf(s).tier /\ RowOf(r).tier # NoTier
                          => RowOf(r).by = RowOf(s).by

\* And it leaves the tiers it sold within their quantity, counted over both
\* ways a row can name its tier.
ClaimsFitTiers ==
  [][\A t \in Tiers :
       LET sold(rows) == Sold(rows, t, "id") + Sold(rows, t, "name") IN
       quantity[t] # Unlimited /\ sold(contributions') > sold(contributions)
         => sold(contributions') <= quantity[t]]_vars

\* With well-seeded counters every payment whose verification keeps being retried
\* is in the end recorded or refused for lack of places, unless the codes of one of
\* its prefixes have run out.  Then, or behind a counter seeded too low, the claim may
\* collide, roll the counter back and be told "idempotent" at every retry.
EveryPaymentDecided ==
  WellSeeded =>
    \A ref \in References :
      <>(\/ Recorded(ref)
         \/ reply[ref] \in {"collection_full", "tier_full"}
         \/ ~Room(ref))
=============================================================================
