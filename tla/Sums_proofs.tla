----------------------------- MODULE Sums_proofs -----------------------------
(***************************************************************************)
(* Sums of a function over a finite set, as the balances of the models use *)
(* them (SumFunctionOnSet of the community modules): that the fold is what *)
(* its definition says, may start with any element, and is monotone.  Each *)
(* induction is over the subsets of the set, by a smallest counterexample. *)
(***************************************************************************)
EXTENDS Integers, FiniteSets, Functions, FiniteSetTheorems, WellFoundedInduction, TLAPS

Chosen(s) == CHOOSE x \in s : TRUE

\* h holds the sums of f over the subsets of A.
SumsOver(h, f, A) ==
  h = [s \in SUBSET A |-> IF s = {} THEN 0 ELSE f[Chosen(s)] + h[s \ {Chosen(s)}]]

\* A set of finite sets has a smallest member.
LEMMA LeastSubset ==
  ASSUME NEW S, IsFiniteSet(S), NEW T \in SUBSET (SUBSET S), T # {}
  PROVE  \E A \in T : \A B \in T : B \subseteq A => B = A
<1>1. T \subseteq FiniteSubsetsOf(S)
  BY FS_FiniteSubsetsOfFinite
<1>2. PICK A \in T : \A B \in T : ~ (<<B, A>> \in StrictSubsetOrdering(S))
  BY <1>1, FS_StrictSubsetOrderingWellFounded, WFMin
<1>3. \A B \in T : B \subseteq A => B = A
  BY <1>2 DEF StrictSubsetOrdering
<1>4. QED BY <1>3

LEMMA ChosenIn == ASSUME NEW s, s # {} PROVE Chosen(s) \in s
BY DEF Chosen

\* There is one such function, and one only.
LEMMA SumsAgree ==
  ASSUME NEW f, NEW S, IsFiniteSet(S), NEW A \in SUBSET S, NEW B \in SUBSET S, NEW g, NEW h,
         SumsOver(g, f, A), SumsOver(h, f, B), NEW s \in SUBSET (A \cap B)
  PROVE  g[s] = h[s]
<1> DEFINE T == {u \in SUBSET (A \cap B) : g[u] # h[u]}
<1> SUFFICES ASSUME T # {} PROVE FALSE
  OBVIOUS
<1>1. PICK u \in T : \A v \in T : v \subseteq u => v = u
  <2>1. T \in SUBSET (SUBSET S) OBVIOUS
  <2> HIDE DEF T
  <2>2. QED BY <2>1, LeastSubset
<1>2. \A v \in SUBSET (A \cap B) :
        /\ g[v] = IF v = {} THEN 0 ELSE f[Chosen(v)] + g[v \ {Chosen(v)}]
        /\ h[v] = IF v = {} THEN 0 ELSE f[Chosen(v)] + h[v \ {Chosen(v)}]
  BY DEF SumsOver
<1>3. u # {} BY <1>1, <1>2
<1>4. u \ {Chosen(u)} \notin T BY <1>1, <1>3, ChosenIn
<1>5. QED BY <1>1, <1>2, <1>3, <1>4

LEMMA SumsExist ==
  ASSUME NEW f, NEW S, IsFiniteSet(S), NEW A \in SUBSET S
  PROVE  \E h : SumsOver(h, f, A)
<1> DEFINE T == {B \in SUBSET S : ~ \E h : SumsOver(h, f, B)}
<1> SUFFICES ASSUME T # {} PROVE FALSE
  OBVIOUS
<1>1. PICK B \in T : \A C \in T : C \subseteq B => C = B
  <2>1. T \in SUBSET (SUBSET S) OBVIOUS
  <2> HIDE DEF T
  <2>2. QED BY <2>1, LeastSubset
<1> DEFINE value(C) == CHOOSE v : \E h : SumsOver(h, f, C) /\ v = h[C]
<1>2. ASSUME NEW C \in SUBSET B, C # B
      PROVE  /\ \E h : SumsOver(h, f, C)
             /\ \A h : SumsOver(h, f, C) => value(C) = h[C]
  <2>1. PICK h : SumsOver(h, f, C)
    BY <1>1, <1>2
  <2>2. \E v : \E k : SumsOver(k, f, C) /\ v = k[C]
    BY <2>1
  <2>3. \E k : SumsOver(k, f, C) /\ value(C) = k[C]
    BY <2>2
  <2>4. \A g, k : SumsOver(g, f, C) /\ SumsOver(k, f, C) => g[C] = k[C]
    BY SumsAgree
  <2>5. QED BY <2>1, <2>3, <2>4
<1> HIDE DEF value
<1> DEFINE next(s) == f[Chosen(s)] + value(s \ {Chosen(s)})
           g == [s \in SUBSET B |-> IF s = {} THEN 0 ELSE IF s = B THEN next(B) ELSE value(s)]
<1>3. ASSUME NEW s \in SUBSET B, s # {}
      PROVE  /\ s \ {Chosen(s)} \in SUBSET B /\ s \ {Chosen(s)} # B /\ s \ {Chosen(s)} # s
  BY <1>3, ChosenIn
<1>4. value({}) = 0 \/ B = {}
  <2>1. SUFFICES ASSUME B # {} PROVE value({}) = 0
    OBVIOUS
  <2>2. PICK h : SumsOver(h, f, {}) BY <1>2, <2>1
  <2>3. h[{}] = 0 BY <2>2 DEF SumsOver
  <2>4. QED BY <1>2, <2>1, <2>2, <2>3
<1>5. ASSUME NEW s \in SUBSET B, s # {}, s # B
      PROVE  value(s) = next(s)
  <2>1. PICK h : SumsOver(h, f, s) BY <1>2, <1>5
  <2>2. PICK k : SumsOver(k, f, s \ {Chosen(s)}) BY <1>2, <1>3, <1>5
  <2>3. h[s] = f[Chosen(s)] + h[s \ {Chosen(s)}] BY <1>5, <2>1 DEF SumsOver
  <2>4. h[s \ {Chosen(s)}] = k[s \ {Chosen(s)}]
    BY <1>1, <2>1, <2>2, SumsAgree
  <2>5. value(s) = h[s] /\ value(s \ {Chosen(s)}) = k[s \ {Chosen(s)}]
    BY <1>2, <1>3, <1>5, <2>1, <2>2
  <2>6. QED BY <2>3, <2>4, <2>5
<1>6. ASSUME NEW s \in SUBSET B, s # {}
      PROVE  g[s] = f[Chosen(s)] + g[s \ {Chosen(s)}]
  <2>1. g[s] = next(s)
    BY <1>5, <1>6
  <2>2. g[s \ {Chosen(s)}] = value(s \ {Chosen(s)})
    BY <1>3, <1>4, <1>6
  <2>3. QED BY <2>1, <2>2
<1>7. g = [s \in SUBSET B |-> IF s = {} THEN 0 ELSE f[Chosen(s)] + g[s \ {Chosen(s)}]]
  <2>1. g[{}] = 0 OBVIOUS
  <2>2. g = [s \in SUBSET B |-> g[s]] OBVIOUS
  <2> HIDE DEF g
  <2>3. \A s \in SUBSET B : g[s] = IF s = {} THEN 0 ELSE f[Chosen(s)] + g[s \ {Chosen(s)}]
    BY <1>6, <2>1
  <2>4. QED BY <2>2, <2>3
<1>8. QED BY <1>1, <1>7 DEF SumsOver

-----------------------------------------------------------------------------
\* The fold takes the elements off one by one.
LEMMA SumStep ==
  ASSUME NEW f, NEW S, IsFiniteSet(S)
  PROVE  SumFunctionOnSet(f, S) =
           IF S = {} THEN 0 ELSE f[Chosen(S)] + SumFunctionOnSet(f, S \ {Chosen(S)})
<1>1. PICK h : SumsOver(h, f, S)
  BY SumsExist
<1>2. ASSUME NEW A \in SUBSET S PROVE SumFunctionOnSet(f, A) = h[A]
  <2>1. \E k : SumsOver(k, f, A)
    BY SumsExist
  <2>2. SumsOver(CHOOSE k : SumsOver(k, f, A), f, A)
    BY <2>1
  <2>3. SumFunctionOnSet(f, A) = (CHOOSE k : SumsOver(k, f, A))[A]
    BY DEF SumFunctionOnSet, FoldFunctionOnSet, MapThenFoldSet, SumsOver, Chosen
  <2>4. QED BY <1>1, <2>2, <2>3, SumsAgree
<1>3. h[S] = IF S = {} THEN 0 ELSE f[Chosen(S)] + h[S \ {Chosen(S)}]
  BY <1>1 DEF SumsOver
<1>4. QED BY <1>2, <1>3

LEMMA SumEmpty == ASSUME NEW f PROVE SumFunctionOnSet(f, {}) = 0
BY SumStep, FS_EmptySet

\* A sum of integers is one.
LEMMA SumInt ==
  ASSUME NEW f, NEW S, IsFiniteSet(S), \A x \in S : f[x] \in Int
  PROVE  SumFunctionOnSet(f, S) \in Int
<1> DEFINE T == {A \in SUBSET S : SumFunctionOnSet(f, A) \notin Int}
<1> SUFFICES ASSUME T # {} PROVE FALSE
  OBVIOUS
<1>1. PICK A \in T : \A B \in T : B \subseteq A => B = A
  <2>1. T \in SUBSET (SUBSET S) OBVIOUS
  <2> HIDE DEF T
  <2>2. QED BY <2>1, LeastSubset
<1>2. IsFiniteSet(A) /\ A \in SUBSET S
  BY <1>1, FS_Subset
<1>3. A # {}
  <2>1. SumFunctionOnSet(f, A) \notin Int
    BY <1>1
  <2>2. SumFunctionOnSet(f, {}) \in Int
    BY SumEmpty
  <2>3. QED BY <2>1, <2>2
<1>4. Chosen(A) \in A /\ A \ {Chosen(A)} \notin T
  BY <1>1, <1>3, ChosenIn
<1>5. SumFunctionOnSet(f, A \ {Chosen(A)}) \in Int /\ f[Chosen(A)] \in Int
  BY <1>2, <1>4
<1>6. QED BY <1>1, <1>2, <1>3, <1>5, SumStep

\* Any element may be taken off first.
LEMMA SumSplit ==
  ASSUME NEW f, NEW S, IsFiniteSet(S), \A x \in S : f[x] \in Int, NEW e \in S
  PROVE  SumFunctionOnSet(f, S) = f[e] + SumFunctionOnSet(f, S \ {e})
<1> DEFINE T == {A \in SUBSET S : \E x \in A : SumFunctionOnSet(f, A) # f[x] + SumFunctionOnSet(f, A \ {x})}
<1> SUFFICES ASSUME T # {} PROVE FALSE
  BY DEF T
<1>1. PICK A \in T : \A B \in T : B \subseteq A => B = A
  <2>1. T \in SUBSET (SUBSET S) OBVIOUS
  <2> HIDE DEF T
  <2>2. QED BY <2>1, LeastSubset
<1>2. PICK x \in A : SumFunctionOnSet(f, A) # f[x] + SumFunctionOnSet(f, A \ {x})
  BY <1>1
<1> DEFINE c == Chosen(A)
<1>3. IsFiniteSet(A) /\ A \in SUBSET S /\ c \in A
  BY <1>1, <1>2, FS_Subset, ChosenIn
<1>4. SumFunctionOnSet(f, A) = f[c] + SumFunctionOnSet(f, A \ {c})
  BY <1>2, <1>3, SumStep
<1>5. c # x
  BY <1>2, <1>4
<1> HIDE DEF c
<1>6. SumFunctionOnSet(f, A \ {c}) = f[x] + SumFunctionOnSet(f, (A \ {c}) \ {x})
  <2>1. A \ {c} \in SUBSET S /\ A \ {c} \notin T
    BY <1>1, <1>3
  <2>2. QED BY <1>2, <1>5, <2>1
<1>7. SumFunctionOnSet(f, A \ {x}) = f[c] + SumFunctionOnSet(f, (A \ {x}) \ {c})
  <2>1. A \ {x} \in SUBSET S /\ A \ {x} \notin T
    BY <1>1, <1>2, <1>3
  <2>2. QED BY <1>3, <1>5, <2>1
<1>8. (A \ {c}) \ {x} = (A \ {x}) \ {c}
  OBVIOUS
<1>9. f[c] \in Int /\ f[x] \in Int /\ SumFunctionOnSet(f, (A \ {c}) \ {x}) \in Int
  <2>1. IsFiniteSet((A \ {c}) \ {x}) /\ \A y \in (A \ {c}) \ {x} : f[y] \in Int
    BY <1>3, FS_RemoveElement
  <2>2. QED BY <1>2, <1>3, <2>1, SumInt
<1>10. \A i, j, k \in Int : i + (j + k) = j + (i + k)
  OBVIOUS
<1>11. f[c] + (f[x] + SumFunctionOnSet(f, (A \ {c}) \ {x})) = f[x] + (f[c] + SumFunctionOnSet(f, (A \ {c}) \ {x}))
  BY <1>9, <1>10
<1>12. QED BY <1>2, <1>4, <1>6, <1>7, <1>8, <1>11

\* Only the values on the set count.
LEMMA SumSame ==
  ASSUME NEW f, NEW g, NEW S, IsFiniteSet(S), \A x \in S : f[x] = g[x]
  PROVE  SumFunctionOnSet(f, S) = SumFunctionOnSet(g, S)
<1> DEFINE T == {A \in SUBSET S : SumFunctionOnSet(f, A) # SumFunctionOnSet(g, A)}
<1> SUFFICES ASSUME T # {} PROVE FALSE
  OBVIOUS
<1>1. PICK A \in T : \A B \in T : B \subseteq A => B = A
  <2>1. T \in SUBSET (SUBSET S) OBVIOUS
  <2> HIDE DEF T
  <2>2. QED BY <2>1, LeastSubset
<1>2. IsFiniteSet(A) /\ A \in SUBSET S
  BY <1>1, FS_Subset
<1>3. A # {}
  BY <1>1, SumEmpty
<1>4. Chosen(A) \in A /\ A \ {Chosen(A)} \notin T
  BY <1>1, <1>3, ChosenIn
<1>5. QED BY <1>1, <1>2, <1>3, <1>4, SumStep

\* A sum of naturals is one.
LEMMA SumNat ==
  ASSUME NEW f, NEW S, IsFiniteSet(S), \A x \in S : f[x] \in Nat
  PROVE  SumFunctionOnSet(f, S) \in Nat
<1> DEFINE T == {A \in SUBSET S : SumFunctionOnSet(f, A) \notin Nat}
<1> SUFFICES ASSUME T # {} PROVE FALSE
  OBVIOUS
<1>1. PICK A \in T : \A B \in T : B \subseteq A => B = A
  <2>1. T \in SUBSET (SUBSET S) OBVIOUS
  <2> HIDE DEF T
  <2>2. QED BY <2>1, LeastSubset
<1>2. IsFiniteSet(A) /\ A \in SUBSET S
  BY <1>1, FS_Subset
<1>3. A # {}
  <2>1. SumFunctionOnSet(f, A) \notin Nat
    BY <1>1
  <2>2. SumFunctionOnSet(f, {}) \in Nat
    BY SumEmpty
  <2>3. QED BY <2>1, <2>2
<1>4. Chosen(A) \in A /\ A \ {Chosen(A)} \notin T
  BY <1>1, <1>3, ChosenIn
<1>5. SumFunctionOnSet(f, A \ {Chosen(A)}) \in Nat /\ f[Chosen(A)] \in Nat
  BY <1>2, <1>4
<1>6. QED BY <1>1, <1>2, <1>3, <1>5, SumStep

\* Leaving elements out makes the sum of naturals no larger.
LEMMA SumSubset ==
  ASSUME NEW f, NEW S, IsFiniteSet(S), \A x \in S : f[x] \in Nat, NEW R \in SUBSET S
  PROVE  SumFunctionOnSet(f, R) <= SumFunctionOnSet(f, S)
<1> DEFINE T == {A \in SUBSET S : R \subseteq A /\ ~(SumFunctionOnSet(f, R) <= SumFunctionOnSet(f, A))}
<1> SUFFICES ASSUME T # {} PROVE FALSE
  OBVIOUS
<1>1. PICK A \in T : \A B \in T : B \subseteq A => B = A
  <2>1. T \in SUBSET (SUBSET S) OBVIOUS
  <2> HIDE DEF T
  <2>2. QED BY <2>1, LeastSubset
<1>2. /\ IsFiniteSet(A) /\ A \in SUBSET S /\ R \subseteq A /\ ~(SumFunctionOnSet(f, R) <= SumFunctionOnSet(f, A))
      /\ IsFiniteSet(R)
  BY <1>1, FS_Subset
<1>3. SumFunctionOnSet(f, R) \in Nat /\ SumFunctionOnSet(f, A) \in Nat
  BY <1>2, SumNat
<1>4. PICK x \in A : x \notin R
  BY <1>2, <1>3
<1>5. IsFiniteSet(A \ {x}) /\ A \ {x} \notin T
  BY <1>1, <1>2, <1>4, FS_RemoveElement
<1>6. SumFunctionOnSet(f, R) <= SumFunctionOnSet(f, A \ {x}) /\ SumFunctionOnSet(f, A \ {x}) \in Nat
  BY <1>2, <1>4, <1>5, SumNat
<1>7. SumFunctionOnSet(f, A) = f[x] + SumFunctionOnSet(f, A \ {x})
  BY <1>2, <1>4, SumSplit
<1>8. QED BY <1>2, <1>3, <1>4, <1>6, <1>7

\* A function nowhere larger has no larger sum.
LEMMA SumMonotone ==
  ASSUME NEW f, NEW g, NEW S, IsFiniteSet(S),
         \A x \in S : f[x] \in Nat /\ g[x] \in Nat /\ f[x] <= g[x]
  PROVE  SumFunctionOnSet(f, S) <= SumFunctionOnSet(g, S)
<1> DEFINE T == {A \in SUBSET S : ~(SumFunctionOnSet(f, A) <= SumFunctionOnSet(g, A))}
<1> SUFFICES ASSUME T # {} PROVE FALSE
  OBVIOUS
<1>1. PICK A \in T : \A B \in T : B \subseteq A => B = A
  <2>1. T \in SUBSET (SUBSET S) OBVIOUS
  <2> HIDE DEF T
  <2>2. QED BY <2>1, LeastSubset
<1>2. IsFiniteSet(A) /\ A \in SUBSET S /\ ~(SumFunctionOnSet(f, A) <= SumFunctionOnSet(g, A))
  BY <1>1, FS_Subset
<1>3. A # {}
  BY <1>2, SumEmpty
<1>4. PICK x \in A : x \in S
  BY <1>2, <1>3
<1>5. IsFiniteSet(A \ {x}) /\ A \ {x} \notin T
  BY <1>1, <1>2, <1>4, FS_RemoveElement
<1>6. /\ SumFunctionOnSet(f, A \ {x}) <= SumFunctionOnSet(g, A \ {x})
      /\ SumFunctionOnSet(f, A \ {x}) \in Nat /\ SumFunctionOnSet(g, A \ {x}) \in Nat
  BY <1>2, <1>4, <1>5, SumNat
<1>7. /\ SumFunctionOnSet(f, A) = f[x] + SumFunctionOnSet(f, A \ {x})
      /\ SumFunctionOnSet(g, A) = g[x] + SumFunctionOnSet(g, A \ {x})
  BY <1>2, <1>4, SumSplit
<1>8. f[x] \in Nat /\ g[x] \in Nat /\ f[x] <= g[x]
  BY <1>4
<1>9. QED BY <1>2, <1>6, <1>7, <1>8

\* The sum over two sets that share nothing is the sum of their sums.
LEMMA SumDisjoint ==
  ASSUME NEW f, NEW R, NEW S, IsFiniteSet(R), IsFiniteSet(S), R \cap S = {},
         \A x \in R \cup S : f[x] \in Int
  PROVE  SumFunctionOnSet(f, R \cup S) = SumFunctionOnSet(f, R) + SumFunctionOnSet(f, S)
<1> DEFINE T == {A \in SUBSET S : SumFunctionOnSet(f, R \cup A)
                                    # SumFunctionOnSet(f, R) + SumFunctionOnSet(f, A)}
<1> SUFFICES ASSUME T # {} PROVE FALSE
  OBVIOUS
<1>1. PICK A \in T : \A B \in T : B \subseteq A => B = A
  <2>1. T \in SUBSET (SUBSET S) OBVIOUS
  <2> HIDE DEF T
  <2>2. QED BY <2>1, LeastSubset
<1>2. /\ IsFiniteSet(A) /\ A \in SUBSET S /\ SumFunctionOnSet(f, R) \in Int
      /\ SumFunctionOnSet(f, R \cup A) # SumFunctionOnSet(f, R) + SumFunctionOnSet(f, A)
  BY <1>1, FS_Subset, SumInt
<1>3. A # {}
  <2>1. SUFFICES ASSUME A = {} PROVE FALSE
    OBVIOUS
  <2>2. SumFunctionOnSet(f, A) = 0 /\ R \cup A = R
    BY <2>1, SumEmpty
  <2>3. \A i \in Int : i + 0 = i
    OBVIOUS
  <2>4. QED BY <1>2, <2>2, <2>3
<1>4. PICK x \in A : x \in S
  BY <1>2, <1>3
<1>5. /\ IsFiniteSet(A \ {x}) /\ A \ {x} \in SUBSET S /\ A \ {x} \notin T
      /\ IsFiniteSet(R \cup A)
  <2>1. A \ {x} \in SUBSET S /\ A \ {x} # A /\ A \ {x} \subseteq A
    BY <1>2, <1>4
  <2>2. A \ {x} \notin T
    BY <1>1, <2>1
  <2>3. IsFiniteSet(A \ {x})
    BY <1>2, FS_RemoveElement
  <2>4. IsFiniteSet(R \cup A)
    BY <1>2, FS_Union
  <2>5. QED BY <2>1, <2>2, <2>3, <2>4
<1>6. SumFunctionOnSet(f, R \cup (A \ {x}))
        = SumFunctionOnSet(f, R) + SumFunctionOnSet(f, A \ {x})
  BY <1>5
<1>7. (R \cup A) \ {x} = R \cup (A \ {x})
  BY <1>4
<1>8. SumFunctionOnSet(f, R \cup A) = f[x] + SumFunctionOnSet(f, R \cup (A \ {x}))
  BY <1>2, <1>4, <1>5, <1>7, SumSplit
<1>9. /\ SumFunctionOnSet(f, A) = f[x] + SumFunctionOnSet(f, A \ {x})
      /\ SumFunctionOnSet(f, A \ {x}) \in Int /\ f[x] \in Int
  BY <1>2, <1>4, <1>5, SumSplit, SumInt
<1>10. \A i, j, k \in Int : j + (i + k) = i + (j + k)
  OBVIOUS
<1>11. QED BY <1>2, <1>6, <1>8, <1>9, <1>10
=============================================================================
