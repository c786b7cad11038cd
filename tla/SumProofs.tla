------------------------------ MODULE SumProofs ------------------------------
(***************************************************************************)
(* Sums over finite sets.  The sum of a function is a fold of the          *)
(* community modules; it unfolds to a recursion on the subsets of the set, *)
(* which has a solution by the number of members.  From it follow the two  *)
(* facts the proofs about money need: a sum of nothing is nothing, and     *)
(* where one term moves by n the sum does too.                             *)
(***************************************************************************)
EXTENDS FiniteSetsExt, FiniteSetTheorems, WellFoundedInduction, TLAPS

\* The terms of f at the members of S, added up.
SumOver(f, S) == MapThenSumSet(LAMBDA x : f[x], S)

\* The recursion that SumOver unfolds to, on the subsets of a set, and the subsets
\* that have few members.
Pick(s) == CHOOSE x \in s : TRUE
IsSum(f, L, g) == g = [s \in L |-> IF s = {} THEN 0 ELSE f[Pick(s)] + g[s \ {Pick(s)}]]
Unfolds(f, S, F) == \A s \in SUBSET S :
  /\ s = {} => F[s] = 0
  /\ s # {} => F[s] = f[Pick(s)] + F[s \ {Pick(s)}]
SumOf(f, S) == CHOOSE g : IsSum(f, SUBSET S, g)
Layer(S, n) == {s \in SUBSET S : Cardinality(s) <= n}

\* SumOver is what that recursion gives at the whole set.
LEMMA SumIsRecursion ==
  ASSUME NEW f, NEW S
  PROVE  SumOver(f, S) = SumOf(f, S)[S]
BY DEF SumOver, SumOf, IsSum, Pick, MapThenSumSet, MapThenFoldSet

\* A set of numbers that has 0 and every successor has every number.
LEMMA CountUp ==
  ASSUME NEW T \in SUBSET Nat, 0 \in T, \A n \in T : n + 1 \in T
  PROVE  T = Nat
<1> SUFFICES ASSUME Nat \ T # {} PROVE FALSE OBVIOUS
<1>1. PICK m \in Nat \ T : \A k \in Nat \ T : ~(<<k, m>> \in OpToRel(<, Nat))
  BY NatLessThanWellFounded, WFMin, Zenon
<1>2. \A k \in Nat \ T : ~(k < m) BY <1>1 DEF OpToRel
<1>3. m # 0 /\ m - 1 \in Nat OBVIOUS
<1>4. m - 1 \in T BY <1>2, <1>3
<1>5. (m - 1) + 1 \in T BY <1>4
<1> QED BY <1>5

\* The member a sum takes first leaves a set that is smaller by one.
LEMMA Picks ==
  ASSUME NEW S, IsFiniteSet(S), NEW s \in SUBSET S, s # {}
  PROVE  /\ Pick(s) \in s
         /\ s \ {Pick(s)} \in SUBSET S
         /\ Cardinality(s) \in Nat /\ Cardinality(s) # 0
         /\ Cardinality(s \ {Pick(s)}) = Cardinality(s) - 1
<1>1. Pick(s) \in s BY DEF Pick
<1>2. IsFiniteSet(s) BY FS_Subset
<1> QED BY <1>1, <1>2, FS_RemoveElement, FS_EmptySet, FS_CardinalityType

\* Only the empty set has no member.
LEMMA BottomLayer ==
  ASSUME NEW S, IsFiniteSet(S), NEW s \in Layer(S, 0)
  PROVE  s = {} /\ s \in SUBSET S
<1>1. IsFiniteSet(s) /\ Cardinality(s) <= 0 BY FS_Subset DEF Layer
<1>2. Cardinality(s) = 0 BY <1>1, FS_CardinalityType
<1> QED BY <1>1, <1>2, FS_EmptySet DEF Layer

\* The recursion has a solution on the small subsets, by the number of members.
LEMMA SumOnLayers ==
  ASSUME NEW f, NEW S, IsFiniteSet(S), NEW n \in Nat
  PROVE  \E g : IsSum(f, Layer(S, n), g)
<1> DEFINE T == {m \in Nat : \E g : IsSum(f, Layer(S, m), g)}
<1>1. 0 \in T
  <2> DEFINE g == [s \in Layer(S, 0) |-> 0]
  <2>1. \A s \in Layer(S, 0) : s = {} BY BottomLayer
  <2>2. IsSum(f, Layer(S, 0), g) BY <2>1 DEF IsSum
  <2> QED BY <2>2
<1>2. ASSUME NEW m \in T PROVE m + 1 \in T
  <2>1. PICK g : IsSum(f, Layer(S, m), g) OBVIOUS
  <2> DEFINE h == [s \in Layer(S, m + 1) |-> IF s = {} THEN 0 ELSE f[Pick(s)] + g[s \ {Pick(s)}]]
  <2>2. ASSUME NEW s \in Layer(S, m + 1), s # {} PROVE s \ {Pick(s)} \in Layer(S, m)
    BY <2>2, Picks DEF Layer
  <2>3. Layer(S, m) \subseteq Layer(S, m + 1) BY FS_Subset, FS_CardinalityType DEF Layer
  <2>4. \A s \in Layer(S, m) : h[s] = g[s] BY <2>1, <2>3 DEF IsSum
  <2>5. h = [s \in Layer(S, m + 1) |-> IF s = {} THEN 0 ELSE f[Pick(s)] + h[s \ {Pick(s)}]]
    BY <2>2, <2>4
  <2>6. IsSum(f, Layer(S, m + 1), h) BY <2>5, Zenon DEF IsSum
  <2> HIDE DEF h
  <2> QED BY <2>6
<1> HIDE DEF T
<1>3. T = Nat
  <2>1. T \in SUBSET Nat BY DEF T
  <2> QED BY <1>1, <1>2, <2>1, CountUp
<1> QED BY <1>3 DEF T

\* So it has one on all subsets of a finite set, ...
LEMMA SumIsSum ==
  ASSUME NEW f, NEW S, IsFiniteSet(S)
  PROVE  IsSum(f, SUBSET S, SumOf(f, S))
<1>1. Layer(S, Cardinality(S)) = SUBSET S BY FS_Subset DEF Layer
<1>2. \E g : IsSum(f, Layer(S, Cardinality(S)), g) BY SumOnLayers, FS_CardinalityType, Zenon
<1>3. \E g : IsSum(f, SUBSET S, g) BY <1>1, <1>2, Zenon
<1> QED BY <1>3, Zenon DEF SumOf

\* ... which the sum of a set is.
LEMMA SumUnfolds ==
  ASSUME NEW f, NEW S, IsFiniteSet(S)
  PROVE  Unfolds(f, S, SumOf(f, S))
<1> DEFINE F == SumOf(f, S)
<1>1. IsSum(f, SUBSET S, F) BY SumIsSum
<1> HIDE DEF F
<1>2. F = [t \in SUBSET S |-> IF t = {} THEN 0 ELSE f[Pick(t)] + F[t \ {Pick(t)}]]
  BY <1>1, Zenon DEF IsSum
<1>3. ASSUME NEW s \in SUBSET S
      PROVE  F[s] = IF s = {} THEN 0 ELSE f[Pick(s)] + F[s \ {Pick(s)}]
  BY <1>2
<1>4. Unfolds(f, S, F) BY <1>3 DEF Unfolds
<1> QED BY <1>4 DEF F

\* Of the terms of a sum, numbers, only the one of d differs, by n.
Shifts(S, f, h, d, n) ==
  /\ n \in Int
  /\ \A x \in S : f[x] \in Int /\ h[x] = IF x = d THEN f[x] + n ELSE f[x]

\* Then the sum does too, if it counts d; and it is a number.
LEMMA OneTermMoves ==
  ASSUME NEW S, IsFiniteSet(S), NEW f, NEW h, NEW d, NEW n, Shifts(S, f, h, d, n)
  PROVE  /\ SumOver(f, S) \in Int
         /\ SumOver(h, S) = SumOver(f, S) + (IF d \in S THEN n ELSE 0)
<1> DEFINE F == SumOf(f, S)
           H == SumOf(h, S)
           Right(s) == F[s] \in Int /\ H[s] = F[s] + (IF d \in s THEN n ELSE 0)
           T == {m \in Nat : \A s \in Layer(S, m) : Right(s)}
<1>0. Unfolds(f, S, F) /\ Unfolds(h, S, H) BY SumUnfolds
<1> HIDE DEF F, H
<1>1. 0 \in T
  <2>1. \A s \in Layer(S, 0) : s = {} /\ s \in SUBSET S BY BottomLayer
  <2>2. \A s \in Layer(S, 0) : F[s] = 0 /\ H[s] = 0 BY <1>0, <2>1 DEF Unfolds
  <2> QED BY <2>1, <2>2 DEF Shifts
<1>2. ASSUME NEW m \in T PROVE m + 1 \in T
  <2> SUFFICES ASSUME NEW s \in Layer(S, m + 1) PROVE Right(s) OBVIOUS
  <2>0. s \in SUBSET S BY DEF Layer
  <2>1. CASE s = {}
    <3>1. F[s] = 0 /\ H[s] = 0 BY <1>0, <2>0, <2>1 DEF Unfolds
    <3> QED BY <2>1, <3>1 DEF Shifts
  <2>2. CASE s # {}
    <3> DEFINE c == Pick(s)
               r == s \ {c}
    <3>1. c \in s /\ c \in S /\ r \in Layer(S, m) BY <2>0, <2>2, Picks DEF Layer
    <3>2. F[s] = f[c] + F[r] /\ H[s] = h[c] + H[r] BY <1>0, <2>0, <2>2 DEF Unfolds
    <3>3. Right(r) BY <3>1
    <3> HIDE DEF c
    <3>4. d \in s <=> (d = c \/ d \in r) BY <3>1
    <3>5. c \notin r OBVIOUS
    <3> HIDE DEF r
    <3>6. n \in Int /\ F[r] \in Int /\ f[c] \in Int /\ h[c] = IF c = d THEN f[c] + n ELSE f[c]
      BY <3>1, <3>3 DEF Shifts
    <3>7. CASE c = d BY <3>2, <3>3, <3>4, <3>5, <3>6, <3>7
    <3>8. CASE c # d BY <3>2, <3>3, <3>4, <3>6, <3>8
    <3> QED BY <3>7, <3>8
  <2> QED BY <2>1, <2>2
<1> HIDE DEF T
<1>3. T = Nat
  <2>1. T \in SUBSET Nat BY DEF T
  <2> QED BY <1>1, <1>2, <2>1, CountUp
<1>4. Cardinality(S) \in T /\ S \in Layer(S, Cardinality(S)) BY <1>3, FS_CardinalityType DEF Layer
<1>5. Right(S) BY <1>4 DEF T
<1> QED BY <1>5, SumIsRecursion DEF F, H

\* Nothing adds up to nothing.
LEMMA NothingAddsUp ==
  ASSUME NEW S, IsFiniteSet(S), NEW f, \A x \in S : f[x] = 0
  PROVE  SumOver(f, S) = 0
<1> DEFINE F == SumOf(f, S)
           T == {m \in Nat : \A s \in Layer(S, m) : F[s] = 0}
<1>0. Unfolds(f, S, F) BY SumUnfolds
<1> HIDE DEF F
<1>1. 0 \in T
  <2>1. \A s \in Layer(S, 0) : s = {} /\ s \in SUBSET S BY BottomLayer
  <2> QED BY <1>0, <2>1 DEF Unfolds
<1>2. ASSUME NEW m \in T PROVE m + 1 \in T
  <2> SUFFICES ASSUME NEW s \in Layer(S, m + 1) PROVE F[s] = 0 OBVIOUS
  <2>0. s \in SUBSET S BY DEF Layer
  <2>1. CASE s = {} BY <1>0, <2>0, <2>1 DEF Unfolds
  <2>2. CASE s # {}
    <3>1. Pick(s) \in S /\ s \ {Pick(s)} \in Layer(S, m) BY <2>0, <2>2, Picks DEF Layer
    <3>2. F[s] = f[Pick(s)] + F[s \ {Pick(s)}] BY <1>0, <2>0, <2>2 DEF Unfolds
    <3> QED BY <3>1, <3>2
  <2> QED BY <2>1, <2>2
<1> HIDE DEF T
<1>3. T = Nat
  <2>1. T \in SUBSET Nat BY DEF T
  <2> QED BY <1>1, <1>2, <2>1, CountUp
<1>4. Cardinality(S) \in T /\ S \in Layer(S, Cardinality(S)) BY <1>3, FS_CardinalityType DEF Layer
<1> QED BY <1>4, SumIsRecursion DEF F, T

\* On the subsets of a set, the recursion of a larger set is that of the set.
LEMMA SumOfSubset ==
  ASSUME NEW S, IsFiniteSet(S), NEW R \in SUBSET S, NEW f
  PROVE  SumOver(f, R) = SumOf(f, S)[R]
<1> DEFINE F == SumOf(f, S)
           G == SumOf(f, R)
           T == {m \in Nat : \A s \in Layer(R, m) : F[s] = G[s]}
<1>f. IsFiniteSet(R) BY FS_Subset
<1>0. Unfolds(f, S, F) /\ Unfolds(f, R, G) BY <1>f, SumUnfolds
<1> HIDE DEF F, G
<1>1. 0 \in T
  <2>1. \A s \in Layer(R, 0) : s = {} /\ s \in SUBSET R BY <1>f, BottomLayer
  <2> QED BY <1>0, <2>1 DEF Unfolds
<1>2. ASSUME NEW m \in T PROVE m + 1 \in T
  <2> SUFFICES ASSUME NEW s \in Layer(R, m + 1) PROVE F[s] = G[s] OBVIOUS
  <2>0. s \in SUBSET R BY DEF Layer
  <2>1. CASE s = {} BY <1>0, <2>0, <2>1 DEF Unfolds
  <2>2. CASE s # {}
    <3>1. s \ {Pick(s)} \in Layer(R, m) BY <1>f, <2>0, <2>2, Picks DEF Layer
    <3>2. F[s] = f[Pick(s)] + F[s \ {Pick(s)}] /\ G[s] = f[Pick(s)] + G[s \ {Pick(s)}]
      BY <1>0, <2>0, <2>2 DEF Unfolds
    <3> QED BY <3>1, <3>2
  <2> QED BY <2>1, <2>2
<1> HIDE DEF T
<1>3. T = Nat
  <2>1. T \in SUBSET Nat BY DEF T
  <2> QED BY <1>1, <1>2, <2>1, CountUp
<1>4. Cardinality(R) \in T /\ R \in Layer(R, Cardinality(R))
  BY <1>f, <1>3, FS_CardinalityType DEF Layer
<1> QED BY <1>4, SumIsRecursion DEF F, G, T

\* Whichever term is taken out first, the sum is that term and the sum of the rest.
LEMMA OneTermLess ==
  ASSUME NEW S, IsFiniteSet(S), NEW f, \A x \in S : f[x] \in Int, NEW d \in S
  PROVE  /\ SumOver(f, S) \in Int /\ SumOver(f, S \ {d}) \in Int
         /\ SumOver(f, S) = f[d] + SumOver(f, S \ {d})
<1> DEFINE F == SumOf(f, S)
           Right(s) == F[s] \in Int /\ \A x \in s : F[s] = f[x] + F[s \ {x}]
           T == {m \in Nat : \A s \in Layer(S, m) : Right(s)}
<1>0. Unfolds(f, S, F) BY SumUnfolds
<1> HIDE DEF F
<1>1. 0 \in T
  <2>1. \A s \in Layer(S, 0) : s = {} /\ s \in SUBSET S BY BottomLayer
  <2>2. ASSUME NEW s \in Layer(S, 0) PROVE Right(s)
    <3>1. F[s] = 0 BY <1>0, <2>1 DEF Unfolds
    <3>2. \A x \in s : F[s] = f[x] + F[s \ {x}] BY <2>1, Zenon
    <3> QED BY <3>1, <3>2
  <2> HIDE DEF Right
  <2> QED BY <2>2
<1>2. ASSUME NEW m \in T PROVE m + 1 \in T
  <2> SUFFICES ASSUME NEW s \in Layer(S, m + 1) PROVE Right(s) OBVIOUS
  <2>0. s \in SUBSET S /\ IsFiniteSet(s) BY FS_Subset DEF Layer
  <2>1. CASE s = {}
    <3>1. F[s] = 0 BY <1>0, <2>0, <2>1 DEF Unfolds
    <3>2. \A x \in s : F[s] = f[x] + F[s \ {x}] BY <2>1, Zenon
    <3> QED BY <3>1, <3>2
  <2>2. CASE s # {}
    <3> DEFINE c == Pick(s)
               r == s \ {c}
    <3>1. c \in s /\ c \in S /\ r \in Layer(S, m) BY <2>0, <2>2, Picks DEF Layer
    <3>2. F[s] = f[c] + F[r] BY <1>0, <2>0, <2>2 DEF Unfolds
    <3>3. Right(r) BY <3>1
    <3> HIDE DEF c
    <3>4. f[c] \in Int /\ F[s] \in Int BY <3>1, <3>2, <3>3
    <3>5. ASSUME NEW x \in s PROVE F[s] = f[x] + F[s \ {x}]
      <4>1. CASE x = c BY <3>2, <4>1
      <4>2. CASE x # c
        <5> DEFINE u == s \ {x}
                   w == r \ {x}
        <5>1. u \in Layer(S, m)
          <6>1. Cardinality(s) <= m + 1 BY DEF Layer
          <6>2. Cardinality(s) \in Nat BY <2>0, FS_CardinalityType
          <6>3. Cardinality(u) = Cardinality(s) - 1 BY <2>0, FS_RemoveElement
          <6>4. u \in SUBSET S BY <2>0
          <6>5. m \in Nat BY DEF T
          <6> HIDE DEF u
          <6> QED BY <6>1, <6>2, <6>3, <6>4, <6>5 DEF Layer
        <5>2. Right(u) /\ c \in u /\ x \in r BY <3>1, <4>2, <5>1
        <5>3. u \ {c} = w OBVIOUS
        <5>4. F[u] = f[c] + F[w] /\ F[r] = f[x] + F[w] BY <3>3, <5>2, <5>3
        <5>5. w \in Layer(S, m)
          BY <2>0, <3>1, <5>2, FS_Subset, FS_RemoveElement, FS_CardinalityType DEF Layer
        <5>6. F[w] \in Int /\ f[x] \in Int BY <2>0, <5>5
        <5> HIDE DEF r, u, w
        <5>7. F[s] = f[x] + F[u] BY <3>2, <3>4, <5>4, <5>6
        <5> QED BY <5>7 DEF u
      <4> QED BY <4>1, <4>2
    <3> QED BY <3>4, <3>5
  <2> QED BY <2>1, <2>2
<1> HIDE DEF T
<1>3. T = Nat
  <2>1. T \in SUBSET Nat BY DEF T
  <2> QED BY <1>1, <1>2, <2>1, CountUp
<1>4. Cardinality(S) \in T /\ S \in Layer(S, Cardinality(S)) BY <1>3, FS_CardinalityType DEF Layer
<1>5. Right(S) BY <1>4 DEF T
<1>6. S \ {d} \in Layer(S, Cardinality(S))
  BY FS_Subset, FS_RemoveElement, FS_CardinalityType DEF Layer
<1>7. Right(S \ {d}) BY <1>4, <1>6 DEF T
<1>8. SumOver(f, S) = F[S] /\ SumOver(f, S \ {d}) = F[S \ {d}]
  BY SumOfSubset DEF F
<1> QED BY <1>5, <1>7, <1>8
=============================================================================
