----------------------------- MODULE SetInduction -----------------------------
(***************************************************************************)
(* Induction over numbers and over finite sets, stated with sets in place  *)
(* of predicates, and what it gives of the sums of the community modules.  *)
(***************************************************************************)
EXTENDS Integers, FiniteSets, Functions, WellFoundedInduction, FiniteSetTheorems, TLAPS

\* Every set of numbers that is not empty has a smallest.
LEMMA SmallestNat ==
    ASSUME NEW T \in SUBSET Nat, T # {}
    PROVE  \E m \in T : \A k \in T : m =< k
<1> DEFINE R == OpToRel(<, Nat)
<1>1. IsWellFoundedOn(R, Nat)
  BY NatLessThanWellFounded
<1>2. \A i, j \in Nat : <<i, j>> \in R <=> i < j
  BY DEF OpToRel
<1> HIDE DEF R
<1>3. PICK m \in T : \A k \in T : <<k, m>> \notin R
  BY <1>1, WFMin
<1>4. ASSUME NEW k \in T PROVE m =< k
  <2>1. k \in Nat /\ m \in Nat /\ ~ (k < m)
    BY <1>2, <1>3
  <2> QED
    BY <2>1
<1> QED
  BY <1>4

\* A set that holds 0, and n + 1 with every n, holds every number.
LEMMA NatInductionOnSet ==
    ASSUME NEW T, 0 \in T, \A n \in Nat : n \in T => n + 1 \in T
    PROVE  Nat \subseteq T
<1> SUFFICES ASSUME Nat \ T # {} PROVE FALSE
  OBVIOUS
<1>1. PICK m \in Nat \ T : \A k \in Nat \ T : m =< k
  BY SmallestNat
<1>2. m # 0 /\ m - 1 \in Nat /\ m - 1 \in T
  BY <1>1
<1> QED
  BY <1>1, <1>2

\* A collection of subsets of a finite set that holds the empty one, and with a
\* set the one that has an element more, holds them all.
LEMMA FiniteSetInduction ==
    ASSUME NEW S, IsFiniteSet(S), NEW T,
           {} \in T,
           \A s \in SUBSET S : s # {} /\ (\A x \in s : s \ {x} \in T) => s \in T
    PROVE  SUBSET S \subseteq T
<1> DEFINE R == StrictSubsetOrdering(S)
           Bad == (SUBSET S) \ T
<1> SUFFICES ASSUME Bad # {} PROVE FALSE
  OBVIOUS
<1>1. IsWellFoundedOn(R, SUBSET S)
  BY FS_StrictSubsetOrderingWellFounded, FS_FiniteSubsetsOfFinite
<1>2. Bad \subseteq SUBSET S
  OBVIOUS
<1>3. PICK m \in Bad : \A k \in Bad : <<k, m>> \notin R
  <2> HIDE DEF R, Bad
  <2> QED BY <1>1, <1>2, WFMin
<1>4. PICK x \in m : m \ {x} \notin T
  BY <1>3
<1>5. m \ {x} \in Bad
  BY <1>3, <1>4
<1>6. <<m \ {x}, m>> \in R
  BY <1>3, <1>4 DEF StrictSubsetOrdering
<1> QED
  BY <1>3, <1>5, <1>6

\* A bounded set of numbers has a largest.
LEMMA LargestNat ==
    ASSUME NEW n \in Nat, NEW T \in SUBSET (0..n), T # {}
    PROVE  \E m \in T : \A k \in T : k =< m
<1> DEFINE D == {d \in Nat : \E k \in T : d = n - k}
<1>1. D \in SUBSET Nat /\ D # {}
  <2>1. PICK k \in T : TRUE
    OBVIOUS
  <2>2. n - k \in Nat
    BY <2>1
  <2> QED
    BY <2>1, <2>2
<1>2. PICK d \in D : \A e \in D : d =< e
  <2> HIDE DEF D
  <2> QED
    BY <1>1, SmallestNat
<1>3. PICK m \in T : d = n - m
  BY <1>2
<1>4. ASSUME NEW k \in T PROVE k =< m
  <2>1. k \in 0..n /\ m \in 0..n /\ n - k \in D
    OBVIOUS
  <2>2. d =< n - k
    BY <1>2, <2>1
  <2> QED
    BY <1>3, <2>1, <2>2
<1> QED
  BY <1>3, <1>4

\* The places of a sequence are finitely many.
LEMMA PlacesFinite ==
    ASSUME NEW n \in Nat, NEW P \in SUBSET (1..n)
    PROVE  IsFiniteSet(P) /\ Cardinality(P) \in 0..n
<1>1. IsFiniteSet(1..n) /\ Cardinality(1..n) = n
  BY FS_Interval
<1>2. IsFiniteSet(P) /\ Cardinality(P) =< Cardinality(1..n)
  BY <1>1, FS_Subset
<1>3. Cardinality(P) \in Nat
  BY <1>2, FS_CardinalityType
<1> QED
  BY <1>1, <1>2, <1>3

\* Places that have every place before them are as many as the last of them says.
LEMMA FirstPlaces ==
    ASSUME NEW n \in Nat, NEW P \in SUBSET (1..n),
           \A i \in P : \A j \in 1..i : j \in P
    PROVE  P = 1..Cardinality(P)
<1> DEFINE T == {k \in Nat : k + 1 \notin P}
<1>1. T \in SUBSET Nat /\ n \in T
  OBVIOUS
<1>2. PICK m \in T : \A k \in T : m =< k
  <2> HIDE DEF T
  <2> QED
    BY <1>1, SmallestNat
<1>3. m \in 0..n /\ m + 1 \notin P
  BY <1>1, <1>2
<1>4. \A i \in 1..m : i \in P
  <2>1. ASSUME NEW i \in 1..m PROVE i \in P
    <3>1. i - 1 \in Nat /\ i - 1 < m /\ (i - 1) + 1 = i
      BY <1>3
    <3>2. i - 1 \notin T
      BY <1>2, <1>3, <3>1
    <3> QED
      BY <3>1, <3>2
  <2> QED
    BY <2>1
<1>5. \A i \in P : i \in 1..m
  BY <1>3
<1>6. P = 1..m
  <2> HIDE DEF T
  <2> QED
    BY <1>4, <1>5
<1>7. Cardinality(P) = m
  BY <1>3, <1>6, FS_Interval
<1> QED
  BY <1>6, <1>7

----------------------------------------------------------------------------
\* The summands are taken out of a set one at a time.
First(s) == CHOOSE x \in s : TRUE
SumOver(f, D) ==
    CHOOSE sum : sum = [s \in D |-> IF s = {} THEN 0 ELSE f[First(s)] + sum[s \ {First(s)}]]

\* What such a sum amounts to.
Sums(sum, f, S) ==
    /\ sum[{}] = 0
    /\ \A s \in SUBSET S : s # {} =>
        First(s) \in s /\ sum[s] = f[First(s)] + sum[s \ {First(s)}]

\* The sum that the community modules define, with its folds expanded.
LEMMA SumIsSumOver ==
    ASSUME NEW f
    PROVE  SumFunction(f) = SumOver(f, SUBSET DOMAIN f)[DOMAIN f]
BY DEF SumFunction, SumFunctionOnSet, FoldFunctionOnSet, MapThenFoldSet, SumOver, First

\* The recursion is well-founded on the subsets of a finite set.
LEMMA SumOverSums ==
    ASSUME NEW f, NEW S, IsFiniteSet(S)
    PROVE  Sums(SumOver(f, SUBSET S), f, S)
<1> DEFINE G(n) == {s \in SUBSET S : Cardinality(s) =< n}
           Solves(g, D) == g = [s \in D |-> IF s = {} THEN 0
                                            ELSE f[First(s)] + g[s \ {First(s)}]]
           T == {n \in Nat : \E g : Solves(g, G(n))}
<1>1. \A s \in SUBSET S : /\ IsFiniteSet(s) /\ Cardinality(s) \in Nat
                          /\ Cardinality(s) = 0 <=> s = {}
                          /\ Cardinality(s) =< Cardinality(S)
  BY FS_Subset, FS_CardinalityType, FS_EmptySet
<1>2. \A s \in SUBSET S : s # {} =>
        /\ First(s) \in s /\ s \ {First(s)} \in SUBSET S
        /\ Cardinality(s \ {First(s)}) = Cardinality(s) - 1
  BY <1>1, FS_RemoveElement DEF First
<1>3. 0 \in T
  <2>1. G(0) = {{}}
    BY <1>1
  <2>2. Solves([s \in G(0) |-> 0], G(0))
    BY <2>1
  <2> QED
    BY <2>2
<1>4. ASSUME NEW n \in Nat, n \in T PROVE n + 1 \in T
  <2>1. PICK g : Solves(g, G(n))
    BY <1>4
  <2> DEFINE h == [s \in G(n + 1) |-> IF s = {} THEN 0
                                      ELSE f[First(s)] + g[s \ {First(s)}]]
  <2>2. ASSUME NEW s \in G(n + 1), s # {}
        PROVE  s \ {First(s)} \in G(n)
    BY <1>1, <1>2, <2>2
  <2>3. G(n) \subseteq G(n + 1)
    BY <1>1
  <2>4. ASSUME NEW s \in G(n) PROVE h[s] = g[s]
    <3>1. g[s] = IF s = {} THEN 0 ELSE f[First(s)] + g[s \ {First(s)}]
      BY <2>1
    <3>2. h[s] = IF s = {} THEN 0 ELSE f[First(s)] + g[s \ {First(s)}]
      BY <2>3
    <3> QED
      BY <3>1, <3>2
  <2>5. Solves(h, G(n + 1))
    BY <2>2, <2>4
  <2>6. \E w : Solves(w, G(n + 1))
    BY <2>5
  <2> HIDE DEF Solves, G, h
  <2> QED
    BY <2>6
<1>5. Cardinality(S) \in T
  <2> HIDE DEF T
  <2>1. Nat \subseteq T
    BY <1>3, <1>4, NatInductionOnSet
  <2> QED
    BY <2>1, <1>1
<1>6. G(Cardinality(S)) = SUBSET S
  BY <1>1
<1>7. \E g : Solves(g, SUBSET S)
  BY <1>5, <1>6
<1> DEFINE sum == SumOver(f, SUBSET S)
<1>8. sum = [s \in SUBSET S |-> IF s = {} THEN 0 ELSE f[First(s)] + sum[s \ {First(s)}]]
  BY <1>7 DEF SumOver
<1> HIDE DEF sum
<1>9. \A s \in SUBSET S : sum[s] = IF s = {} THEN 0 ELSE f[First(s)] + sum[s \ {First(s)}]
  BY <1>8
<1>10. sum[{}] = 0
  BY <1>9
<1>11. \A s \in SUBSET S : s # {} => sum[s] = f[First(s)] + sum[s \ {First(s)}]
  BY <1>9
<1> QED
  BY <1>2, <1>10, <1>11 DEF Sums, sum

\* Numbers add up to a number, and nothing to nothing.
LEMMA SumType ==
    ASSUME NEW D, IsFiniteSet(D), NEW f \in [D -> Nat]
    PROVE  /\ SumFunction(f) \in Nat
           /\ (\A x \in D : f[x] = 0) => SumFunction(f) = 0
<1>1. DOMAIN f = D /\ SumFunction(f) = SumOver(f, SUBSET DOMAIN f)[DOMAIN f]
  BY SumIsSumOver
<1>2. Sums(SumOver(f, SUBSET D), f, D)
  BY SumOverSums
<1> DEFINE sum == SumOver(f, SUBSET D)
           T == {s \in SUBSET D : /\ sum[s] \in Nat
                                  /\ (\A x \in D : f[x] = 0) => sum[s] = 0}
<1>3. {} \in T
  BY <1>2 DEF Sums
<1>4. ASSUME NEW s \in SUBSET D, \A x \in s : s \ {x} \in T, s # {} PROVE s \in T
  <2> HIDE DEF sum
  <2>1. First(s) \in s /\ s \ {First(s)} \in T
    BY <1>2, <1>4 DEF sum, Sums
  <2>2. f[First(s)] \in Nat /\ sum[s] = f[First(s)] + sum[s \ {First(s)}]
    BY <2>1, <1>2, <1>4 DEF sum, Sums
  <2>3. sum[s] \in Nat
    BY <2>1, <2>2
  <2>4. (\A x \in D : f[x] = 0) => sum[s] = 0
    BY <2>1, <2>2
  <2> QED
    BY <2>3, <2>4
<1> HIDE DEF T
<1>5. SUBSET D \subseteq T
  BY <1>3, <1>4, FiniteSetInduction
<1>6. D \in T
  BY <1>5
<1> QED
  BY <1>1, <1>6 DEF T

\* One more at one place makes the sum one more.
LEMMA SumBump ==
    ASSUME NEW D, IsFiniteSet(D), NEW f \in [D -> Nat], NEW g \in [D -> Nat], NEW a,
           \A x \in D : x # a => g[x] = f[x],
           a \in D => g[a] = f[a] + 1
    PROVE  /\ a \in D => SumFunction(g) = SumFunction(f) + 1
           /\ a \notin D => SumFunction(g) = SumFunction(f)
<1>1. /\ DOMAIN f = D /\ SumFunction(f) = SumOver(f, SUBSET DOMAIN f)[DOMAIN f]
      /\ DOMAIN g = D /\ SumFunction(g) = SumOver(g, SUBSET DOMAIN g)[DOMAIN g]
  BY SumIsSumOver
<1>2. Sums(SumOver(f, SUBSET D), f, D)
  BY SumOverSums
<1>3. Sums(SumOver(g, SUBSET D), g, D)
  BY SumOverSums
<1> DEFINE sum == SumOver(f, SUBSET D)
           sum2 == SumOver(g, SUBSET D)
           T == {s \in SUBSET D : /\ sum[s] \in Nat
                                  /\ sum2[s] = sum[s] + IF a \in s THEN 1 ELSE 0}
<1>4. {} \in T
  <2>1. sum[{}] = 0 /\ sum2[{}] = 0
    BY <1>2, <1>3 DEF Sums
  <2> HIDE DEF sum, sum2
  <2> QED
    BY <2>1
<1>5. ASSUME NEW s \in SUBSET D, \A x \in s : s \ {x} \in T, s # {} PROVE s \in T
  <2> HIDE DEF sum, sum2
  <2> DEFINE x == First(s)
             r == s \ {First(s)}
  <2>1. x \in s /\ r \in T
    BY <1>2, <1>5 DEF sum, Sums
  <2>2. f[x] \in Nat /\ g[x] = f[x] + IF x = a THEN 1 ELSE 0
    BY <2>1
  <2>3. sum[s] = f[x] + sum[r] /\ sum2[s] = g[x] + sum2[r]
    BY <1>2, <1>3, <1>5 DEF sum, sum2, Sums
  <2>4. a \in s <=> a = x \/ a \in r
    BY <2>1
  <2>5. a = x => a \notin r
    OBVIOUS
  <2>6. sum[r] \in Nat /\ sum2[r] = sum[r] + IF a \in r THEN 1 ELSE 0
    BY <2>1
  <2> HIDE DEF x, r
  <2>7. sum[s] \in Nat /\ sum2[s] = sum[s] + IF a \in s THEN 1 ELSE 0
    BY <2>2, <2>3, <2>4, <2>5, <2>6
  <2> QED
    BY <2>7
<1> HIDE DEF T
<1>6. SUBSET D \subseteq T
  BY <1>4, <1>5, FiniteSetInduction
<1>7. D \in T
  BY <1>6
<1>8. sum[D] \in Nat /\ sum2[D] = sum[D] + IF a \in D THEN 1 ELSE 0
  BY <1>7 DEF T
<1> HIDE DEF sum, sum2
<1> QED
  BY <1>1, <1>8 DEF sum, sum2

===============================================================================
