------------------------- MODULE FaultStatisticsProofs -------------------------
(***************************************************************************)
(* The numbers the user is shown are what they are said to be, for every   *)
(* set of logs, any lengths of the windows and any threshold: the rows of  *)
(* a dataset, the sliding window over them, the windows found by bisection *)
(* and what is concluded from them, and the row a number stands for.       *)
(***************************************************************************)
EXTENDS FaultStatistics, SetInduction

----------------------------------------------------------------------------
(* The rows of a dataset                                                    *)

LEMMA NormalizeNumbers ==
    ASSUME NEW log \in Logs, NEW rows \in Normalize(log.lines)
    PROVE  rows \in Seq(Row) /\ Numbered(rows)
<1> DEFINE lines == log.lines
           kept == {i \in DOMAIN lines : lines[i].ts # NaT}
           Places == 1..Cardinality(kept)
<1>1. lines \in Seq(Line) /\ DOMAIN lines = 1..Len(lines) /\ Len(lines) \in Nat
  BY LogsAssumption
<1>2. Cardinality(kept) \in Nat
  <2>1. kept \in SUBSET (1..Len(lines))
    BY <1>1
  <2> HIDE DEF kept, lines
  <2> QED
    BY <1>1, <2>1, PlacesFinite
<1>3. PICK s \in Sorted(lines) :
        rows = [i \in DOMAIN s |-> [id |-> i - 1, code |-> s[i].code, ts |-> s[i].ts]]
  BY DEF Normalize
<1>4. InOrder(s) /\ \E p \in [Places -> kept] : s = [i \in Places |-> lines[p[i]]]
  BY <1>3 DEF Sorted
<1>5. PICK p \in [Places -> kept] : s = [i \in Places |-> lines[p[i]]]
  BY <1>4
<1>6. ASSUME NEW i \in Places PROVE s[i].code \in Codes /\ s[i].ts \in Times
  <2>1. s[i] = lines[p[i]] /\ p[i] \in DOMAIN lines /\ lines[p[i]].ts # NaT
    BY <1>5
  <2>2. lines[p[i]] \in Line
    <3> HIDE DEF lines, kept
    <3> QED
      BY <1>1, <2>1
  <2> QED
    BY <2>1, <2>2 DEF Line
<1> HIDE DEF lines, kept
<1>7. rows = [i \in Places |-> [id |-> i - 1, code |-> s[i].code, ts |-> s[i].ts]]
  BY <1>3, <1>5
<1>8. \A i \in Places : rows[i] \in Row /\ rows[i].id = i - 1 /\ rows[i].ts = s[i].ts
  BY <1>2, <1>6, <1>7 DEF Row
<1>9. rows \in [Places -> Row] /\ rows \in Seq(Row) /\ DOMAIN rows = DOMAIN s
  BY <1>2, <1>5, <1>7, <1>8
<1> QED
  BY <1>4, <1>5, <1>8, <1>9 DEF Numbered, InOrder

\* A cut dataset is a dataset.
LEMMA KeptNumbers ==
    ASSUME NEW rows \in Seq(Row), Numbered(rows)
    PROVE  Kept(rows) \in Seq(Row) /\ Numbered(Kept(rows)) /\ Len(Kept(rows)) =< Len(rows)
<1> DEFINE n == IF Len(rows) > SampleLimit THEN SampleLimit ELSE Len(rows)
<1>1. n \in 0..Len(rows)
  BY WindowsAssumption
<1>2. /\ Kept(rows) \in Seq(Row) /\ Len(Kept(rows)) = n
      /\ \A i \in 1..n : Kept(rows)[i] = rows[i]
  BY <1>1 DEF Kept
<1> HIDE DEF n
<1>3. DOMAIN Kept(rows) = 1..n /\ DOMAIN rows = 1..Len(rows)
  BY <1>2
<1> QED
  BY <1>1, <1>2, <1>3 DEF Numbered, InOrder

\* As many rows as places.
LEMMA RowsByPlace ==
    ASSUME NEW rows \in Seq(Row), Numbered(rows), NEW P \in SUBSET DOMAIN rows
    PROVE  /\ IsFiniteSet(P) /\ Cardinality(P) \in Nat
           /\ Cardinality({rows[i] : i \in P}) = Cardinality(P)
<1>1. DOMAIN rows = 1..Len(rows) /\ Len(rows) \in Nat
  OBVIOUS
<1>2. IsFiniteSet(P) /\ Cardinality(P) \in Nat
  BY <1>1, PlacesFinite
<1> DEFINE Q == {rows[i] : i \in P}
           f == [i \in P |-> rows[i]]
<1>3. \A i, j \in P : rows[i] = rows[j] => i = j
  BY <1>1 DEF Numbered
<1>4. f \in Bijection(P, Q)
  BY <1>3 DEF Bijection, Injection, Surjection, IsInjective
<1>5. ExistsBijection(P, Q)
  BY <1>4 DEF ExistsBijection
<1> QED
  BY <1>2, <1>5, FS_Bijection

----------------------------------------------------------------------------
(* The sliding window                                                       *)

\* The time stamps of rows in order.
InTime(stamps) ==
    /\ stamps \in Seq(Nat)
    /\ \A i, j \in DOMAIN stamps : i < j => stamps[i] =< stamps[j]

\* The while loop stops at the first place within the window.
LEMMA AdvanceStops ==
    ASSUME NEW stamps, InTime(stamps), NEW right \in 1..Len(stamps), NEW left \in 1..right
    PROVE  LET i == Advance(stamps, left, right)
           IN  /\ i \in left..right
               /\ stamps[right] - stamps[i] =< BurstWindow
               /\ \A j \in left..(i - 1) : stamps[right] - stamps[j] > BurstWindow
<1> DEFINE T == {i \in left..right : stamps[right] - stamps[i] =< BurstWindow}
<1>1. \A i \in 1..right : stamps[i] \in Nat
  BY DEF InTime
<1>2. T \in SUBSET Nat /\ right \in T
  <2>1. stamps[right] - stamps[right] = 0 /\ 0 =< BurstWindow
    BY <1>1, WindowsAssumption
  <2> QED
    BY <2>1
<1>3. PICK m \in T : \A k \in T : m =< k
  <2> HIDE DEF T
  <2> QED
    BY <1>2, SmallestNat
<1>4. m \in left..right /\ stamps[right] - stamps[m] =< BurstWindow
  BY <1>3
<1>5. \A j \in left..(m - 1) : stamps[right] - stamps[j] > BurstWindow
  <2>1. ASSUME NEW j \in left..(m - 1) PROVE stamps[right] - stamps[j] > BurstWindow
    <3>1. j \notin T /\ j \in left..right
      BY <1>3, <1>4
    <3>2. ~ (stamps[right] - stamps[j] =< BurstWindow)
      BY <3>1
    <3>3. stamps[right] \in Nat /\ stamps[j] \in Nat /\ BurstWindow \in Nat
      BY <1>1, <3>1, WindowsAssumption
    <3> QED
      BY <3>2, <3>3
  <2> QED
    BY <2>1
<1> HIDE DEF T
<1> QED
  BY <1>4, <1>5 DEF Advance

\* The for loop takes its turns one after another.
LEMMA SweepTurns ==
    ASSUME NEW stamps \in Seq(Nat)
    PROVE  /\ Sweep(stamps)[0] = [left |-> 1, max |-> 0]
           /\ \A n \in 1..Len(stamps) :
                Sweep(stamps)[n] = Turn(stamps, Sweep(stamps)[n - 1], n)
<1> DEFINE base == [left |-> 1, max |-> 0]
           Solves(g, n) == g = [r \in 0..n |-> IF r = 0 THEN base ELSE Turn(stamps, g[r - 1], r)]
           T == {n \in Nat : \E g : Solves(g, n)}
<1> HIDE DEF base
<1>1. 0 \in T
  <2>1. Solves([r \in 0..0 |-> base], 0)
    OBVIOUS
  <2>2. \E g : Solves(g, 0)
    BY <2>1
  <2> HIDE DEF Solves
  <2> QED
    BY <2>2
<1>2. ASSUME NEW n \in Nat, n \in T PROVE n + 1 \in T
  <2>1. PICK g : Solves(g, n)
    BY <1>2
  <2> DEFINE h == [r \in 0..(n + 1) |-> IF r = 0 THEN base ELSE Turn(stamps, g[r - 1], r)]
  <2>2. ASSUME NEW r \in 0..n PROVE h[r] = g[r]
    <3>1. g[r] = IF r = 0 THEN base ELSE Turn(stamps, g[r - 1], r)
      BY <2>1
    <3>2. h[r] = IF r = 0 THEN base ELSE Turn(stamps, g[r - 1], r)
      OBVIOUS
    <3> QED
      BY <3>1, <3>2
  <2>3. \A r \in 0..(n + 1) : r # 0 => h[r - 1] = g[r - 1]
    <3> HIDE DEF h
    <3>1. ASSUME NEW r \in 0..(n + 1), r # 0 PROVE h[r - 1] = g[r - 1]
      <4>1. r - 1 \in 0..n
        BY <3>1
      <4> QED
        BY <2>2, <4>1
    <3> QED
      BY <3>1
  <2>4. Solves(h, n + 1)
    BY <2>3
  <2>5. \E w : Solves(w, n + 1)
    BY <2>4
  <2> HIDE DEF Solves, h
  <2> QED
    BY <2>5
<1>3. Len(stamps) \in T
  <2> HIDE DEF T
  <2>1. Nat \subseteq T
    BY <1>1, <1>2, NatInductionOnSet
  <2> QED
    BY <2>1
<1>4. \E g : Solves(g, Len(stamps))
  BY <1>3
<1> DEFINE w == Sweep(stamps)
<1>5. w = [r \in 0..Len(stamps) |-> IF r = 0 THEN base ELSE Turn(stamps, w[r - 1], r)]
  BY <1>4 DEF Sweep, base
<1> HIDE DEF w
<1>6. \A r \in 0..Len(stamps) : w[r] = IF r = 0 THEN base ELSE Turn(stamps, w[r - 1], r)
  BY <1>5
<1>7. w[0] = base
  BY <1>6
<1>8. \A n \in 1..Len(stamps) : w[n] = Turn(stamps, w[n - 1], n)
  BY <1>6
<1> QED
  BY <1>7, <1>8 DEF w, base

\* After a turn the left end is the first place within the window of the right
\* one, and the count is the largest there has been.
Swept(stamps, n) ==
    LET w == Sweep(stamps) IN
    /\ \A m \in 1..n : w[m].left \in 1..m
    /\ stamps[n] - stamps[w[n].left] =< BurstWindow
    /\ \A j \in 1..(w[n].left - 1) : stamps[n] - stamps[j] > BurstWindow
    /\ w[n].max \in 1..n
    /\ \A m \in 1..n : m - w[m].left + 1 =< w[n].max
    /\ \E m \in 1..n : w[n].max = m - w[m].left + 1

LEMMA SweepFinds ==
    ASSUME NEW stamps, InTime(stamps)
    PROVE  \A n \in 1..Len(stamps) : Swept(stamps, n)
<1> DEFINE w == Sweep(stamps)
<1>1. stamps \in Seq(Nat) /\ \A i \in 1..Len(stamps) : stamps[i] \in Nat
  BY DEF InTime
<1>2. /\ w[0] = [left |-> 1, max |-> 0]
      /\ \A n \in 1..Len(stamps) : w[n] = Turn(stamps, w[n - 1], n)
  BY <1>1, SweepTurns
<1> HIDE DEF w
<1>3. ASSUME NEW n \in 1..Len(stamps),
             w[n - 1].left \in 1..n,
             \A m \in 1..(n - 1) : w[m].left \in 1..m,
             \A j \in 1..(w[n - 1].left - 1) : stamps[n] - stamps[j] > BurstWindow,
             w[n - 1].max \in 0..(n - 1),
             \A m \in 1..(n - 1) : m - w[m].left + 1 =< w[n - 1].max,
             n > 1 => \E m \in 1..(n - 1) : w[n - 1].max = m - w[m].left + 1
      PROVE  Swept(stamps, n)
  <2> DEFINE left == Advance(stamps, w[n - 1].left, n)
             count == n - left + 1
             max == w[n - 1].max
  <2>1. /\ left \in w[n - 1].left..n
        /\ stamps[n] - stamps[left] =< BurstWindow
        /\ \A j \in w[n - 1].left..(left - 1) : stamps[n] - stamps[j] > BurstWindow
    BY <1>3, AdvanceStops
  <2>2. w[n].left = left /\ w[n].max = IF count > max THEN count ELSE max
    <3>1. w[n] = Turn(stamps, w[n - 1], n)
      BY <1>2
    <3>2. Turn(stamps, w[n - 1], n)
            = [left |-> left, max |-> IF count > max THEN count ELSE max]
      BY DEF Turn
    <3> HIDE DEF left, count, max
    <3> QED
      BY <3>1, <3>2
  <2> HIDE DEF left
  <2>3. left \in 1..n /\ count \in 1..n /\ max \in 0..(n - 1)
    BY <1>3, <2>1
  <2>4. \A j \in 1..(left - 1) : stamps[n] - stamps[j] > BurstWindow
    BY <1>3, <2>1
  <2>5. w[n].max \in 1..n /\ count =< w[n].max /\ max =< w[n].max
    BY <2>2, <2>3
  <2>6. ASSUME NEW m \in 1..n PROVE m - w[m].left + 1 =< w[n].max
    <3>1. CASE m = n
      BY <2>2, <2>5, <3>1
    <3>2. CASE m # n
      <4>1. m \in 1..(n - 1) /\ m - w[m].left + 1 =< max
        BY <1>3, <3>2
      <4>2. PICK k \in Int : k = w[m].left
        <5>1. w[m].left \in Int
          BY <1>3, <4>1
        <5> QED
          BY <5>1
      <4> QED
        BY <2>3, <2>5, <4>1, <4>2
    <3> QED
      BY <3>1, <3>2
  <2>7. \E m \in 1..n : w[n].max = m - w[m].left + 1
    <3>1. CASE count > max
      BY <2>2, <3>1
    <3>2. CASE ~ (count > max)
      <4> HIDE DEF count, max
      <4>1. n > 1 /\ w[n].max = max
        BY <2>2, <2>3, <3>2
      <4>2. PICK m \in 1..(n - 1) : max = m - w[m].left + 1
        BY <1>3, <4>1 DEF max
      <4> QED
        BY <4>1, <4>2
    <3> QED
      BY <3>1, <3>2
  <2>8. ASSUME NEW m \in 1..n PROVE w[m].left \in 1..m
    <3>1. m = n \/ m \in 1..(n - 1)
      OBVIOUS
    <3> QED
      BY <1>3, <2>2, <2>3, <3>1
  <2> HIDE DEF count, max
  <2> QED
    BY <2>1, <2>2, <2>4, <2>5, <2>6, <2>7, <2>8 DEF Swept, w
<1> DEFINE T == {n \in Nat : n \in 1..Len(stamps) => Swept(stamps, n)}
<1>4. 0 \in T
  OBVIOUS
<1>5. ASSUME NEW n \in Nat, n \in T PROVE n + 1 \in T
  <2>1. CASE n + 1 \notin 1..Len(stamps)
    BY <2>1
  <2>2. CASE n + 1 \in 1..Len(stamps) /\ n = 0
    <3>1. /\ w[0].left = 1 /\ w[0].max = 0
      BY <1>2
    <3>2. Swept(stamps, 1)
      BY <1>3, <2>2, <3>1
    <3> QED
      BY <2>2, <3>2
  <2>3. CASE n + 1 \in 1..Len(stamps) /\ n # 0
    <3>1. n \in 1..Len(stamps) /\ Swept(stamps, n)
      BY <1>5, <2>3
    <3>2. \A j \in 1..(w[n].left - 1) : stamps[n + 1] - stamps[j] > BurstWindow
      <4>1. ASSUME NEW j \in 1..(w[n].left - 1)
            PROVE  stamps[n + 1] - stamps[j] > BurstWindow
        <5>1. stamps[n] - stamps[j] > BurstWindow /\ j \in 1..Len(stamps)
          BY <3>1 DEF Swept, w
        <5>2. stamps[n] =< stamps[n + 1]
          BY <2>3, <3>1 DEF InTime
        <5>3. stamps[n] \in Nat /\ stamps[n + 1] \in Nat /\ stamps[j] \in Nat /\ BurstWindow \in Nat
          BY <1>1, <2>3, <3>1, <5>1, WindowsAssumption
        <5> QED
          BY <5>1, <5>2, <5>3
      <4> QED
        BY <4>1
    <3>3. /\ w[n].left \in 1..n
          /\ \A m \in 1..n : w[m].left \in 1..m
          /\ w[n].max \in 1..n
          /\ \A m \in 1..n : m - w[m].left + 1 =< w[n].max
          /\ \E m \in 1..n : w[n].max = m - w[m].left + 1
      BY <3>1 DEF Swept, w
    <3>4. PICK k \in 1..Len(stamps) : k = n + 1
      BY <2>3
    <3>5. k - 1 = n /\ k > 1
      BY <2>3, <3>4
    <3>6. /\ w[k - 1].left \in 1..k
          /\ \A m \in 1..(k - 1) : w[m].left \in 1..m
          /\ \A j \in 1..(w[k - 1].left - 1) : stamps[k] - stamps[j] > BurstWindow
      BY <3>2, <3>3, <3>4, <3>5
    <3>7. /\ w[k - 1].max \in 0..(k - 1)
          /\ \A m \in 1..(k - 1) : m - w[m].left + 1 =< w[k - 1].max
          /\ \E m \in 1..(k - 1) : w[k - 1].max = m - w[m].left + 1
      BY <3>3, <3>4, <3>5
    <3>8. Swept(stamps, k)
      BY <1>3, <3>6, <3>7
    <3> QED
      BY <3>4, <3>8
  <2> QED
    BY <2>1, <2>2, <2>3
<1> HIDE DEF T
<1>6. Nat \subseteq T
  BY <1>4, <1>5, NatInductionOnSet
<1> QED
  BY <1>6 DEF T

\* The time stamps of the rows of a dataset are in order.
LEMMA StampsInTime ==
    ASSUME NEW rows \in Seq(Row), Numbered(rows)
    PROVE  /\ InTime(Stamps(rows)) /\ Len(Stamps(rows)) = Len(rows)
           /\ DOMAIN rows = 1..Len(rows) /\ Len(rows) \in Nat
           /\ \A i \in DOMAIN rows : /\ rows[i] \in Row /\ rows[i].ts \in Times
                                     /\ Stamps(rows)[i] = rows[i].ts /\ rows[i].ts \in Nat
<1>1. DOMAIN rows = 1..Len(rows) /\ Len(rows) \in Nat
  OBVIOUS
<1>2. \A i \in DOMAIN rows : rows[i] \in Row /\ rows[i].ts \in Times /\ rows[i].ts \in Nat
  <2>1. ASSUME NEW i \in DOMAIN rows PROVE rows[i] \in Row
    BY <1>1
  <2> QED
    BY <2>1, TimesAssumption DEF Row
<1>3. Stamps(rows) \in [1..Len(rows) -> Nat]
  BY <1>1, <1>2 DEF Stamps
<1>4. Stamps(rows) \in Seq(Nat) /\ Len(Stamps(rows)) = Len(rows)
  BY <1>1, <1>3
<1>5. \A i \in DOMAIN rows : Stamps(rows)[i] = rows[i].ts
  BY DEF Stamps
<1> QED
  BY <1>1, <1>2, <1>3, <1>4, <1>5 DEF InTime, Numbered, InOrder

\* The places of the rows of a window of the length of a burst.
BurstPlaces(rows, t) == {i \in DOMAIN rows : t =< rows[i].ts /\ rows[i].ts =< t + BurstWindow}

LEMMA BurstByPlace ==
    ASSUME NEW rows \in Seq(Row), Numbered(rows), NEW t
    PROVE  /\ BurstPlaces(rows, t) \in SUBSET (1..Len(rows))
           /\ IsFiniteSet(BurstPlaces(rows, t))
           /\ Cardinality(BurstPlaces(rows, t)) \in Nat
           /\ Cardinality({r \in {rows[i] : i \in DOMAIN rows} :
                               t =< r.ts /\ r.ts =< t + BurstWindow})
                = Cardinality(BurstPlaces(rows, t))
<1>1. {r \in {rows[i] : i \in DOMAIN rows} : t =< r.ts /\ r.ts =< t + BurstWindow}
        = {rows[i] : i \in BurstPlaces(rows, t)}
  BY DEF BurstPlaces
<1>2. BurstPlaces(rows, t) \in SUBSET DOMAIN rows /\ DOMAIN rows = 1..Len(rows)
  BY DEF BurstPlaces
<1> QED
  BY <1>1, <1>2, RowsByPlace

\* No window holds more rows than the sweep has counted.
LEMMA SweepBounds ==
    ASSUME NEW rows \in Seq(Row), Numbered(rows), Len(rows) > 0, NEW t \in Times
    PROVE  Cardinality(BurstPlaces(rows, t)) =< Sweep(Stamps(rows))[Len(rows)].max
<1> DEFINE P == BurstPlaces(rows, t)
           n == Len(rows)
           stamps == Stamps(rows)
           w == Sweep(stamps)
<1>1. /\ n \in 1..n /\ InTime(stamps) /\ Len(stamps) = n
      /\ \A i \in 1..n : stamps[i] = rows[i].ts /\ rows[i].ts \in Nat
  BY StampsInTime
<1>2. Swept(stamps, n)
  BY <1>1, SweepFinds
<1>3. P \in SUBSET (1..n) /\ IsFiniteSet(P)
  BY BurstByPlace
<1>4. CASE P = {}
  BY <1>2, <1>4, FS_EmptySet DEF Swept
<1>5. CASE P # {}
  <2>1. PICK m \in P : \A k \in P : k =< m
    <3>1. n \in Nat /\ P \in SUBSET (0..n)
      BY <1>1, <1>3
    <3> HIDE DEF P
    <3> QED
      BY <3>1, <1>5, LargestNat
  <2>2. m \in 1..n
    BY <1>3, <2>1
  <2>3. Swept(stamps, m)
    BY <1>1, <2>2, SweepFinds
  <2>4. w[m].left \in 1..m /\ m - w[m].left + 1 =< w[n].max
        /\ \A j \in 1..(w[m].left - 1) : stamps[m] - stamps[j] > BurstWindow
    BY <1>2, <2>2, <2>3 DEF Swept
  <2>5. P \subseteq w[m].left..m
    <3>1. ASSUME NEW i \in P PROVE i \in w[m].left..m
      <4>1. i \in 1..n /\ t =< rows[i].ts /\ rows[m].ts =< t + BurstWindow /\ i =< m
        BY <1>3, <2>1 DEF BurstPlaces
      <4>2. stamps[i] \in Nat /\ stamps[m] \in Nat /\ stamps[m] - stamps[i] =< BurstWindow
        <5>1. /\ stamps[i] \in Nat /\ stamps[m] \in Nat /\ BurstWindow \in Nat /\ t \in Nat
              /\ t =< stamps[i] /\ stamps[m] =< t + BurstWindow
          BY <1>1, <2>2, <4>1, WindowsAssumption, TimesAssumption
        <5> HIDE DEF stamps
        <5> QED
          BY <5>1
      <4>3. ~ (stamps[m] - stamps[i] > BurstWindow)
        BY <4>2, WindowsAssumption
      <4>4. i \notin 1..(w[m].left - 1)
        BY <2>4, <4>3
      <4> HIDE DEF w
      <4> QED
        BY <2>4, <4>1, <4>4
    <3> QED
      BY <3>1
  <2> HIDE DEF P, w
  <2>6. PICK left \in 1..m : left = w[m].left
    BY <2>4
  <2>7. IsFiniteSet(left..m) /\ Cardinality(left..m) = m - left + 1
    <3>1. m \in Int /\ left \in Int /\ left =< m
      BY <2>2, <2>6
    <3> QED
      BY <3>1, FS_Interval
  <2>8. Cardinality(P) =< m - left + 1
    BY <2>5, <2>6, <2>7, FS_Subset
  <2>9. w[n].max \in Nat /\ Cardinality(P) \in Nat
    BY <1>2, <1>3, FS_CardinalityType DEF Swept, w
  <2> QED
    BY <2>2, <2>4, <2>6, <2>8, <2>9 DEF w, P
<1> QED
  BY <1>4, <1>5

\* The window that ends at the place of the largest count holds as many.
LEMMA SweepReaches ==
    ASSUME NEW rows \in Seq(Row), Numbered(rows), Len(rows) > 0
    PROVE  \E t \in Times :
             Cardinality(BurstPlaces(rows, t)) = Sweep(Stamps(rows))[Len(rows)].max
<1> DEFINE n == Len(rows)
           stamps == Stamps(rows)
           w == Sweep(stamps)
<1>1. /\ n \in 1..n /\ InTime(stamps) /\ Len(stamps) = n
      /\ \A i \in 1..n : stamps[i] = rows[i].ts /\ rows[i].ts \in Nat /\ rows[i].ts \in Times
  BY StampsInTime
<1>2. Swept(stamps, n)
  BY <1>1, SweepFinds
<1>3. PICK m \in 1..n : w[n].max = m - w[m].left + 1
  BY <1>2 DEF Swept
<1>4. Swept(stamps, m)
  BY <1>1, SweepFinds
<1>5. w[m].left \in 1..m /\ stamps[m] - stamps[w[m].left] =< BurstWindow
  BY <1>4 DEF Swept
<1> HIDE DEF w
<1>6. PICK left \in 1..m : left = w[m].left
  BY <1>5
<1>7. left \in 1..n
  BY <1>6
<1> DEFINE t == rows[left].ts
           P == BurstPlaces(rows, t)
<1>8. t \in Times /\ t = stamps[left]
  BY <1>1, <1>7
<1>9. left..m \subseteq P
  <2>1. ASSUME NEW i \in left..m PROVE i \in P
    <3>1. i \in 1..n /\ i \in DOMAIN rows /\ DOMAIN stamps = 1..n
      BY <1>1, <1>7 DEF InTime
    <3>2. stamps[left] =< stamps[i] /\ stamps[i] =< stamps[m]
      BY <1>1, <1>7, <3>1 DEF InTime
    <3>3. /\ stamps[i] = rows[i].ts /\ stamps[i] \in Nat
          /\ stamps[m] \in Nat /\ stamps[left] \in Nat /\ BurstWindow \in Nat
      BY <1>1, <1>7, <3>1, WindowsAssumption
    <3>4. rows[i].ts =< t + BurstWindow /\ t =< rows[i].ts
      <4>1. stamps[m] - stamps[left] =< BurstWindow
        BY <1>5, <1>6
      <4>2. stamps[m] =< stamps[left] + BurstWindow
        <5> HIDE DEF stamps
        <5> QED
          BY <3>3, <4>1
      <4> HIDE DEF stamps, t
      <4> QED
        BY <1>8, <3>2, <3>3, <4>2
    <3> QED
      BY <3>1, <3>4 DEF BurstPlaces
  <2> QED
    BY <2>1
<1>10. IsFiniteSet(P) /\ Cardinality(P) \in Nat
  BY BurstByPlace
<1>11. Cardinality(P) =< w[n].max
  BY <1>8, SweepBounds DEF w
<1> HIDE DEF P, t
<1>12. IsFiniteSet(left..m) /\ Cardinality(left..m) = m - left + 1
  BY <1>6, FS_Interval
<1>13. m - left + 1 =< Cardinality(P)
  BY <1>9, <1>10, <1>12, FS_Subset
<1>14. Cardinality(P) = w[n].max
  BY <1>3, <1>6, <1>10, <1>11, <1>13
<1> QED
  BY <1>8, <1>14 DEF P, w

\* The burst of the rows of a dataset is that of its densest window.
LEMMA BurstOfDensest ==
    ASSUME NEW rows \in Seq(Row), Numbered(rows)
    PROVE  LET In(t) == Cardinality({r \in {rows[i] : i \in DOMAIN rows} :
                                         t =< r.ts /\ r.ts =< t + BurstWindow})
               enough == Len(rows) >= BurstThreshold
               found == FaultBurst(rows)
           IN  /\ found \in Burst /\ found.count =< Len(rows)
               /\ enough => /\ \A t \in Times : In(t) =< found.count
                            /\ \E t \in Times : In(t) = found.count
               /\ ~enough => found.count = 0
               /\ found.detected <=> enough /\ \E t \in Times : In(t) >= BurstThreshold
<1> DEFINE In(t) == Cardinality({r \in {rows[i] : i \in DOMAIN rows} :
                                     t =< r.ts /\ r.ts =< t + BurstWindow})
           enough == Len(rows) >= BurstThreshold
           swept == Sweep(Stamps(rows))[Len(rows)].max
           found == FaultBurst(rows)
<1>1. BurstThreshold \in Nat \ {0} /\ Len(rows) \in Nat
  BY WindowsAssumption
<1> DEFINE max == IF Len(rows) < BurstThreshold THEN 0 ELSE swept
<1>0. found = [detected |-> max >= BurstThreshold /\ enough, count |-> max]
  BY DEF FaultBurst
<1>2. CASE ~enough
  <2>1. max = 0
    BY <1>1, <1>2
  <2> HIDE DEF max, found, In, enough
  <2>2. found = [detected |-> FALSE, count |-> 0]
    BY <1>0, <1>1, <1>2, <2>1
  <2>3. found \in Burst /\ found.count =< Len(rows) /\ found.count = 0 /\ found.detected = FALSE
    BY <1>1, <2>2 DEF Burst
  <2> QED
    BY <1>2, <2>3 DEF found, In, enough
<1>3. CASE enough
  <2>1. found = [detected |-> swept >= BurstThreshold, count |-> swept]
    <3>1. max = swept
      BY <1>1, <1>3
    <3> HIDE DEF max, found, swept
    <3> QED
      BY <1>0, <1>3, <3>1
  <2>2. Swept(Stamps(rows), Len(rows))
    <3>1. InTime(Stamps(rows)) /\ Len(Stamps(rows)) = Len(rows)
      BY StampsInTime
    <3> QED
      BY <1>1, <1>3, <3>1, SweepFinds
  <2>3. swept \in 1..Len(rows)
    BY <2>2 DEF Swept
  <2>4. ASSUME NEW t \in Times PROVE In(t) =< swept /\ In(t) \in Nat
    BY <1>1, <1>3, BurstByPlace, SweepBounds
  <2>5. \E t \in Times : In(t) = swept
    <3>1. PICK t \in Times : Cardinality(BurstPlaces(rows, t)) = swept
      BY <1>1, <1>3, SweepReaches
    <3> QED
      BY <3>1, BurstByPlace
  <2> HIDE DEF found, swept, In
  <2>6. found.detected <=> \E t \in Times : In(t) >= BurstThreshold
    <3>1. found.detected <=> swept >= BurstThreshold
      BY <2>1
    <3>2. swept >= BurstThreshold => \E t \in Times : In(t) >= BurstThreshold
      BY <2>5
    <3>3. ASSUME NEW t \in Times, In(t) >= BurstThreshold PROVE swept >= BurstThreshold
      BY <1>1, <2>3, <2>4, <3>3
    <3> QED
      BY <3>1, <3>2, <3>3
  <2>7. found \in Burst /\ found.count = swept /\ found.count =< Len(rows)
    BY <1>1, <2>1, <2>3 DEF Burst
  <2> QED
    BY <1>3, <2>4, <2>5, <2>6, <2>7 DEF found, In
<1> QED
  BY <1>2, <1>3

----------------------------------------------------------------------------
(* The windows of a row                                                     *)

\* The places of the other rows that are counted with the row of a place.
OtherPlaces(rows, k, length) ==
    {i \in DOMAIN rows : /\ i # k /\ rows[i].code = rows[k].code
                         /\ rows[k].ts - length =< rows[i].ts /\ rows[i].ts =< rows[k].ts}

\* What the two bisections leave between them, without the row itself.
LEMMA OthersByPlace ==
    ASSUME NEW rows \in Seq(Row), Numbered(rows), NEW k \in DOMAIN rows, NEW length \in Nat
    PROVE  /\ IsFiniteSet(OtherPlaces(rows, k, length))
           /\ Cardinality(OtherPlaces(rows, k, length)) \in Nat
           /\ OccurrencesInWindow(TimestampsForCode(rows, rows[k].code), rows[k].ts, length)
                = Cardinality(OtherPlaces(rows, k, length))
<1> DEFINE n == Len(rows)
           ref == rows[k].ts
           S == {i \in DOMAIN rows : rows[i].code = rows[k].code}
           upto == {i \in S : rows[i].ts =< ref}
           before == {i \in S : rows[i].ts < ref - length}
           stamps == TimestampsForCode(rows, rows[k].code)
           others == OtherPlaces(rows, k, length)
<1>1. /\ DOMAIN rows = 1..n /\ n \in Nat /\ k \in 1..n
      /\ \A i \in 1..n : rows[i].ts \in Nat
  BY StampsInTime
<1>2. upto \in SUBSET (1..n) /\ before \in SUBSET upto
  <2>1. ASSUME NEW i \in before PROVE i \in upto
    <3>1. rows[i].ts \in Nat /\ rows[k].ts \in Nat
      BY <1>1
    <3> QED
      BY <3>1
  <2> QED
    BY <1>1, <2>1
<1>3. Right(stamps, ref) = Cardinality(upto) /\ Left(stamps, ref - length) = Cardinality(before)
  <2>1. DOMAIN stamps = S /\ \A i \in S : stamps[i] = rows[i].ts
    BY DEF TimestampsForCode
  <2>2. /\ {i \in DOMAIN stamps : stamps[i] =< ref} = upto
        /\ {i \in DOMAIN stamps : stamps[i] < ref - length} = before
    <3> HIDE DEF stamps
    <3> QED
      BY <2>1
  <2> QED
    BY <2>2 DEF Right, Left
<1>4. k \in upto \ before
  <2>1. k \in S /\ rows[k].ts \in Nat
    BY <1>1
  <2> QED
    BY <2>1
<1>5. others = (upto \ before) \ {k}
  <2>1. ASSUME NEW i \in 1..n
        PROVE  rows[i].ts < ref - length <=> ~ (ref - length =< rows[i].ts)
    <3>1. rows[i].ts \in Nat /\ rows[k].ts \in Nat
      BY <1>1
    <3> QED
      BY <3>1
  <2> QED
    BY <1>1, <2>1 DEF OtherPlaces
<1> HIDE DEF upto, before, others, ref
<1>6. /\ IsFiniteSet(upto) /\ IsFiniteSet(before)
      /\ Cardinality(upto) \in Nat /\ Cardinality(before) \in Nat
      /\ IsFiniteSet(upto \ before)
      /\ Cardinality(upto \ before) = Cardinality(upto) - Cardinality(before)
  <2>1. IsFiniteSet(upto)
    BY <1>1, <1>2, PlacesFinite
  <2>2. IsFiniteSet(before)
    BY <1>2, <2>1, FS_Subset
  <2>3. upto \cap before = before
    BY <1>2
  <2> QED
    BY <2>1, <2>2, <2>3, FS_Difference, FS_CardinalityType
<1>7. IsFiniteSet(others) /\ Cardinality(others) = Cardinality(upto \ before) - 1
  BY <1>4, <1>5, <1>6, FS_RemoveElement
<1>8. Cardinality(others) \in Nat
  BY <1>7, FS_CardinalityType
<1>9. DOMAIN stamps # {}
  BY <1>1 DEF TimestampsForCode
<1> HIDE DEF stamps
<1>10. OccurrencesInWindow(stamps, ref, length)
         = IF Cardinality(others) < 0 THEN 0 ELSE Cardinality(others)
  BY <1>3, <1>6, <1>7, <1>9 DEF OccurrencesInWindow
<1> QED
  BY <1>7, <1>8, <1>10 DEF stamps, ref, others

\* A longer window counts no less.
LEMMA LongerWindow ==
    ASSUME NEW rows \in Seq(Row), Numbered(rows), NEW k \in DOMAIN rows,
           NEW short \in Nat, NEW long \in Nat, short =< long
    PROVE  Cardinality(OtherPlaces(rows, k, short)) =< Cardinality(OtherPlaces(rows, k, long))
<1>1. OtherPlaces(rows, k, short) \subseteq OtherPlaces(rows, k, long)
  <2>1. ASSUME NEW i \in DOMAIN rows, rows[k].ts - short =< rows[i].ts
        PROVE  rows[k].ts - long =< rows[i].ts
    <3>1. rows[i].ts \in Nat /\ rows[k].ts \in Nat
      BY StampsInTime
    <3> QED
      BY <2>1, <3>1
  <2> QED
    BY <2>1 DEF OtherPlaces
<1> QED
  BY <1>1, OthersByPlace, FS_Subset

\* The count of a window is that of the other rows of the code in it.
LEMMA OthersCounted ==
    ASSUME NEW rows \in Seq(Row), Numbered(rows),
           NEW r \in {rows[i] : i \in DOMAIN rows}, NEW length \in Nat
    PROVE  OccurrencesInWindow(TimestampsForCode(rows, r.code), r.ts, length)
             = Cardinality({x \in {rows[i] : i \in DOMAIN rows} :
                               /\ x.id # r.id /\ x.code = r.code
                               /\ r.ts - length =< x.ts /\ x.ts =< r.ts})
<1>1. PICK k \in DOMAIN rows : r = rows[k]
  OBVIOUS
<1> DEFINE P == OtherPlaces(rows, k, length)
<1>2. ASSUME NEW i \in DOMAIN rows PROVE rows[i].id # r.id <=> i # k
  <2>1. rows[i].id = i - 1 /\ r.id = k - 1 /\ i \in Nat /\ k \in Nat
    BY <1>1, StampsInTime DEF Numbered
  <2> QED
    BY <2>1
<1>3. {x \in {rows[i] : i \in DOMAIN rows} :
         /\ x.id # r.id /\ x.code = r.code
         /\ r.ts - length =< x.ts /\ x.ts =< r.ts} = {rows[i] : i \in P}
  BY <1>1, <1>2 DEF OtherPlaces
<1>4. P \in SUBSET DOMAIN rows
  BY DEF OtherPlaces
<1>5. Cardinality({rows[i] : i \in P}) = Cardinality(P)
  BY <1>4, RowsByPlace
<1> QED
  BY <1>1, <1>3, <1>5, OthersByPlace

----------------------------------------------------------------------------
(* What is said of a row                                                    *)

LEMMA BlocksPositive == Blocks \in Nat \ {0}
BY WindowsAssumption DEF Blocks

\* The verdicts follow from three counts, of which a longer window's is no less.
LEMMA VerdictOfCounts ==
    ASSUME NEW rows \in Seq(Row), Numbered(rows),
           NEW r \in {rows[i] : i \in DOMAIN rows}, NEW isBurst \in BOOLEAN
    PROVE  LET q == QuickStats(rows, isBurst, r)
               m == q.metrics
           IN  /\ q.confidence # "LOW" => q.integrity /\ m.hour >= Frequent
               /\ m.hour >= MinSample => q.integrity /\ q.confidence # "LOW"
               /\ q.confidence = "HIGH" => isBurst /\ m.hour * Blocks > 3 * m.day
               /\ m.score # Nothing => m.score.under > 0 /\ m.score.over =< Blocks * m.score.under
               /\ q.trend = "RISING" => m.half > 0
               /\ q.trend = "DECLINING" => m.day > 2 * Blocks * m.half
<1> DEFINE stamps == TimestampsForCode(rows, r.code)
           half == OccurrencesInWindow(stamps, r.ts, HalfHour)
           hour == OccurrencesInWindow(stamps, r.ts, Hour)
           day == OccurrencesInWindow(stamps, r.ts, Day)
           score == IF hour < MinSample THEN Nothing ELSE [over |-> hour * Blocks, under |-> day]
           m == RollingMetrics(stamps, r.ts)
           q == QuickStats(rows, isBurst, r)
<1>1. half \in Nat /\ hour \in Nat /\ day \in Nat /\ hour =< day
  <2>1. PICK k \in DOMAIN rows : r = rows[k]
    OBVIOUS
  <2>2. HalfHour \in Nat /\ Hour \in Nat /\ Day \in Nat /\ Hour =< Day
    BY WindowsAssumption
  <2>3. /\ half = Cardinality(OtherPlaces(rows, k, HalfHour)) /\ half \in Nat
        /\ hour = Cardinality(OtherPlaces(rows, k, Hour)) /\ hour \in Nat
        /\ day = Cardinality(OtherPlaces(rows, k, Day)) /\ day \in Nat
    BY <2>1, <2>2, OthersByPlace
  <2> QED
    BY <2>1, <2>2, <2>3, LongerWindow
<1>2. m = [day |-> day, hour |-> hour, half |-> half, score |-> score]
  BY DEF RollingMetrics
<1>3. q = [metrics |-> m, trend |-> Trend(m), integrity |-> Integrity(isBurst, m),
           confidence |-> Confidence(isBurst, m)]
  BY DEF QuickStats
<1>4. MinSample \in Nat \ {0} /\ Blocks \in Nat \ {0}
  BY WindowsAssumption, BlocksPositive
<1> HIDE DEF half, hour, day, m
<1>5. /\ hour < MinSample => score = Nothing
      /\ hour >= MinSample => /\ score # Nothing
                              /\ score = [over |-> hour * Blocks, under |-> day]
  <2>1. [over |-> hour * Blocks, under |-> day] \in Score
    BY <1>1, <1>4 DEF Score
  <2> QED
    BY <1>1, <1>4, <2>1, NothingAssumption
<1> HIDE DEF score, q
<1>6. m.day = day /\ m.hour = hour /\ m.half = half /\ m.score = score
  BY <1>2
<1>7. Integrity(isBurst, m) <=> hour >= MinSample
  BY <1>1, <1>4, <1>5, <1>6 DEF Integrity
<1>8. Confidence(isBurst, m) # "LOW" <=> hour >= MinSample
  BY <1>1, <1>4, <1>6, <1>7, WindowsAssumption DEF Confidence
<1>14. hour >= MinSample => hour >= Frequent
  BY <1>1, WindowsAssumption
<1>9. ASSUME Confidence(isBurst, m) = "HIGH"
      PROVE  isBurst /\ hour * Blocks > 3 * day
  <2>1. Integrity(isBurst, m) /\ isBurst /\ score.over > 3 * score.under
    BY <1>6, <1>9 DEF Confidence
  <2>2. score.over = hour * Blocks /\ score.under = day
    BY <1>5, <1>7, <2>1
  <2> QED
    BY <2>1, <2>2
<1>10. ASSUME score # Nothing
       PROVE  score.under > 0 /\ score.over =< Blocks * score.under
  <2>1. hour >= MinSample /\ score.over = hour * Blocks /\ score.under = day
    BY <1>1, <1>4, <1>5, <1>10
  <2>2. day > 0
    BY <1>1, <1>4, <2>1
  <2>3. hour * Blocks =< Blocks * day
    BY <1>1, <1>4
  <2> QED
    BY <2>1, <2>2, <2>3
<1>11. Trend(m) = "RISING" => half > 0
  <2>1. PICK e \in Nat : e = 2 * Blocks
    BY <1>4
  <2>2. half = 0 => e * half = 0
    BY <2>1
  <2>3. Trend(m) = "RISING" => e * half - day > 0
    BY <1>6, <2>1 DEF Trend
  <2> QED
    BY <1>1, <2>2, <2>3
<1>12. Trend(m) = "DECLINING" => day > 2 * Blocks * half
  <2>1. PICK e \in Nat : e = 2 * Blocks * half
    BY <1>1, <1>4
  <2>2. Trend(m) = "DECLINING" => ~ (2 * (e - day) < Blocks /\ 0 - 2 * (e - day) < Blocks)
                                  /\ ~ (e - day > 0)
    BY <1>6, <2>1 DEF Trend
  <2>3. ASSUME Trend(m) = "DECLINING" PROVE day > e
    <3>1. ~ (2 * (e - day) < Blocks /\ 0 - 2 * (e - day) < Blocks) /\ ~ (e - day > 0)
      BY <2>2, <2>3
    <3> QED
      BY <1>1, <1>4, <3>1
  <2> QED
    BY <2>1, <2>3
<1>13. /\ q.metrics = m /\ q.trend = Trend(m) /\ q.integrity = Integrity(isBurst, m)
       /\ q.confidence = Confidence(isBurst, m)
  BY <1>3
<1> QED
  BY <1>6, <1>7, <1>8, <1>9, <1>10, <1>11, <1>12, <1>13, <1>14 DEF q

----------------------------------------------------------------------------
(* The co-occurring fault                                                   *)

\* Bisection finds the places before a time and those up to it.
LEMMA Bisects ==
    ASSUME NEW rows \in Seq(Row), Numbered(rows), NEW t \in Int
    PROVE  /\ Left(Stamps(rows), t) \in 0..Len(rows)
           /\ Right(Stamps(rows), t) \in 0..Len(rows)
           /\ \A i \in DOMAIN rows : rows[i].ts < t <=> i =< Left(Stamps(rows), t)
           /\ \A i \in DOMAIN rows : rows[i].ts =< t <=> i =< Right(Stamps(rows), t)
<1> DEFINE n == Len(rows)
           stamps == Stamps(rows)
           before == {i \in DOMAIN stamps : stamps[i] < t}
           upto == {i \in DOMAIN stamps : stamps[i] =< t}
<1>1. /\ n \in Nat /\ DOMAIN rows = 1..n /\ DOMAIN stamps = 1..n
      /\ \A i \in 1..n : stamps[i] = rows[i].ts /\ stamps[i] \in Nat
      /\ \A i, j \in 1..n : i < j => stamps[i] =< stamps[j]
  BY StampsInTime DEF InTime
<1> HIDE DEF stamps
<1>2. before \in SUBSET (1..n) /\ upto \in SUBSET (1..n)
  BY <1>1
<1>3. ASSUME NEW i \in 1..n, NEW j \in 1..i PROVE j \in 1..n /\ stamps[j] =< stamps[i]
  BY <1>1
<1>4. /\ \A i \in before : \A j \in 1..i : j \in before
      /\ \A i \in upto : \A j \in 1..i : j \in upto
  <2>1. ASSUME NEW i \in 1..n, NEW j \in 1..i
        PROVE  /\ stamps[i] < t => stamps[j] < t
               /\ stamps[i] =< t => stamps[j] =< t
    BY <1>1, <1>3
  <2>2. \A i \in 1..n : \A j \in 1..i : j \in 1..n
    BY <1>1
  <2> QED
    BY <1>1, <2>1, <2>2
<1> HIDE DEF before, upto
<1>5. before = 1..Cardinality(before) /\ upto = 1..Cardinality(upto)
  BY <1>1, <1>2, <1>4, FirstPlaces
<1>6. Cardinality(before) \in 0..n /\ Cardinality(upto) \in 0..n
  BY <1>1, <1>2, PlacesFinite
<1>7. Left(stamps, t) = Cardinality(before) /\ Right(stamps, t) = Cardinality(upto)
  BY DEF Left, Right, before, upto
<1>8. ASSUME NEW i \in 1..n
      PROVE  /\ rows[i].ts < t <=> i =< Cardinality(before)
             /\ rows[i].ts =< t <=> i =< Cardinality(upto)
  <2>1. i \in before <=> rows[i].ts < t
    BY <1>1 DEF before
  <2>2. i \in upto <=> rows[i].ts =< t
    BY <1>1 DEF upto
  <2>3. i \in 1..Cardinality(before) <=> i =< Cardinality(before)
    BY <1>6
  <2>4. i \in 1..Cardinality(upto) <=> i =< Cardinality(upto)
    BY <1>6
  <2> QED
    BY <1>5, <2>1, <2>2, <2>3, <2>4
<1> QED
  BY <1>1, <1>6, <1>7, <1>8 DEF stamps

\* The code that is left out is that of the first row of the time stamp.
LEMMA FirstOfStamp ==
    ASSUME NEW rows \in Seq(Row), Numbered(rows), NEW k \in DOMAIN rows,
           \A i \in DOMAIN rows : rows[i].ts = rows[k].ts => k =< i
    PROVE  Left(Stamps(rows), rows[k].ts) + 1 = k
<1> DEFINE left == Left(Stamps(rows), rows[k].ts)
<1>1. /\ DOMAIN rows = 1..Len(rows) /\ Len(rows) \in Nat
      /\ \A i \in DOMAIN rows : rows[i].ts \in Nat
      /\ \A i, j \in DOMAIN rows : i < j => rows[i].ts =< rows[j].ts
  BY StampsInTime DEF Numbered, InOrder
<1>2. left \in 0..Len(rows) /\ \A i \in DOMAIN rows : rows[i].ts < rows[k].ts <=> i =< left
  <2>1. rows[k].ts \in Int
    BY <1>1
  <2> QED
    BY <2>1, Bisects
<1> HIDE DEF left
<1>3. ~ (k =< left)
  BY <1>1, <1>2
<1>4. ASSUME k # left + 1 PROVE FALSE
  <2>1. left + 1 \in DOMAIN rows /\ left + 1 < k
    BY <1>1, <1>2, <1>3, <1>4
  <2>2. rows[left + 1].ts =< rows[k].ts /\ rows[left + 1].ts # rows[k].ts
    BY <1>1, <2>1
  <2>3. rows[left + 1].ts < rows[k].ts
    BY <1>1, <2>1, <2>2
  <2> QED
    BY <1>2, <2>1, <2>3
<1> QED
  BY <1>4 DEF left

\* The places of the rows of a code within the distance of a time.
NearPlaces(rows, t, c) ==
    {i \in DOMAIN rows : /\ rows[i].code = c
                         /\ t - Near =< rows[i].ts /\ rows[i].ts =< t + Near}

LEMMA NearByPlace ==
    ASSUME NEW rows \in Seq(Row), Numbered(rows), NEW t \in Nat, NEW c
    PROVE  /\ \A i : i \in NearPlaces(rows, t, c) <=> i \in Around(rows, t) /\ rows[i].code = c
           /\ IsFiniteSet(NearPlaces(rows, t, c))
           /\ Cardinality(NearPlaces(rows, t, c)) \in 0..Len(rows)
<1> DEFINE P == NearPlaces(rows, t, c)
           low == Left(Stamps(rows), t - Near)
           high == Right(Stamps(rows), t + Near)
<1>1. /\ DOMAIN rows = 1..Len(rows) /\ Len(rows) \in Nat
      /\ \A i \in DOMAIN rows : rows[i].ts \in Nat
      /\ t - Near \in Int /\ t + Near \in Int
  BY StampsInTime, WindowsAssumption
<1>2. /\ low \in 0..Len(rows) /\ high \in 0..Len(rows)
      /\ \A i \in DOMAIN rows : rows[i].ts < t - Near <=> i =< low
      /\ \A i \in DOMAIN rows : rows[i].ts =< t + Near <=> i =< high
  BY <1>1, Bisects
<1>3. Around(rows, t) = (low + 1)..high
  BY DEF Around
<1> HIDE DEF low, high
<1>4. Around(rows, t) = {i \in DOMAIN rows : t - Near =< rows[i].ts /\ rows[i].ts =< t + Near}
  <2>1. ASSUME NEW i \in DOMAIN rows
        PROVE  i \in (low + 1)..high <=> t - Near =< rows[i].ts /\ rows[i].ts =< t + Near
    <3>1. rows[i].ts < t - Near <=> ~ (t - Near =< rows[i].ts)
      BY <1>1
    <3>2. i \in (low + 1)..high <=> ~ (i =< low) /\ i =< high
      BY <1>1, <1>2
    <3> QED
      BY <1>2, <3>1, <3>2
  <2>2. (low + 1)..high \subseteq DOMAIN rows
    BY <1>1, <1>2
  <2> QED
    BY <1>3, <2>1, <2>2
<1>5. \A i : i \in P <=> i \in Around(rows, t) /\ rows[i].code = c
  BY <1>4 DEF NearPlaces
<1>6. P \in SUBSET (1..Len(rows))
  BY <1>1 DEF NearPlaces
<1> HIDE DEF P
<1>7. IsFiniteSet(P) /\ Cardinality(P) \in 0..Len(rows)
  BY <1>1, <1>6, PlacesFinite
<1> QED
  BY <1>5, <1>7 DEF P

LEMMA NearRows ==
    ASSUME NEW rows \in Seq(Row), Numbered(rows), NEW t, NEW c
    PROVE  Cardinality({x \in {rows[i] : i \in DOMAIN rows} :
                          /\ x.code = c /\ t - Near =< x.ts /\ x.ts =< t + Near})
             = Cardinality(NearPlaces(rows, t, c))
<1>1. {x \in {rows[i] : i \in DOMAIN rows} :
         /\ x.code = c /\ t - Near =< x.ts /\ x.ts =< t + Near}
        = {rows[i] : i \in NearPlaces(rows, t, c)}
  BY DEF NearPlaces
<1>2. NearPlaces(rows, t, c) \in SUBSET DOMAIN rows
  BY DEF NearPlaces
<1> QED
  BY <1>1, <1>2, RowsByPlace

\* The fault that co-occurs with the first row of a time stamp.
LEMMA CooccurrenceElsewhere ==
    ASSUME NEW rows \in Seq(Row), Numbered(rows), NEW k \in DOMAIN rows,
           \A i \in DOMAIN rows : rows[i].ts = rows[k].ts => k =< i
    PROVE  LET result == Cooccurrence(rows, rows[k].ts)
               In(c) == Cardinality(NearPlaces(rows, rows[k].ts, c))
               others == Codes \ {rows[k].code}
           IN  /\ rows[k].code \notin result.codes
               /\ \A c \in others : In(c) =< result.count
               /\ \A c \in result.codes : c # Nothing => In(c) = result.count
               /\ (Nothing \in result.codes) <=> \A c \in others : In(c) = 0
<1> DEFINE n == Len(rows)
           ref == rows[k].ts
           own == IF ref \in {rows[i].ts : i \in DOMAIN rows}
                  THEN rows[Left(Stamps(rows), ref) + 1].code ELSE Nothing
           In(c) == Cardinality(NearPlaces(rows, ref, c))
           others == {i \in Around(rows, ref) : rows[i].code # own}
           Count(c) == Cardinality({i \in others : rows[i].code = c})
           top == {c \in {rows[i].code : i \in others} : \A d \in Codes : Count(d) =< Count(c)}
           result == Cooccurrence(rows, ref)
<1>1. /\ DOMAIN rows = 1..n /\ n \in Nat /\ ref \in Nat
      /\ \A i \in DOMAIN rows : rows[i].ts \in Nat /\ rows[i].code \in Codes
  BY StampsInTime DEF Row
<1>2. own = rows[k].code
  BY FirstOfStamp
<1>3. result = IF others = {} THEN [codes |-> {Nothing}, count |-> 0]
               ELSE [codes |-> top, count |-> Count(CHOOSE c \in top : TRUE)]
  BY DEF Cooccurrence
<1> HIDE DEF own
<1>4. ASSUME NEW c
      PROVE  /\ In(c) \in 0..n /\ IsFiniteSet(NearPlaces(rows, ref, c))
             /\ \A i : i \in NearPlaces(rows, ref, c)
                        <=> i \in Around(rows, ref) /\ rows[i].code = c
  <2> HIDE DEF ref
  <2> QED
    BY <1>1, NearByPlace
<1>5. ASSUME NEW c, c # own PROVE Count(c) = In(c)
  <2>1. {i \in others : rows[i].code = c} = NearPlaces(rows, ref, c)
    BY <1>4, <1>5
  <2> QED
    BY <2>1
<1>6. Count(own) = 0
  <2>1. {i \in others : rows[i].code = own} = {}
    OBVIOUS
  <2> QED
    BY <2>1, FS_EmptySet
<1>7. ASSUME NEW i \in others
      PROVE  i \in DOMAIN rows /\ rows[i].code \in Codes \ {own} /\ In(rows[i].code) > 0
  <2>1. i \in NearPlaces(rows, ref, rows[i].code)
    BY <1>4
  <2>2. i \in DOMAIN rows
    BY <2>1 DEF NearPlaces
  <2>3. In(rows[i].code) # 0 /\ In(rows[i].code) \in Nat
    BY <1>4, <2>1, FS_EmptySet
  <2> QED
    BY <1>1, <2>2, <2>3
<1>8. ASSUME NEW c, In(c) > 0, c # own PROVE c \in {rows[i].code : i \in others}
  <2>1. NearPlaces(rows, ref, c) # {}
    <3>1. NearPlaces(rows, ref, c) = {} => In(c) = 0
      BY FS_EmptySet
    <3> QED
      BY <1>8, <3>1
  <2> QED
    BY <1>4, <1>8, <2>1
<1>9. own \in Codes /\ Nothing \notin Codes
  BY <1>1, <1>2, NothingAssumption
<1> HIDE DEF In, others, Count, result, ref
<1>10. CASE others = {}
  <2>1. result.codes = {Nothing} /\ result.count = 0
    BY <1>3, <1>10
  <2>2. ASSUME NEW c \in Codes \ {own} PROVE In(c) = 0
    BY <1>4, <1>8, <1>10
  <2> QED
    BY <1>2, <1>9, <2>1, <2>2 DEF In, result, ref
<1>11. CASE others # {}
  <2> DEFINE T == {Count(c) : c \in Codes}
  <2>1. \A c \in Codes : Count(c) \in 0..n
    <3>1. 0 \in 0..n
      BY <1>1
    <3> QED
      BY <1>4, <1>5, <1>6, <3>1
  <2>2. T \in SUBSET (0..n) /\ T # {}
    BY <1>9, <2>1
  <2>3. PICK max \in T : \A x \in T : x =< max
    <3> HIDE DEF T
    <3> QED
      BY <1>1, <2>2, LargestNat
  <2>4. PICK best \in Codes : Count(best) = max
    OBVIOUS
  <2>5. \A d \in Codes : Count(d) =< Count(best)
    BY <2>3, <2>4
  <2>6. PICK i \in others : TRUE
    BY <1>11
  <2>7. Count(best) > 0
    <3>1. Count(rows[i].code) > 0 /\ rows[i].code \in Codes
      BY <1>5, <1>7
    <3> QED
      BY <2>1, <2>5, <3>1
  <2>8. best # own /\ In(best) > 0
    <3>1. best # own
      BY <1>6, <2>7
    <3> QED
      BY <1>5, <2>7, <3>1
  <2>9. best \in top
    BY <1>8, <2>5, <2>8
  <2>10. ASSUME NEW c \in top
         PROVE  c \in Codes \ {own} /\ Count(c) = Count(best)
    <3>1. c \in Codes \ {own} /\ \A d \in Codes : Count(d) =< Count(c)
      BY <1>7
    <3> QED
      BY <2>1, <2>5, <3>1
  <2> HIDE DEF top
  <2>11. (CHOOSE c \in top : TRUE) \in top
    BY <2>9
  <2>12. result.codes = top /\ result.count = Count(best)
    BY <1>3, <1>11, <2>10, <2>11
  <2>13. \A c \in Codes \ {own} : In(c) =< result.count
    BY <1>5, <2>5, <2>12
  <2>14. \A c \in result.codes : In(c) = result.count
    BY <1>5, <2>10, <2>12
  <2>15. Nothing \notin result.codes /\ own \notin result.codes
    BY <1>9, <2>10, <2>12
  <2>16. ~ (\A c \in Codes \ {own} : In(c) = 0)
    BY <2>8
  <2> QED
    BY <1>2, <2>13, <2>14, <2>15, <2>16 DEF In, result, ref
<1> QED
  BY <1>10, <1>11

----------------------------------------------------------------------------
(* The invariant                                                            *)

\* A page is made of rows of the dataset, whichever page is asked for.
LEMMA PageOfRows ==
    ASSUME NEW rows \in Seq(Row), NEW size \in Sizes, NEW page \in 1..(Len(rows) + 1),
           NEW i \in DOMAIN GetPage(rows, page, size)
    PROVE  \E j \in DOMAIN rows : GetPage(rows, page, size)[i] = rows[j]
<1> DEFINE n == Len(rows)
           clamped == Clamp(page, TotalPages(rows, size))
           start == (clamped - 1) * size
           end == IF start + size < n THEN start + size ELSE n
<1>1. n \in Nat /\ size \in Nat \ {0} /\ DOMAIN rows = 1..n
  BY WindowsAssumption
<1>2. clamped \in Nat \ {0}
  <2>1. TotalPages(rows, size) \in Nat \ {0}
    <3>1. (n + size - 1) \div size \in Int
      BY <1>1
    <3> QED
      BY <3>1 DEF TotalPages
  <2> QED
    BY <1>1, <2>1 DEF Clamp
<1>3. GetPage(rows, page, size) = SubSeq(rows, start + 1, end)
  BY DEF GetPage
<1> HIDE DEF clamped
<1>4. start \in Nat
  BY <1>1, <1>2
<1> HIDE DEF start
<1>5. end \in Int /\ end =< n
  BY <1>1, <1>4
<1> HIDE DEF end
<1>6. /\ i \in 1..(end - start) /\ start + i \in 1..n
      /\ SubSeq(rows, start + 1, end)[i] = rows[start + i]
  BY <1>1, <1>3, <1>4, <1>5
<1> QED
  BY <1>1, <1>3, <1>6

LEMMA InitEstablishes == Init => StatInv
<1>1. 0 \in 0..MaxUploads
  BY BoundAssumption
<1>2. Init => StatTypeOK
  BY <1>1 DEF Init, StatTypeOK
<1> QED
  BY <1>2 DEF Init, StatInv, RowsNumbered, BurstOfRows, ShownStays

\* A log that is stored replaces the rows and their burst together.
LEMMA UploadKeeps ==
    ASSUME StatInv, Upload
    PROVE  StatInv'
<1>1. PICK log \in Logs : \E rows \in Normalize(log.lines) :
        dataset' = Kept(rows) /\ burst' = FaultBurst(Kept(rows))
  BY DEF Upload
<1>2. PICK rows \in Normalize(log.lines) :
        dataset' = Kept(rows) /\ burst' = FaultBurst(Kept(rows))
  BY <1>1
<1>3. dataset' \in Seq(Row) /\ Numbered(Kept(rows))
  BY <1>2, NormalizeNumbers, KeptNumbers
<1>4. burst' \in Burst /\ burst'.count =< Len(dataset')
  BY <1>2, <1>3, BurstOfDensest
<1>5. dataset' # Nothing /\ burst' # Nothing
  BY <1>3, <1>4, NothingAssumption
<1>6. StatTypeOK'
  <2>1. uploads' \in 0..MaxUploads
    BY BoundAssumption DEF Upload, StatInv, StatTypeOK
  <2>2. /\ shown' \in Row \cup {Nothing} /\ opened' \in Row \cup {Nothing}
        /\ replaced' \in BOOLEAN
    BY DEF Upload, StatInv, StatTypeOK
  <2>3. burst'.detected \in BOOLEAN /\ burst'.count \in 0..Len(dataset')
    BY <1>3, <1>4 DEF Burst
  <2> QED
    BY <1>3, <1>5, <2>1, <2>2, <2>3 DEF StatTypeOK
<1>7. RowsNumbered'
  BY <1>2, <1>3 DEF RowsNumbered, Numbered, InOrder
<1>8. BurstOfRows'
  BY <1>2 DEF BurstOfRows
<1>9. ShownStays'
  BY DEF Upload, ShownStays
<1> QED
  BY <1>6, <1>7, <1>8, <1>9 DEF StatInv

LEMMA ResetKeeps ==
    ASSUME StatInv, Reset
    PROVE  StatInv'
BY NothingAssumption
   DEF Reset, StatInv, StatTypeOK, RowsNumbered, BurstOfRows, ShownStays

\* The dataset stays as it is: so do its rows and their burst.
LEMMA SameRows ==
    ASSUME RowsNumbered, BurstOfRows, UNCHANGED <<dataset, burst>>
    PROVE  RowsNumbered' /\ BurstOfRows' /\ Rows' = Rows
<1>1. RowsNumbered'
  BY DEF RowsNumbered, Numbered, InOrder
<1>2. BurstOfRows'
  BY DEF BurstOfRows
<1>3. Rows' = Rows
  BY DEF Rows
<1> QED
  BY <1>1, <1>2, <1>3

LEMMA ShowKeeps ==
    ASSUME StatInv, Show
    PROVE  StatInv'
<1>1. dataset \in Seq(Row) /\ dataset # Nothing
  BY DEF Show, StatInv, StatTypeOK
<1>2. shown' \in Rows
  <2>1. PICK size \in Sizes, page \in 1..(Len(dataset) + 1) :
          \E i \in DOMAIN GetPage(dataset, page, size) :
              shown' = GetPage(dataset, page, size)[i]
    BY DEF Show
  <2>2. PICK j \in DOMAIN dataset : shown' = dataset[j]
    BY <1>1, <2>1, PageOfRows
  <2> QED
    BY <1>1, <2>2 DEF Rows
<1>3. shown' \in Row
  BY <1>1, <1>2 DEF Rows
<1>4. RowsNumbered' /\ BurstOfRows' /\ Rows' = Rows
  BY SameRows DEF Show, StatInv
<1>5. StatTypeOK'
  BY <1>3 DEF Show, StatInv, StatTypeOK
<1>6. ShownStays'
  BY <1>2, <1>4 DEF Show, ShownStays
<1> QED
  BY <1>4, <1>5, <1>6 DEF StatInv

\* The number of a row of the dataset is that of no other.
LEMMA OpenKeeps ==
    ASSUME StatInv, Open
    PROVE  StatInv'
<1>1. dataset \in Seq(Row) /\ dataset # Nothing /\ Numbered(dataset) /\ shown # Nothing
  BY DEF Open, StatInv, StatTypeOK, RowsNumbered
<1>2. PICK j \in DOMAIN dataset : opened' = dataset[j] /\ dataset[j].id = shown.id
  BY DEF Open, Matches
<1>3. opened' \in Row
  BY <1>1, <1>2
<1>4. RowsNumbered' /\ BurstOfRows' /\ Rows' = Rows
  BY SameRows DEF Open, StatInv
<1>5. StatTypeOK'
  BY <1>3 DEF Open, StatInv, StatTypeOK
<1>6. ~replaced => opened' = shown
  <2>1. ASSUME ~replaced PROVE opened' = shown
    <3>1. PICK k \in DOMAIN dataset : shown = dataset[k]
      BY <1>1, <2>1 DEF StatInv, ShownStays, Rows
    <3>2. j - 1 = k - 1 /\ j \in Int /\ k \in Int
      BY <1>1, <1>2, <3>1 DEF Numbered
    <3>3. j = k
      BY <3>2
    <3> QED
      BY <1>2, <3>1, <3>3
  <2> QED
    BY <2>1
<1>7. ShownStays'
  BY <1>4, <1>6 DEF Open, StatInv, ShownStays
<1> QED
  BY <1>4, <1>5, <1>7 DEF StatInv

\* The invariant of the statistics: the dataset is a log in order, with the burst
\* that belongs to it, and what is shown and opened are rows of it until it is
\* replaced.
THEOREM StatisticsInvariant == Spec => []StatInv
<1>1. ASSUME StatInv, [Next]_vars PROVE StatInv'
  <2>1. CASE Upload
    BY <1>1, <2>1, UploadKeeps
  <2>2. CASE Reset
    BY <1>1, <2>2, ResetKeeps
  <2>3. CASE Show
    BY <1>1, <2>3, ShowKeeps
  <2>4. CASE Open
    BY <1>1, <2>4, OpenKeeps
  <2>5. CASE UNCHANGED vars
    <3>1. RowsNumbered' /\ BurstOfRows' /\ Rows' = Rows
      BY <1>1, <2>5, SameRows DEF StatInv, vars
    <3> QED
      BY <1>1, <2>5, <3>1 DEF StatInv, StatTypeOK, ShownStays, vars
  <2> QED
    BY <1>1, <2>1, <2>2, <2>3, <2>4, <2>5 DEF Next
<1> QED
  BY InitEstablishes, <1>1, PTL DEF Spec

\* In a state of the invariant every property of the rows holds.
LEMMA WhatIsShown ==
    ASSUME StatInv
    PROVE  /\ StatTypeOK
           /\ CountsOthers
           /\ BurstIsDensest
           /\ CooccursElsewhere
           /\ VerdictsAgree
           /\ OpenedIsShown
<1>1. CASE dataset = Nothing
  <2>1. Rows = {}
    BY <1>1 DEF Rows
  <2> QED
    BY <1>1, <2>1 DEF StatInv, CountsOthers, BurstIsDensest, CooccursElsewhere,
                      VerdictsAgree, OpenedIsShown, ShownStays
<1>2. CASE dataset # Nothing
  <2>1. /\ dataset \in Seq(Row) /\ Numbered(dataset) /\ burst = FaultBurst(dataset)
        /\ Rows = {dataset[i] : i \in DOMAIN dataset}
    BY <1>2 DEF StatInv, StatTypeOK, RowsNumbered, BurstOfRows, Rows
  <2>2. CountsOthers
    <3>1. HalfHour \in Nat /\ Hour \in Nat /\ Day \in Nat
      BY WindowsAssumption
    <3> QED
      BY <2>1, <3>1, OthersCounted DEF CountsOthers
  <2>3. BurstIsDensest
    BY <2>1, BurstOfDensest DEF BurstIsDensest
  <2>4. CooccursElsewhere
    <3>1. ASSUME NEW r \in Rows, \A x \in Rows : x.ts = r.ts => r.id =< x.id
          PROVE  LET result == Cooccurrence(dataset, r.ts)
                     In(c) == Cardinality({x \in Rows : /\ x.code = c
                                                        /\ r.ts - Near =< x.ts /\ x.ts =< r.ts + Near})
                     others == Codes \ {r.code}
                 IN  /\ r.code \notin result.codes
                     /\ \A c \in others : In(c) =< result.count
                     /\ \A c \in result.codes : c # Nothing => In(c) = result.count
                     /\ (Nothing \in result.codes) <=> \A c \in others : In(c) = 0
      <4>1. PICK k \in DOMAIN dataset : r = dataset[k]
        BY <2>1
      <4>2. ASSUME NEW i \in DOMAIN dataset, dataset[i].ts = dataset[k].ts PROVE k =< i
        <5>1. k - 1 =< i - 1 /\ i \in Int /\ k \in Int
          BY <2>1, <3>1, <4>1, <4>2 DEF Numbered
        <5> QED
          BY <5>1
      <4>3. ASSUME NEW c
            PROVE  Cardinality({x \in Rows : /\ x.code = c
                                             /\ r.ts - Near =< x.ts /\ x.ts =< r.ts + Near})
                     = Cardinality(NearPlaces(dataset, dataset[k].ts, c))
        BY <2>1, <4>1, NearRows
      <4> DEFINE result == Cooccurrence(dataset, dataset[k].ts)
                 In(c) == Cardinality({x \in Rows :
                              /\ x.code = c
                              /\ dataset[k].ts - Near =< x.ts /\ x.ts =< dataset[k].ts + Near})
                 own == dataset[k].code
      <4>4. /\ own \notin result.codes
            /\ \A c \in Codes \ {own} : Cardinality(NearPlaces(dataset, dataset[k].ts, c)) =< result.count
            /\ \A c \in result.codes : c # Nothing =>
                 Cardinality(NearPlaces(dataset, dataset[k].ts, c)) = result.count
            /\ (Nothing \in result.codes) <=>
                 \A c \in Codes \ {own} : Cardinality(NearPlaces(dataset, dataset[k].ts, c)) = 0
        BY <2>1, <4>2, CooccurrenceElsewhere
      <4>5. \A c : In(c) = Cardinality(NearPlaces(dataset, dataset[k].ts, c))
        BY <4>1, <4>3
      <4> HIDE DEF In, result, own
      <4>6. /\ own \notin result.codes
            /\ \A c \in Codes \ {own} : In(c) =< result.count
            /\ \A c \in result.codes : c # Nothing => In(c) = result.count
            /\ (Nothing \in result.codes) <=> \A c \in Codes \ {own} : In(c) = 0
        BY <4>4, <4>5
      <4> QED
        BY <4>1, <4>6 DEF In, result, own
    <3> QED
      BY <3>1 DEF CooccursElsewhere
  <2>5. VerdictsAgree
    <3>1. burst.detected \in BOOLEAN
      BY <2>1, BurstOfDensest DEF Burst
    <3> QED
      BY <2>1, <3>1, VerdictOfCounts DEF VerdictsAgree
  <2>6. OpenedIsShown
    BY DEF StatInv, StatTypeOK, ShownStays, OpenedIsShown
  <2> QED
    BY <2>2, <2>3, <2>4, <2>5, <2>6 DEF StatInv
<1> QED
  BY <1>1, <1>2

\* The dataset is a log that was stored, with its burst, or there is neither; the row
\* shown and the row opened are rows.
THEOREM StatisticsTyped == Spec => []StatTypeOK
BY StatisticsInvariant, WhatIsShown, PTL

\* What OccurrencesInWindow finds by bisection is the number of the other rows with
\* the code within the window, those that share the time stamp included.
THEOREM OthersAlwaysCounted == Spec => []CountsOthers
BY StatisticsInvariant, WhatIsShown, PTL

\* The burst count of the sliding window is that of the densest window there is.
THEOREM BurstAlwaysDensest == Spec => []BurstIsDensest
BY StatisticsInvariant, WhatIsShown, PTL

\* The co-occurring fault of the first row of a time stamp is another fault, and the
\* most frequent within the distance.
THEOREM CooccurrenceAlwaysElsewhere == Spec => []CooccursElsewhere
BY StatisticsInvariant, WhatIsShown, PTL

\* Confidence, trend, score and integrity agree with the counts they are made from.
THEOREM VerdictsAlwaysAgree == Spec => []VerdictsAgree
BY StatisticsInvariant, WhatIsShown, PTL

\* The row opened by its number is the row that was shown, until the dataset is
\* replaced or cleared.
THEOREM OpenedIsAlwaysShown == Spec => []OpenedIsShown
BY StatisticsInvariant, WhatIsShown, PTL
=============================================================================
