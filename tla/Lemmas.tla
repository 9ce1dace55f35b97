------------------------------- MODULE Lemmas -------------------------------
(***************************************************************************)
(* Facts that the proofs of several components rest on: least and greatest *)
(* elements of sets of natural numbers, ranks (the rank of w in S is the   *)
(* number of elements of S below it), listing a set in ascending order,    *)
(* and the split of the layers.                                            *)
(***************************************************************************)
EXTENDS Layers, FiniteSets, FiniteSetTheorems, WellFoundedInduction, TLAPS

Under(S, w) == {v \in S : v < w}
Over(S, w) == {v \in S : v > w}
Rank(S, w) == Cardinality(Under(S, w))

\* A nonempty set of naturals has a least element.
LEMMA LeastNatural ==
  ASSUME NEW S \in SUBSET Nat, S # {}
  PROVE  \E i \in S : \A j \in S : i <= j
  <1> DEFINE R == OpToRel(<, Nat)
  <1>1. \A i, j \in Nat : j < i => <<j, i>> \in R
    BY Zenon DEF OpToRel
  <1>2. PICK i \in S : \A j \in S : ~(<<j, i>> \in R)
    BY NatLessThanWellFounded, WFMin, Zenon
  <1> HIDE DEF R
  <1>3. \A j \in S : ~(j < i)
    BY <1>1, <1>2, Zenon
  <1> QED
    BY <1>3

\* A nonempty set of naturals with a bound has a greatest element.
LEMMA GreatestNatural ==
  ASSUME NEW S \in SUBSET Nat, S # {}, NEW b \in Nat, \A i \in S : i <= b
  PROVE  \E i \in S : \A j \in S : j <= i
  <1> DEFINE T == {b - i : i \in S}
  <1>0. \A i \in S : b - i \in Nat
    OBVIOUS
  <1>1. T \in SUBSET Nat /\ T # {}
    BY <1>0, Zenon
  <1>2. PICK n \in T : \A k \in T : n <= k
    BY <1>1, LeastNatural, Zenon
  <1>3. PICK i \in S : n = b - i
    BY <1>2
  <1>4. \A j \in S : b - i <= b - j
    BY <1>2, <1>3, Zenon
  <1> QED
    BY <1>4

\* Ranks are natural numbers below the size of the set.
LEMMA RankBound ==
  ASSUME NEW S \in SUBSET Nat, IsFiniteSet(S), NEW w \in S
  PROVE  Rank(S, w) \in Nat /\ Rank(S, w) < Cardinality(S)
  <1>1. Under(S, w) \subseteq S /\ w \notin Under(S, w)
    BY DEF Under
  <1>2. /\ IsFiniteSet(Under(S, w)) /\ Cardinality(Under(S, w)) <= Cardinality(S)
        /\ Cardinality(S) = Cardinality(Under(S, w)) => S = Under(S, w)
    BY <1>1, FS_Subset
  <1>3. Cardinality(S) \in Nat /\ Cardinality(Under(S, w)) \in Nat
    BY <1>2, FS_CardinalityType
  <1> QED
    BY <1>1, <1>2, <1>3 DEF Rank

\* The next element above w has the next rank.
LEMMA RankNext ==
  ASSUME NEW S \in SUBSET Nat, IsFiniteSet(S), NEW w \in S, NEW v \in Over(S, w),
         \A u \in Over(S, w) : v <= u
  PROVE  Rank(S, v) = Rank(S, w) + 1
  <1>0. /\ \A u \in S : u \in Nat
        /\ \A u \in S : u > w => v <= u
        /\ v \in S /\ v > w
    BY DEF Over
  <1>1. Under(S, v) = Under(S, w) \cup {w} /\ w \notin Under(S, w)
    <2>1. ~(w < w) /\ \A u \in S : u < v <=> (u < w \/ u = w)
      BY <1>0
    <2>2. \A u : u \in Under(S, v) <=> u \in Under(S, w) \cup {w}
      BY <2>1, Zenon DEF Under
    <2> QED
      BY <2>1, <2>2, Zenon DEF Under
  <1>2. IsFiniteSet(Under(S, w))
    BY FS_Subset DEF Under
  <1> QED
    BY <1>1, <1>2, FS_AddElement, Zenon DEF Rank

\* An element is below another one exactly if its rank is.
LEMMA RankMonotone ==
  ASSUME NEW S \in SUBSET Nat, IsFiniteSet(S), NEW w \in S, NEW v \in S, w < v
  PROVE  Rank(S, w) < Rank(S, v)
  <1> DEFINE U == Under(S, v)
  <1>1. U \subseteq S /\ IsFiniteSet(U) /\ w \in U /\ U \subseteq Nat
    BY FS_Subset, Zenon DEF Under
  <1>2. Under(U, w) = Under(S, w)
    <2>1. \A u \in S : u < w => u < v
      BY <1>1
    <2> QED
      BY <2>1, Zenon DEF Under
  <1>3. Rank(U, w) < Cardinality(U)
    BY <1>1, RankBound
  <1> QED
    BY <1>2, <1>3 DEF Rank

\* No two elements have the same rank.
LEMMA RankInjective ==
  ASSUME NEW S \in SUBSET Nat, IsFiniteSet(S), NEW w \in S, NEW v \in S, Rank(S, w) = Rank(S, v)
  PROVE  w = v
  <1>1. Rank(S, w) \in Nat /\ Rank(S, v) \in Nat
    BY RankBound
  <1>2. ~(w < v) /\ ~(v < w)
    BY <1>1, RankMonotone
  <1> QED
    BY <1>2

\* The last rank is that of the element with none above it.
LEMMA RankLast ==
  ASSUME NEW S \in SUBSET Nat, IsFiniteSet(S), NEW w \in S
  PROVE  Rank(S, w) + 1 = Cardinality(S) <=> Over(S, w) = {}
  <1>1. ASSUME Over(S, w) = {} PROVE Rank(S, w) + 1 = Cardinality(S)
    <2>0. \A u \in S : ~(u > w) /\ u \in Nat
      BY <1>1 DEF Over
    <2>a. ~(w < w) /\ \A u \in S : u < w \/ u = w
      BY <2>0
    <2>b. \A u : u \in S <=> u \in Under(S, w) \cup {w}
      BY <2>a, Zenon DEF Under
    <2>1. S = Under(S, w) \cup {w} /\ w \notin Under(S, w)
      BY <2>a, <2>b, Zenon DEF Under
    <2>2. IsFiniteSet(Under(S, w))
      BY FS_Subset DEF Under
    <2> QED
      BY <2>1, <2>2, FS_AddElement DEF Rank
  <1>2. ASSUME NEW v \in Over(S, w) PROVE Rank(S, w) + 1 # Cardinality(S)
    <2>1. v \in S /\ w < v
      BY <1>2 DEF Over
    <2>2. Rank(S, w) < Rank(S, v) /\ Rank(S, v) < Cardinality(S) /\ Rank(S, w) \in Nat /\ Rank(S, v) \in Nat
      BY <2>1, RankBound, RankMonotone
    <2>3. Cardinality(S) \in Nat
      BY FS_CardinalityType
    <2> QED
      BY <2>2, <2>3
  <1> QED
    BY <1>1, <1>2

\* Every rank below the size of the set is taken.
LEMMA RankTaken ==
  ASSUME NEW S \in SUBSET Nat, IsFiniteSet(S), NEW k \in Nat, k < Cardinality(S)
  PROVE  \E w \in S : Rank(S, w) = k
  <1> DEFINE Free == {n \in Nat : n < Cardinality(S) /\ \A w \in S : Rank(S, w) # n}
  <1>1. Cardinality(S) \in Nat
    BY FS_CardinalityType
  <1>2. SUFFICES Free = {}
    BY <1>1
  <1>3. SUFFICES ASSUME NEW n \in Free, \A i \in Free : n <= i
                 PROVE  FALSE
    BY LeastNatural, Zenon
  <1>4. S # {}
    <2>1. n < Cardinality(S) /\ n \in Nat
      BY <1>3
    <2> QED
      BY <1>1, <2>1, FS_EmptySet
  <1>5. CASE n = 0
    <2>1. PICK w \in S : \A j \in S : w <= j
      BY <1>4, LeastNatural
    <2>a. \A j \in S : ~(j < w)
      BY <2>1
    <2>2. Under(S, w) = {}
      BY <2>a, Zenon DEF Under
    <2> QED
      BY <1>3, <1>5, <2>2, FS_EmptySet DEF Rank
  <1>6. CASE n # 0
    <2>1. n - 1 \in Nat /\ n - 1 < Cardinality(S) /\ n - 1 \notin Free
      BY <1>1, <1>3, <1>6
    <2>2. PICK w \in S : Rank(S, w) = n - 1
      BY <2>1
    <2>3. Over(S, w) # {}
      BY <1>1, <1>3, <2>2, RankLast
    <2>a. Over(S, w) \in SUBSET Nat
      BY Zenon DEF Over
    <2>4. PICK v \in Over(S, w) : \A u \in Over(S, w) : v <= u
      BY <2>3, <2>a, LeastNatural
    <2>b. Rank(S, v) = Rank(S, w) + 1 /\ v \in S
      BY <2>4, RankNext DEF Over
    <2>5. Rank(S, v) = n /\ v \in S
      BY <2>1, <2>2, <2>b
    <2> QED
      BY <1>3, <2>5
  <1> QED
    BY <1>5, <1>6

\* The elements of S in ascending order.
Ascending(S) == [i \in 1 .. Cardinality(S) |-> CHOOSE w \in S : Rank(S, w) = i - 1]

\* Ascending lists every element at the place its rank gives it, each followed by
\* the next one above it.
LEMMA AscendingOrder ==
  ASSUME NEW S \in SUBSET Nat, IsFiniteSet(S)
  PROVE  /\ Cardinality(S) \in Nat
         /\ Ascending(S) \in [1 .. Cardinality(S) -> S]
         /\ \A i \in 1 .. Cardinality(S) : Rank(S, Ascending(S)[i]) = i - 1
         /\ \A w \in S : Rank(S, w) + 1 \in 1 .. Cardinality(S) /\ Ascending(S)[Rank(S, w) + 1] = w
  <1> DEFINE n == Cardinality(S)
             Nth(i) == CHOOSE w \in S : Rank(S, w) = i - 1
  <1>1. n \in Nat
    BY FS_CardinalityType
  <1>2. \A i \in 1 .. n : Nth(i) \in S /\ Rank(S, Nth(i)) = i - 1
    <2> SUFFICES ASSUME NEW i \in 1 .. n
                 PROVE  \E w \in S : Rank(S, w) = i - 1
      OBVIOUS
    <2>1. i - 1 \in Nat /\ i - 1 < n
      BY <1>1
    <2> HIDE DEF n
    <2> QED
      BY <2>1, RankTaken DEF n
  <1>3. Ascending(S) = [i \in 1 .. n |-> Nth(i)]
    BY DEF Ascending
  <1> HIDE DEF Nth, n
  <1>4. Ascending(S) \in [1 .. n -> S] /\ \A i \in 1 .. n : Rank(S, Ascending(S)[i]) = i - 1
    BY <1>2, <1>3
  <1>5. ASSUME NEW w \in S
        PROVE  Rank(S, w) + 1 \in 1 .. n /\ Ascending(S)[Rank(S, w) + 1] = w
    <2>1. Rank(S, w) \in Nat /\ Rank(S, w) < n
      BY RankBound DEF n
    <2> DEFINE i == Rank(S, w) + 1
               v == Ascending(S)[i]
    <2>2. i \in 1 .. n /\ i - 1 = Rank(S, w)
      BY <1>1, <2>1
    <2> HIDE DEF i
    <2>3. v \in S /\ Rank(S, v) = i - 1
      BY <1>4, <2>2
    <2> HIDE DEF v
    <2>4. v = w
      BY <2>2, <2>3, RankInjective
    <2> QED
      BY <2>2, <2>4 DEF i, v
  <1> QED
    BY <1>1, <1>4, <1>5 DEF n

\* Neighbours in the list: nothing of S lies between them.
LEMMA AscendingNext ==
  ASSUME NEW S \in SUBSET Nat, IsFiniteSet(S), NEW i \in 1 .. Cardinality(S)
  PROVE  /\ i = Cardinality(S) <=> Over(S, Ascending(S)[i]) = {}
         /\ i < Cardinality(S) =>
              /\ Ascending(S)[i + 1] \in Over(S, Ascending(S)[i])
              /\ \A v \in Over(S, Ascending(S)[i]) : Ascending(S)[i + 1] <= v
  <1> DEFINE w == Ascending(S)[i]
             n == Cardinality(S)
  <1>1. n \in Nat /\ w \in S /\ Rank(S, w) = i - 1
    BY AscendingOrder
  <1> HIDE DEF w
  <1>2. i = n <=> Over(S, w) = {}
    BY <1>1, RankLast
  <1>3. ASSUME i < n
        PROVE  /\ Ascending(S)[i + 1] \in Over(S, w)
               /\ \A v \in Over(S, w) : Ascending(S)[i + 1] <= v
    <2>0. i # n
      BY <1>1, <1>3
    <2>1. Over(S, w) # {} /\ Over(S, w) \in SUBSET Nat
      BY <1>2, <2>0, Zenon DEF Over
    <2>2. PICK v \in Over(S, w) : \A u \in Over(S, w) : v <= u
      BY <2>1, LeastNatural
    <2>3. v \in S /\ Rank(S, v) = Rank(S, w) + 1
      BY <1>1, <2>2, RankNext DEF Over
    <2>4. Rank(S, v) + 1 = i + 1
      BY <1>1, <2>3
    <2>5. Ascending(S)[i + 1] = v
      BY <2>3, <2>4, AscendingOrder
    <2> QED
      BY <2>2, <2>5
  <1> QED
    BY <1>2, <1>3 DEF w

LEMMA AscendingPrevious ==
  ASSUME NEW S \in SUBSET Nat, IsFiniteSet(S), NEW i \in 1 .. Cardinality(S)
  PROVE  /\ i = 1 <=> Under(S, Ascending(S)[i]) = {}
         /\ i > 1 =>
              /\ Ascending(S)[i - 1] \in Under(S, Ascending(S)[i])
              /\ \A v \in Under(S, Ascending(S)[i]) : v <= Ascending(S)[i - 1]
  <1> DEFINE w == Ascending(S)[i]
             n == Cardinality(S)
  <1>1. n \in Nat /\ w \in S /\ Rank(S, w) = i - 1
    BY AscendingOrder
  <1> HIDE DEF w
  <1>2. i = 1 <=> Under(S, w) = {}
    <2>1. IsFiniteSet(Under(S, w))
      BY FS_Subset DEF Under
    <2>2. Rank(S, w) = 0 <=> Under(S, w) = {}
      BY <2>1, FS_EmptySet DEF Rank
    <2> QED
      BY <1>1, <2>2
  <1>3. ASSUME i > 1
        PROVE  /\ Ascending(S)[i - 1] \in Under(S, w)
               /\ \A v \in Under(S, w) : v <= Ascending(S)[i - 1]
    <2> DEFINE u == Ascending(S)[i - 1]
    <2>1. i - 1 \in 1 .. n /\ i - 1 < n /\ i - 1 + 1 = i
      BY <1>1, <1>3
    <2>2. u \in S /\ w \in Over(S, u) /\ \A v \in Over(S, u) : w <= v
      BY <2>1, AscendingOrder, AscendingNext DEF w
    <2> HIDE DEF u
    <2>3. u < w /\ \A v \in S : v > u => w <= v
      BY <2>2 DEF Over
    <2>4. \A v \in S : v < w => v <= u
      BY <1>1, <2>2, <2>3
    <2>5. u \in Under(S, w) /\ \A v \in Under(S, w) : v <= u
      BY <2>2, <2>3, <2>4 DEF Under
    <2> QED
      BY <2>5 DEF u
  <1> QED
    BY <1>2, <1>3 DEF w
-----------------------------------------------------------------------------
(* The split of the layers.                                                *)

\* What division with remainder gives, for the per and rem of the split.
LEMMA Division ==
  ASSUME NEW l \in Nat, NEW m \in Nat \ {0}
  PROVE  /\ l \div m \in Nat
         /\ l % m \in 0 .. m - 1
         /\ l = m * (l \div m) + (l % m)
  OBVIOUS

\* A worker's range is made of natural numbers.
LEMMA SplitType ==
  ASSUME NEW l \in Nat, NEW m \in Nat \ {0}, NEW i \in Nat
  PROVE  Start(l, m, i) \in Nat /\ Count(l, m, i) \in Nat
  <1> DEFINE per == l \div m
             rem == l % m
  <1>1. per \in Nat /\ rem \in Nat
    BY Division
  <1>2. i * per \in Nat
    BY <1>1
  <1> QED
    BY <1>1, <1>2 DEF Start, Count

\* Worker i's range ends where worker i + 1's begins.
LEMMA SplitContiguous ==
  ASSUME NEW l \in Nat, NEW m \in Nat \ {0}, NEW i \in Nat
  PROVE  Start(l, m, i + 1) = Start(l, m, i) + Count(l, m, i)
  <1> DEFINE per == l \div m
             rem == l % m
  <1>1. per \in Nat /\ rem \in Nat
    BY Division
  <1>2. (i + 1) * per = i * per + per /\ i * per \in Nat
    BY <1>1
  <1> HIDE DEF per, rem
  <1>3. Start(l, m, i + 1) = (i + 1) * per + (IF i + 1 < rem THEN i + 1 ELSE rem)
    BY DEF Start, per, rem
  <1>4. Start(l, m, i) = i * per + (IF i < rem THEN i ELSE rem)
    BY DEF Start, per, rem
  <1>5. Count(l, m, i) = per + (IF i < rem THEN 1 ELSE 0)
    BY DEF Count, per, rem
  <1> QED
    BY <1>1, <1>2, <1>3, <1>4, <1>5

\* The first range starts at layer 0 and the last one ends at the model's end.
LEMMA SplitEnds ==
  ASSUME NEW l \in Nat, NEW m \in Nat \ {0}
  PROVE  Start(l, m, 0) = 0 /\ Start(l, m, m) = l
  <1> DEFINE per == l \div m
             rem == l % m
  <1>1. per \in Nat /\ rem \in 0 .. m - 1 /\ l = m * per + rem
    BY Division, Zenon
  <1>2. 0 * per = 0 /\ m * per \in Nat
    BY <1>1
  <1>3. Start(l, m, 0) = 0 * per + (IF 0 < rem THEN 0 ELSE rem)
    BY DEF Start
  <1>4. Start(l, m, m) = m * per + (IF m < rem THEN m ELSE rem)
    BY DEF Start
  <1> HIDE DEF per, rem
  <1> QED
    BY <1>1, <1>2, <1>3, <1>4

\* No worker's range is empty when there is a layer for each.
LEMMA SplitNonEmpty ==
  ASSUME NEW l \in Nat, NEW m \in Nat \ {0}, l >= m, NEW i \in Nat
  PROVE  Count(l, m, i) >= 1
  <1>1. l \div m >= 1
    <2>1. l \div m \in Nat /\ l % m \in 0 .. m - 1 /\ l = m * (l \div m) + (l % m)
      BY Division, Zenon
    <2>2. CASE l \div m = 0
      <3>1. m * (l \div m) = 0
        BY <2>2
      <3> QED
        BY <2>1, <3>1
    <2> QED
      BY <2>1, <2>2
  <1> QED
    BY <1>1, Division DEF Count

\* A worker's range ends before that of any later worker begins.
LEMMA SplitMonotone ==
  ASSUME NEW l \in Nat, NEW m \in Nat \ {0}, NEW i \in Nat, NEW j \in Nat, i <= j
  PROVE  Start(l, m, i) <= Start(l, m, j)
  <1> DEFINE per == l \div m
             rem == l % m
  <1>1. per \in Nat /\ rem \in Nat
    BY Division
  <1>2. Start(l, m, j) = j * per + (IF j < rem THEN j ELSE rem)
    BY DEF Start
  <1>3. Start(l, m, i) = i * per + (IF i < rem THEN i ELSE rem)
    BY DEF Start
  <1> HIDE DEF per, rem
  <1>4. /\ j * per = i * per + (j - i) * per
        /\ (j - i) * per \in Nat
        /\ i * per \in Nat
        /\ j * per \in Nat
    BY <1>1
  <1> QED
    BY <1>1, <1>2, <1>3, <1>4

\* Dividing by a positive number, in the form the next lemma needs.
LEMMA Quotient ==
  ASSUME NEW a \in Nat, NEW d \in Nat \ {0}
  PROVE  \E q \in Nat : q * d <= a /\ a < (q + 1) * d
  <1>1. a \div d \in Nat /\ a % d \in 0 .. d - 1 /\ a = d * (a \div d) + (a % d)
    BY Division, Zenon
  <1>2. (a \div d) * d = d * (a \div d) /\ (a \div d + 1) * d = d * (a \div d) + d
    BY <1>1
  <1>3. (a \div d) * d <= a /\ a < (a \div d + 1) * d
    BY <1>1, <1>2
  <1> QED
    BY <1>1, <1>3, Zenon

\* Every layer lies in some worker's range: among the first rem workers the
\* ranges have per + 1 layers, behind them per.
LEMMA SplitOwner ==
  ASSUME NEW l \in Nat, NEW m \in Nat \ {0}, l >= m, NEW x \in 0 .. l - 1
  PROVE  \E i \in 0 .. m - 1 : Start(l, m, i) <= x /\ x < Start(l, m, i + 1)
  <1> DEFINE per == l \div m
             rem == l % m
  <1>1. per \in Nat /\ rem \in 0 .. m - 1 /\ l = m * per + rem
    BY Division, Zenon
  <1>2. per >= 1
    <2>1. Count(l, m, m) >= 1
      BY SplitNonEmpty
    <2> QED
      BY <2>1, <1>1 DEF Count
  <1>3. ASSUME NEW i \in Nat
        PROVE  Start(l, m, i) = i * per + (IF i < rem THEN i ELSE rem)
    BY DEF Start
  <1> HIDE DEF per, rem
  <1>4. CASE x < rem * (per + 1)
    <2>0. x \in Nat /\ per + 1 \in Nat \ {0}
      BY <1>1
    <2>1. PICK q \in Nat : q * (per + 1) <= x /\ x < (q + 1) * (per + 1)
      BY <2>0, Quotient, Zenon
    <2>2. q < rem
      <3>1. CASE q >= rem
        <4>1. q * (per + 1) = rem * (per + 1) + (q - rem) * (per + 1)
          BY <1>1, <3>1
        <4>2. (q - rem) * (per + 1) \in Nat /\ rem * (per + 1) \in Nat
          BY <1>1, <3>1
        <4> QED
          BY <4>1, <4>2, <2>1, <1>4
      <3> QED
        BY <3>1, <1>1
    <2>3. q * (per + 1) = q * per + q /\ (q + 1) * (per + 1) = (q + 1) * per + (q + 1)
      BY <1>1
    <2>4. q * per \in Nat /\ (q + 1) * per \in Nat
      BY <1>1
    <2>5. Start(l, m, q) <= x
      BY <1>1, <1>3, <2>1, <2>2, <2>3, <2>4
    <2>6. x < Start(l, m, q + 1)
      <3>1. Start(l, m, q + 1) = (q + 1) * per + (q + 1)
        BY <1>1, <1>3, <2>2, <2>4
      <3> QED
        BY <3>1, <2>1, <2>3
    <2> QED
      BY <2>2, <2>5, <2>6, <1>1
  <1>5. CASE x >= rem * (per + 1)
    <2> DEFINE y == x - rem * (per + 1)
    <2>1. y \in Nat /\ rem * (per + 1) \in Nat
      BY <1>1, <1>5
    <2> HIDE DEF y
    <2>a. per \in Nat \ {0}
      BY <1>1, <1>2
    <2>2. PICK q \in Nat : q * per <= y /\ y < (q + 1) * per
      BY <2>1, <2>a, Quotient, Zenon
    <2>3. rem * (per + 1) = rem * per + rem /\ rem * per \in Nat
      BY <1>1
    <2>4. /\ (rem + q) * per = rem * per + q * per
          /\ (rem + q + 1) * per = rem * per + (q + 1) * per
          /\ q * per \in Nat /\ (q + 1) * per \in Nat
      BY <1>1
    <2>5. x = rem * per + rem + y
      BY <2>1, <2>3, <1>1 DEF y
    <2>b. /\ rem + q \in Nat /\ ~(rem + q < rem)
          /\ rem + q + 1 \in Nat /\ ~(rem + q + 1 < rem)
      <3>1. rem \in Nat
        BY <1>1
      <3> QED
        BY <3>1
    <2>6. Start(l, m, rem + q) = (rem + q) * per + rem
      BY <2>b, <1>3, Zenon
    <2>7. Start(l, m, rem + q + 1) = (rem + q + 1) * per + rem
      BY <2>b, <1>3, Zenon
    <2>8. Start(l, m, rem + q) <= x /\ x < Start(l, m, rem + q + 1)
      BY <1>1, <2>1, <2>2, <2>3, <2>4, <2>5, <2>6, <2>7
    <2>9. rem + q < m
      <3>1. CASE rem + q >= m
        <4>1. Start(l, m, m) <= Start(l, m, rem + q)
          BY <1>1, <3>1, SplitMonotone
        <4>2. Start(l, m, m) = l
          BY SplitEnds
        <4>3. Start(l, m, rem + q) \in Nat
          BY <1>1, SplitType
        <4> QED
          BY <4>1, <4>2, <4>3, <2>8
      <3> QED
        BY <3>1, <1>1
    <2> QED
      BY <2>8, <2>9, <1>1
  <1> QED
    BY <1>4, <1>5, <1>1
=============================================================================
