--------------------------- MODULE ReadModelsProofs ---------------------------
(***************************************************************************)
(* Proofs about the read models.  The loops of the code are recursive      *)
(* functions here, and what they compute is proved from their equations by *)
(* the least counterexample: a set of naturals that is not empty has a     *)
(* least element.                                                          *)
(***************************************************************************)
EXTENDS ReadModels, TLAPS, FiniteSetTheorems, WellFoundedInduction

\* Nat is well-founded: the least counterexample of every fold below.
LEMMA LeastNat ==
  ASSUME NEW B \in SUBSET Nat, B # {}
  PROVE  \E n \in B : \A k \in B : n <= k
<1>1. PICK n \in B : \A k \in Nat : <<k, n>> \in OpToRel(<, Nat) => k \notin B
  BY WFMin, NatLessThanWellFounded, Zenon
<1>2. \A k \in B : ~ (k < n)
  BY <1>1, Zenon DEF OpToRel
<1> QED
  BY <1>2

-------------------------------------------------------------------------------
\* R is a strict total order on S.
StrictOrder(R, S) ==
  /\ \A x \in S : <<x, x>> \notin R
  /\ \A x, y, z \in S : <<x, y>> \in R /\ <<y, z>> \in R => <<x, z>> \in R
  /\ \A x, y \in S : x = y \/ <<x, y>> \in R \/ <<y, x>> \in R

\* A finite set has a last element by any strict order.
LEMMA OrderHasLast ==
  ASSUME NEW S, NEW R, IsFiniteSet(S), S # {}, StrictOrder(R, S)
  PROVE  \E x \in S : \A y \in S : x = y \/ <<y, x>> \in R
<1> DEFINE Has(T) == \E x \in T : \A y \in T : x = y \/ <<y, x>> \in R
           Bad == {n \in Nat : \E T \in SUBSET S : T # {} /\ Cardinality(T) = n /\ ~ Has(T)}
<1>1. Bad = {}
  <2> SUFFICES ASSUME Bad # {} PROVE FALSE
    OBVIOUS
  <2>1. PICK n \in Bad : \A k \in Bad : n <= k
    BY LeastNat
  <2>2. PICK T \in SUBSET S : T # {} /\ Cardinality(T) = n /\ ~ Has(T)
    BY <2>1
  <2>3. PICK x \in T : TRUE
    BY <2>2
  <2> DEFINE U == T \ {x}
  <2>4. IsFiniteSet(T) /\ IsFiniteSet(U) /\ Cardinality(U) = n - 1 /\ Cardinality(U) \in Nat
    BY <2>2, FS_Subset, FS_RemoveElement, FS_CardinalityType
  <2>5. U # {}
    BY <2>2, <2>3
  <2>6. Has(U)
    <3>1. ~ (n <= n - 1)
      BY <2>1
    <3>2. n - 1 \notin Bad
      <4> HIDE DEF Bad
      <4> QED BY <2>1, <3>1
    <3> QED BY <3>2, <2>4, <2>5
  <2>7. PICK y \in U : \A z \in U : y = z \/ <<z, y>> \in R
    BY <2>6
  <2>8. Has(T)
    <3>1. CASE <<x, y>> \in R
      <4>1. \A z \in T : y = z \/ <<z, y>> \in R
        BY <3>1, <2>7
      <4> QED BY <4>1
    <3>2. CASE <<y, x>> \in R
      <4>1. \A z \in T : x = z \/ <<z, x>> \in R
        BY <3>2, <2>7, <2>3 DEF StrictOrder
      <4> QED BY <4>1, <2>3
    <3> QED BY <3>1, <3>2, <2>3, <2>7 DEF StrictOrder
  <2> QED BY <2>8, <2>2
<1>2. Cardinality(S) \notin Bad /\ Cardinality(S) \in Nat
  BY <1>1, FS_CardinalityType
<1> QED BY <1>2

Ordered(S) ==
  /\ IsFiniteSet(S)
  /\ \A e \in S : e.id \in Int /\ e.time \in Int
  /\ \A e, f \in S : e.id = f.id => e = f

LEMMA OrderedSubset ==
  ASSUME NEW S, Ordered(S), NEW T \in SUBSET S
  PROVE  Ordered(T)
BY FS_Subset DEF Ordered

\* So the loop always has a last event to read, and an order a first event.
LEMMA LastExists ==
  ASSUME NEW S, Ordered(S), S # {}
  PROVE  /\ LastOf(S) \in S /\ \A f \in S : LastOf(S) = f \/ Before(f, LastOf(S))
         /\ FirstOf(S) \in S /\ \A f \in S : FirstOf(S) = f \/ Before(FirstOf(S), f)
<1> DEFINE Up == {p \in S \X S : Before(p[1], p[2])}
           Down == {p \in S \X S : Before(p[2], p[1])}
<1>1. StrictOrder(Up, S)
  BY DEF StrictOrder, Before, Ordered
<1>2. StrictOrder(Down, S)
  BY DEF StrictOrder, Before, Ordered
<1>3. \E x \in S : \A y \in S : x = y \/ Before(y, x)
  <2> HIDE DEF Up
  <2>1. \E x \in S : \A y \in S : x = y \/ <<y, x>> \in Up
    BY <1>1, OrderHasLast DEF Ordered
  <2> QED BY <2>1 DEF Up
<1>4. \E x \in S : \A y \in S : x = y \/ Before(x, y)
  <2> HIDE DEF Down
  <2>1. \E x \in S : \A y \in S : x = y \/ <<y, x>> \in Down
    BY <1>2, OrderHasLast DEF Ordered
  <2> QED BY <2>1 DEF Down
<1> QED BY <1>3, <1>4, Zenon DEF LastOf, FirstOf

\* ... and only one, because event ids differ.
LEMMA OnlyOneLast ==
  ASSUME NEW S, Ordered(S), NEW e \in S
  PROVE  /\ (\A f \in S : e = f \/ Before(f, e)) => LastOf(S) = e
         /\ (\A f \in S : e = f \/ Before(e, f)) => FirstOf(S) = e
<1>1. \A f \in S : ~ (Before(e, f) /\ Before(f, e))
  BY DEF Before, Ordered
<1> QED BY <1>1, LastExists

-------------------------------------------------------------------------------
\* Whoever is before x is before those after x: a rank is one more than how many are before.
LEMMA RanksCount ==
  ASSUME NEW S, NEW R, IsFiniteSet(S), StrictOrder(R, S)
  PROVE  LET rank(x) == 1 + Cardinality({y \in S : <<y, x>> \in R}) IN
         /\ {rank(x) : x \in S} = 1..Cardinality(S)
         /\ \A x \in S : rank(x) \in 1..Cardinality(S)
         /\ \A x, y \in S : rank(x) < rank(y) <=> <<x, y>> \in R
<1> DEFINE before(x) == {y \in S : <<y, x>> \in R}
           rank(x) == 1 + Cardinality(before(x))
<1>1. ASSUME NEW x \in S
      PROVE  /\ IsFiniteSet(before(x)) /\ Cardinality(before(x)) \in Nat
             /\ rank(x) \in 1..Cardinality(S)
  <2>1. before(x) \subseteq S \ {x}
    BY DEF StrictOrder
  <2>2. IsFiniteSet(S \ {x}) /\ Cardinality(S \ {x}) = Cardinality(S) - 1
    BY FS_RemoveElement
  <2>3. /\ IsFiniteSet(before(x)) /\ Cardinality(before(x)) \in Nat
        /\ Cardinality(before(x)) <= Cardinality(S) - 1
    <3> HIDE DEF before
    <3> QED BY <2>1, <2>2, FS_Subset, FS_CardinalityType
  <2>4. Cardinality(S) \in Nat
    BY FS_CardinalityType
  <2> HIDE DEF before
  <2> QED BY <2>3, <2>4
<1>2. ASSUME NEW x \in S, NEW y \in S, <<x, y>> \in R
      PROVE  rank(x) < rank(y)
  <2>1. before(x) \cup {x} \subseteq before(y) /\ x \notin before(x)
    BY <1>2 DEF StrictOrder
  <2> HIDE DEF before
  <2>2. Cardinality(before(x) \cup {x}) = Cardinality(before(x)) + 1
    BY <1>1, <2>1, FS_AddElement
  <2>3. Cardinality(before(x) \cup {x}) <= Cardinality(before(y))
    BY <1>1, <2>1, FS_Subset
  <2> QED BY <1>1, <2>2, <2>3
<1>3. \A x, y \in S : rank(x) < rank(y) <=> <<x, y>> \in R
  <2> SUFFICES ASSUME NEW x \in S, NEW y \in S, rank(x) < rank(y)
               PROVE  <<x, y>> \in R
    BY <1>2
  <2>1. rank(x) \in Int /\ rank(y) \in Int
    <3> HIDE DEF before
    <3> QED BY <1>1
  <2>2. x # y /\ ~ (rank(y) < rank(x))
    <3> HIDE DEF rank
    <3> QED BY <2>1
  <2> QED BY <1>2, <2>2 DEF StrictOrder
<1>4. {rank(x) : x \in S} = 1..Cardinality(S)
  <2> DEFINE ranks == {rank(x) : x \in S}
             f == [x \in S |-> rank(x)]
  <2>1. f \in [S -> ranks]
    OBVIOUS
  <2>2. \A x, y \in S : f[x] = f[y] => x = y
    <3> SUFFICES ASSUME NEW x \in S, NEW y \in S, x # y PROVE rank(x) # rank(y)
      OBVIOUS
    <3>1. rank(x) \in Int /\ rank(y) \in Int
      <4> HIDE DEF before
      <4> QED BY <1>1
    <3>2. rank(x) < rank(y) \/ rank(y) < rank(x)
      BY <1>2 DEF StrictOrder
    <3> HIDE DEF rank
    <3> QED BY <3>1, <3>2
  <2>3. \A r \in ranks : \E x \in S : f[x] = r
    <3> HIDE DEF rank
    <3> QED OBVIOUS
  <2>4. ExistsBijection(S, ranks)
    <3> HIDE DEF f, ranks
    <3> QED BY <2>1, <2>2, <2>3 DEF ExistsBijection, Bijection, Injection, Surjection, IsInjective
  <2>5. IsFiniteSet(ranks) /\ Cardinality(ranks) = Cardinality(S)
    <3> HIDE DEF ranks
    <3> QED BY <2>4, FS_Bijection
  <2>6. ranks \subseteq 1..Cardinality(S)
    <3> HIDE DEF rank
    <3> QED BY <1>1
  <2>7. Cardinality(S) \in Nat
    BY FS_CardinalityType
  <2>8. IsFiniteSet(1..Cardinality(S)) /\ Cardinality(1..Cardinality(S)) = Cardinality(S)
    BY <2>7, FS_Interval
  <2> HIDE DEF ranks
  <2>9. ranks = 1..Cardinality(S)
    BY <2>5, <2>6, <2>8, FS_Subset
  <2> QED BY <2>9 DEF ranks
<1>5. \A x \in S : rank(x) \in 1..Cardinality(S)
  BY <1>1
<1> QED BY <1>3, <1>4, <1>5

LEMMA ImageIsFinite ==
  ASSUME NEW S, NEW f, IsFiniteSet(S)
  PROVE  /\ IsFiniteSet({f[x] : x \in S})
         /\ Cardinality({f[x] : x \in S}) <= Cardinality(S)
<1> DEFINE g == [x \in S |-> f[x]]
           T == {f[x] : x \in S}
<1>1. g \in Surjection(S, T)
  BY DEF Surjection
<1> HIDE DEF g, T
<1>2. IsFiniteSet(T) /\ Cardinality(T) <= Cardinality(S)
  BY <1>1, FS_Surjection
<1> QED BY <1>2 DEF T

\* The values of a finite set of rows.
LEMMA ValuesAreFinite ==
  ASSUME NEW rows, IsFiniteSet(rows)
  PROVE  IsFiniteSet({row.value : row \in rows})
<1> DEFINE f == [row \in rows |-> row.value]
<1>1. {row.value : row \in rows} = {f[row] : row \in rows}
  OBVIOUS
<1>2. IsFiniteSet({f[row] : row \in rows})
  <2> HIDE DEF f
  <2> QED BY ImageIsFinite
<1> QED BY <1>1, <1>2, Zenon

\* Of n values at least k of which are small enough, one is the k-th.
LEMMA KthValueIs ==
  ASSUME NEW rows, IsFiniteSet(rows), \A row \in rows : row.value \in Int,
         NEW k \in 1..Cardinality(rows)
  PROVE  LET v == KthValue(rows, k) IN
         /\ v \in Int
         /\ Cardinality({row \in rows : row.value < v}) < k
         /\ k <= Cardinality({row \in rows : row.value <= v})
<1> DEFINE values == {row.value : row \in rows}
           below(v) == {row \in rows : row.value < v}
           upto(v) == {row \in rows : row.value <= v}
           large == {v \in values : k <= Cardinality(upto(v))}
<1>1. IsFiniteSet(values) /\ values \subseteq Int
  BY ValuesAreFinite
<1>2. \A v : /\ IsFiniteSet(upto(v)) /\ Cardinality(upto(v)) \in Nat
             /\ IsFiniteSet(below(v)) /\ Cardinality(below(v)) \in Nat
  BY FS_Subset, FS_CardinalityType
<1>3. Cardinality(rows) \in Nat
  BY FS_CardinalityType
<1>4. rows # {}
  BY <1>3, FS_EmptySet
<1> DEFINE Up == {p \in Int \X Int : p[1] < p[2]}
           Down == {p \in Int \X Int : p[2] < p[1]}
<1>5. \A T \in SUBSET Int : StrictOrder(Up, T) /\ StrictOrder(Down, T)
  BY DEF StrictOrder
<1>6. large # {}
  <2>1. values # {} /\ StrictOrder(Up, values)
    <3> HIDE DEF Up
    <3> QED BY <1>1, <1>4, <1>5
  <2>2. \E v \in values : \A w \in values : v = w \/ <<w, v>> \in Up
    <3> HIDE DEF Up, values
    <3> QED BY <1>1, <2>1, OrderHasLast
  <2>3. PICK v \in values : \A w \in values : v = w \/ <<w, v>> \in Up
    BY <2>2, Zenon
  <2>4. \A row \in rows : row.value <= v
    <3> SUFFICES ASSUME NEW row \in rows PROVE row.value <= v
      OBVIOUS
    <3>1. v = row.value \/ <<row.value, v>> \in Up
      BY <2>3
    <3>2. v \in Int /\ row.value \in Int
      BY <1>1
    <3> QED BY <3>1, <3>2
  <2>5. upto(v) = rows
    BY <2>4
  <2> QED BY <2>3, <2>5, <1>3
<1>7. PICK v \in large : \A w \in large : v = w \/ <<w, v>> \in Down
  <2>1. IsFiniteSet(large) /\ large \subseteq Int
    BY <1>1, FS_Subset
  <2> HIDE DEF Down, large
  <2> QED BY <1>5, <1>6, <2>1, OrderHasLast
<1>8. Cardinality(below(v)) < k
  <2> SUFFICES ASSUME ~ (Cardinality(below(v)) < k) PROVE FALSE
    OBVIOUS
  <2>1. k <= Cardinality(below(v))
    <3> HIDE DEF below
    <3> QED BY <1>2, <1>3
  <2> DEFINE smaller == {row.value : row \in below(v)}
  <2>2. below(v) # {}
    BY <2>1, FS_EmptySet
  <2>3. IsFiniteSet(smaller) /\ smaller # {} /\ smaller \subseteq Int
    <3>1. IsFiniteSet(smaller)
      <4> HIDE DEF below
      <4> QED BY <1>2, ValuesAreFinite
    <3> QED BY <3>1, <2>2
  <2>4. PICK w \in smaller : \A u \in smaller : w = u \/ <<u, w>> \in Up
    <3> HIDE DEF Up, smaller
    <3> QED BY <1>5, <2>3, OrderHasLast
  <2>5. below(v) \subseteq upto(w)
    <3> SUFFICES ASSUME NEW row \in below(v) PROVE row.value <= w
      OBVIOUS
    <3>1. w = row.value \/ <<row.value, w>> \in Up
      BY <2>4
    <3>2. row.value \in Int /\ w \in Int
      BY <2>3, <2>4
    <3> QED BY <3>1, <3>2
  <2>6. w \in large
    <3>1. Cardinality(below(v)) <= Cardinality(upto(w))
      <4> HIDE DEF below, upto
      <4> QED BY <1>2, <2>5, FS_Subset
    <3>2. w \in values
      BY <2>4
    <3> HIDE DEF below, upto
    <3> QED BY <1>2, <2>1, <3>1, <3>2
  <2>7. w < v
    BY <2>4, <1>7, <1>1
  <2>8. v \in Int /\ w \in Int
    BY <1>1, <1>7, <2>4
  <2>9. v = w \/ <<w, v>> \in Down
    <3> HIDE DEF Down, large
    <3> QED BY <2>6, <1>7
  <2>10. v = w \/ v < w
    BY <2>8, <2>9
  <2> QED BY <2>7, <2>8, <2>10
<1>9. KthValue(rows, k) \in values /\ Cardinality(below(KthValue(rows, k))) < k
      /\ k <= Cardinality(upto(KthValue(rows, k)))
  BY <1>7, <1>8 DEF KthValue
<1> QED BY <1>9, <1>1
\* Values at most t and values above it are all of them.
LEMMA CountsSplit ==
  ASSUME NEW rows, IsFiniteSet(rows), \A row \in rows : row.value \in Int, NEW t \in Int
  PROVE  LET n == Cardinality(rows)
             below == Cardinality({row \in rows : row.value < t})
             upto == Cardinality({row \in rows : row.value <= t})
             above == Cardinality({row \in rows : row.value > t})
         IN n \in Nat /\ below \in Nat /\ upto \in Nat /\ above \in Nat
            /\ above = n - upto /\ below <= n /\ upto <= n
<1> DEFINE U == {row \in rows : row.value <= t}
           A == {row \in rows : row.value > t}
           B == {row \in rows : row.value < t}
<1>1. U \subseteq rows /\ A \subseteq rows /\ B \subseteq rows /\ A = rows \ U
  OBVIOUS
<1> HIDE DEF U, A, B
<1>2. Cardinality(rows \ U) = Cardinality(rows) - Cardinality(rows \cap U)
  BY FS_Difference
<1>3. rows \cap U = U
  BY <1>1
<1>4. /\ Cardinality(U) \in Nat /\ Cardinality(A) \in Nat /\ Cardinality(B) \in Nat
      /\ Cardinality(U) <= Cardinality(rows) /\ Cardinality(B) <= Cardinality(rows)
  BY <1>1, FS_Subset, FS_CardinalityType
<1>5. Cardinality(rows) \in Nat
  BY FS_CardinalityType
<1>6. Cardinality(A) = Cardinality(rows) - Cardinality(U)
  BY <1>1, <1>2, <1>3
<1> QED BY <1>4, <1>5, <1>6 DEF U, A, B

\* Fewer values are at most t than are below v when t is less than v, and no fewer than those
\* at most v when it is not.
LEMMA CountsGrow ==
  ASSUME NEW rows, IsFiniteSet(rows), \A row \in rows : row.value \in Int,
         NEW t \in Int, NEW v \in Int
  PROVE  /\ t < v => Cardinality({row \in rows : row.value <= t})
                       <= Cardinality({row \in rows : row.value < v})
         /\ t <= v => Cardinality({row \in rows : row.value < t})
                       <= Cardinality({row \in rows : row.value < v})
         /\ v <= t => Cardinality({row \in rows : row.value <= v})
                       <= Cardinality({row \in rows : row.value <= t})
         /\ v < t => Cardinality({row \in rows : row.value <= v})
                       <= Cardinality({row \in rows : row.value < t})
<1> DEFINE upto(x) == {row \in rows : row.value <= x}
           below(x) == {row \in rows : row.value < x}
<1>1. /\ t < v => upto(t) \subseteq below(v)
      /\ t <= v => below(t) \subseteq below(v)
      /\ v <= t => upto(v) \subseteq upto(t)
      /\ v < t => upto(v) \subseteq below(t)
  OBVIOUS
<1>2. \A x : IsFiniteSet(upto(x)) /\ IsFiniteSet(below(x))
  BY FS_Subset
<1>3. /\ t < v => Cardinality(upto(t)) <= Cardinality(below(v))
      /\ t <= v => Cardinality(below(t)) <= Cardinality(below(v))
      /\ v <= t => Cardinality(upto(v)) <= Cardinality(upto(t))
      /\ v < t => Cardinality(upto(v)) <= Cardinality(below(t))
  <2> HIDE DEF upto, below
  <2> QED BY <1>1, <1>2, FS_Subset
<1> QED BY <1>3

\* More than a quarter of the values are above what is less than their 75th percentile.
LEMMA PercentileCounts ==
  ASSUME NEW rows, IsFiniteSet(rows), rows # {}, \A row \in rows : row.value \in Int,
         NEW t \in Int
  PROVE  LET n == Cardinality(rows)
             p == Percentile(rows, 3)
             above == Cardinality({row \in rows : row.value > t})
         IN p \in Int /\ (t < p <=> 4 * above > n)
<1> DEFINE n == Cardinality(rows)
           k == NearestRank(n, 3)
           v == KthValue(rows, k)
           above == Cardinality({row \in rows : row.value > t})
           upto(x) == Cardinality({row \in rows : row.value <= x})
           below(x) == Cardinality({row \in rows : row.value < x})
<1>1. n \in Nat /\ n # 0
  BY FS_CardinalityType, FS_EmptySet
<1>2. k \in 1..n /\ 4 * k <= 3 * n + 3 /\ 4 * k >= 3 * n
  <2> HIDE DEF n
  <2> QED BY <1>1 DEF NearestRank
<1>3. v \in Int /\ below(v) < k /\ k <= upto(v)
  <2> HIDE DEF k
  <2> QED BY <1>2, KthValueIs
<1>4. Percentile(rows, 3) = v
  <2> HIDE DEF k
  <2> QED BY <1>1 DEF Percentile, k
<1>5. above \in Nat /\ upto(t) \in Nat /\ above = n - upto(t)
  BY CountsSplit
<1>6. below(v) \in Nat /\ upto(v) \in Nat
  <2> HIDE DEF v
  <2> QED BY CountsSplit, <1>3
<1>7. (t < v => upto(t) <= below(v)) /\ (v <= t => upto(v) <= upto(t))
  <2> HIDE DEF v
  <2> QED BY CountsGrow, <1>3
<1> HIDE DEF n, k, v, above, upto, below
<1>8. t < v <=> 4 * above > n
  BY <1>1, <1>2, <1>3, <1>5, <1>6, <1>7
<1> QED BY <1>3, <1>4, <1>8 DEF n, above

\* At least half of the values are below what is more than their median.
LEMMA MedianCounts ==
  ASSUME NEW rows, IsFiniteSet(rows), rows # {}, \A row \in rows : row.value \in Int,
         NEW t \in Int
  PROVE  LET n == Cardinality(rows)
             p == Percentile(rows, 2)
             less == Cardinality({row \in rows : row.value < t})
         IN p \in Int /\ (t > p => 2 * less >= n) /\ (2 * less > n => t > p)
<1> DEFINE n == Cardinality(rows)
           low == KthValue(rows, n \div 2)
           k == n \div 2 + 1
           v == KthValue(rows, k)
           less == Cardinality({row \in rows : row.value < t})
           upto(x) == Cardinality({row \in rows : row.value <= x})
           below(x) == Cardinality({row \in rows : row.value < x})
<1>1. n \in Nat /\ n # 0
  BY FS_CardinalityType, FS_EmptySet
<1>2. less \in Nat
  BY CountsSplit
<1>3. k \in 1..n /\ 2 * k >= n + 1 /\ 2 * k <= n + 2
  <2> HIDE DEF n
  <2> QED BY <1>1
<1>4. v \in Int /\ below(v) < k /\ k <= upto(v)
  <2> HIDE DEF k
  <2> QED BY <1>3, KthValueIs
<1>5. below(v) \in Nat /\ upto(v) \in Nat
  <2> HIDE DEF v
  <2> QED BY CountsSplit, <1>4
<1>6. (t <= v => less <= below(v)) /\ (v < t => upto(v) <= less)
  <2> HIDE DEF v
  <2> QED BY CountsGrow, <1>4
<1>7. 2 * less > n => t > v
  <2> HIDE DEF n, k, v, less, upto, below
  <2> QED BY <1>1, <1>2, <1>3, <1>4, <1>5, <1>6
<1>8. CASE n % 2 = 0
  <2>1. n \div 2 \in 1..n /\ 2 * (n \div 2) = n
    <3> HIDE DEF n
    <3> QED BY <1>1, <1>8
  <2>2. low \in Int /\ below(low) < n \div 2 /\ n \div 2 <= upto(low)
    BY <2>1, KthValueIs
  <2>3. below(low) \in Nat /\ upto(low) \in Nat
    <3> HIDE DEF low
    <3> QED BY CountsSplit, <2>2
  <2>4. /\ low < t => upto(low) <= less
        /\ v < low => upto(v) <= below(low)
    <3> HIDE DEF low, v
    <3> QED BY CountsGrow, <1>4, <2>2
  <2>5. Percentile(rows, 2) = (low + v + 1) \div 2
    <3> HIDE DEF low, v
    <3> QED BY <1>1, <1>8 DEF Percentile, low, v, k
  <2> DEFINE half == n \div 2
  <2>6. half \in Nat /\ 2 * half = n /\ k = half + 1
    BY <2>1
  <2>7. low <= v
    <3> HIDE DEF n, k, v, low, less, upto, below, half
    <3> QED BY <1>4, <1>5, <2>2, <2>3, <2>4, <2>6 DEF half
  <2> DEFINE p == (low + v + 1) \div 2
  <2>8. p \in Int /\ low <= p /\ p <= v
    <3> HIDE DEF low, v
    <3> QED BY <2>7, <2>2, <1>4
  <2>9. (t > p => 2 * less >= n) /\ (2 * less > n => t > p)
    <3> HIDE DEF n, k, v, low, less, upto, below, half, p
    <3> QED BY <1>1, <1>2, <1>4, <1>7, <2>2, <2>3, <2>4, <2>6, <2>8 DEF half
  <2> QED BY <2>5, <2>8, <2>9
<1>9. CASE n % 2 # 0
  <2>1. NearestRank(n, 2) = k
    <3> HIDE DEF n
    <3> QED BY <1>1, <1>9 DEF NearestRank
  <2>2. Percentile(rows, 2) = v
    <3> HIDE DEF k
    <3> QED BY <1>1, <1>9, <2>1 DEF Percentile
  <2>3. t > v => 2 * less >= n
    <3> HIDE DEF n, k, v, less, upto, below
    <3> QED BY <1>1, <1>2, <1>3, <1>4, <1>5, <1>6
  <2> QED BY <1>4, <1>7, <2>2, <2>3
<1> QED BY <1>8, <1>9
-------------------------------------------------------------------------------
PeersRead(peers) ==
  /\ peers.asked \in Int /\ IsFiniteSet(peers.rows)
  /\ \A row \in peers.rows : row.value \in Int \cup {None}

Eligible(g) == g.status = "sufficient" /\ g.gap > 0

\* The peer rows of a metric are finitely many and have values.
LEMMA PeerRowsRead ==
  ASSUME None \notin Int, NEW peers, PeersRead(peers), NEW metric
  PROVE  /\ IsFiniteSet(PeerRows(metric, peers, Date))
         /\ \A row \in PeerRows(metric, peers, Date) : row.value \in Int
<1>1. PeerRows(metric, peers, Date) \subseteq peers.rows
  BY DEF PeerRows
<1>2. \A row \in PeerRows(metric, peers, Date) : row.value \in Int
  BY DEF PeerRows, PeersRead
<1> QED BY <1>1, <1>2, FS_Subset DEF PeersRead

\* roundMetric gives a number whenever the denominator is one.
LEMMA RoundedIsInt ==
  ASSUME NEW n \in Int, NEW d \in Int, d > 0
  PROVE  Rounded(n, d) \in Int
<1> DEFINE x == 2 * n * Scale + d
           y == 2 * d
<1>1. x \in Int /\ y \in Int /\ y > 0
  BY DEF Scale
<1> HIDE DEF x, y
<1>2. x \div y \in Int
  BY <1>1
<1> QED BY <1>2 DEF x, y, Rounded

\* What a benchmark is made of.
LEMMA BenchmarkIs ==
  ASSUME None \notin Int, NEW peers, PeersRead(peers), NEW metric
  PROVE  LET b == Benchmark(metric, peers, Date, peers.asked)
             rows == PeerRows(metric, peers, Date)
             stores == Cardinality({row.store : row \in rows}) IN
         /\ stores \in Nat /\ (stores > 0 => rows # {})
         /\ b.min \in Int /\ b.min >= 3 /\ b.confidence \in 0..Scale
         /\ b.status = "sufficient" <=> stores >= 3 /\ stores >= peers.asked
         /\ b.median = Percentile(rows, 2) /\ b.p75 = Percentile(rows, 3)
<1> DEFINE b == Benchmark(metric, peers, Date, peers.asked)
           rows == PeerRows(metric, peers, Date)
           storesOf == {row.store : row \in rows}
           stores == Cardinality(storesOf)
           f == [row \in rows |-> row.store]
           min == MinPeers(peers.asked)
<1>1. IsFiniteSet(storesOf)
  <2>1. storesOf = {f[row] : row \in rows}
    OBVIOUS
  <2>2. IsFiniteSet(rows)
    BY PeerRowsRead
  <2>3. IsFiniteSet({f[row] : row \in rows})
    <3> HIDE DEF f, rows
    <3> QED BY <2>2, ImageIsFinite
  <2> QED BY <2>1, <2>3, Zenon
<1>2. stores \in Nat
  <2> HIDE DEF storesOf
  <2> QED BY <1>1, FS_CardinalityType
<1>3. stores > 0 => rows # {}
  <2>1. rows = {} => storesOf = {}
    OBVIOUS
  <2> HIDE DEF storesOf, rows
  <2> QED BY <2>1, FS_EmptySet
<1>4. min \in Int /\ min >= 3 /\ min >= peers.asked /\ (min = 3 \/ min = peers.asked)
  BY DEF MinPeers, DefaultMinPeerStoreCount, PeersRead
<1> HIDE DEF min, stores, rows
<1>5. /\ b.min = min
      /\ b.status = SampleStatus(stores, min)
      /\ b.confidence = Confidence(SampleStatus(stores, min), stores, min)
      /\ b.median = Percentile(rows, 2) /\ b.p75 = Percentile(rows, 3)
  BY DEF Benchmark, min, stores, rows
<1> HIDE DEF b
<1>6. b.status = "sufficient" <=> stores >= min
  BY <1>5 DEF SampleStatus
<1>7. b.confidence \in 0..Scale
  <2>1. CASE stores >= min
    <3>1. SampleStatus(stores, min) = "sufficient"
      BY <2>1 DEF SampleStatus
    <3>2. b.confidence = LET grown == 7000 + (stores - min) * 500 IN
                         IF grown < 9500 THEN grown ELSE 9500
      BY <3>1, <1>5 DEF Confidence
    <3> QED BY <2>1, <3>2, <1>2, <1>4 DEF Scale
  <2>2. CASE ~ (stores >= min)
    <3>1. SampleStatus(stores, min) # "sufficient"
      BY <2>2 DEF SampleStatus
    <3>2. b.confidence \in {3500, 1000}
      BY <3>1, <1>5 DEF Confidence
    <3> QED BY <3>2 DEF Scale
  <2> QED BY <2>1, <2>2
<1>8. stores >= min <=> stores >= 3 /\ stores >= peers.asked
  BY <1>2, <1>4 DEF PeersRead
<1> QED BY <1>2, <1>3, <1>4, <1>5, <1>6, <1>7, <1>8 DEF b, rows, stores

\* What one metric of a store and the benchmark of its peers make.
LEMMA GapIs ==
  ASSUME None \notin Int, NEW peers, PeersRead(peers), NEW metric, NEW snaps,
         snaps.metrics[metric].value \in Int
  PROVE  LET g == Gap(snaps, metric, Benchmark(metric, peers, Date, peers.asked)) IN
         /\ g.metric = metric /\ g.rank = 0 /\ "rank" \in DOMAIN g
         /\ g.gap \in Int /\ g.gap >= 0 /\ g.confidence \in 0..Scale
         /\ Eligible(g) => /\ RatioOrNone(g) \in Int
                           /\ Enough(g, peers) /\ ~ FewBetter(g, peers)
         /\ Enough(g, peers) /\ ManyBetter(g, peers) => Eligible(g)
<1> DEFINE b == Benchmark(metric, peers, Date, peers.asked)
           g == Gap(snaps, metric, b)
           value == snaps.metrics[metric].value
           higher == Direction(metric) = "higher_is_better"
           reference == IF higher THEN b.p75 ELSE b.median
           raw == IF reference = None THEN 0
                  ELSE IF higher THEN reference - value ELSE value - reference
           rows == PeerRows(metric, peers, Date)
           stores == Cardinality({row.store : row \in rows})
<1>1. /\ stores \in Nat /\ (stores > 0 => rows # {})
      /\ b.confidence \in 0..Scale
      /\ b.status = "sufficient" <=> stores >= 3 /\ stores >= peers.asked
      /\ b.median = Percentile(rows, 2) /\ b.p75 = Percentile(rows, 3)
  BY BenchmarkIs
<1> HIDE DEF b
<1>2. /\ g.metric = metric /\ g.target = value /\ g.rank = 0 /\ "rank" \in DOMAIN g
      /\ g.gap = (IF raw > 0 THEN raw ELSE 0)
      /\ g.ratio = IF reference \in {None, 0} THEN None
                   ELSE Rounded(IF raw > 0 THEN raw ELSE 0,
                                IF reference > 0 THEN reference ELSE -reference)
      /\ g.status = b.status
      /\ g.confidence = IF b.status = "sufficient" THEN b.confidence ELSE 2000
  BY DEF Gap
<1> HIDE DEF g, rows, stores, value
<1>3. IsFiniteSet(rows) /\ \A row \in rows : row.value \in Int
  BY PeerRowsRead DEF rows
<1>4. reference \in Int \/ (reference = None /\ rows = {})
  <2>1. CASE rows = {}
    <3>1. Cardinality(rows) = 0
      BY <2>1, FS_EmptySet
    <3> QED BY <2>1, <3>1, <1>1 DEF Percentile
  <2>2. CASE rows # {}
    BY <2>2, <1>1, <1>3, PercentileCounts, MedianCounts
  <2> QED BY <2>1, <2>2
<1>5. value \in Int
  BY DEF value
<1>6. raw \in Int
  <2> HIDE DEF reference, higher
  <2> QED BY <1>4, <1>5
<1>7. g.confidence \in 0..Scale
  <2>1. 2000 \in 0..Scale
    BY DEF Scale
  <2> QED BY <1>1, <1>2, <2>1
<1>8. Eligible(g) => RatioOrNone(g) \in Int
  <2>1. g.ratio = None \/ g.ratio \in Int
    <3> SUFFICES ASSUME reference \notin {None, 0} PROVE g.ratio \in Int
      BY <1>2
    <3> DEFINE n == IF raw > 0 THEN raw ELSE 0
               d == IF reference > 0 THEN reference ELSE -reference
    <3>1. n \in Int
      <4> HIDE DEF raw
      <4> QED BY <1>6
    <3>2. d \in Int /\ d > 0
      <4> HIDE DEF reference
      <4> QED BY <1>4
    <3>3. g.ratio = Rounded(n, d)
      BY <1>2
    <3> HIDE DEF n, d
    <3> QED BY <3>1, <3>2, <3>3, RoundedIsInt
  <2> QED BY <2>1 DEF RatioOrNone
<1>9. Enough(g, peers) <=> b.status = "sufficient"
  BY <1>1, <1>2 DEF Enough, stores, rows
<1>10. Enough(g, peers) => (Eligible(g) => ~ FewBetter(g, peers))
                         /\ (ManyBetter(g, peers) => Eligible(g))
  <2> SUFFICES ASSUME Enough(g, peers)
               PROVE  /\ Eligible(g) => ~ FewBetter(g, peers)
                      /\ ManyBetter(g, peers) => Eligible(g)
    OBVIOUS
  <2>1. rows # {}
    BY <1>1, <1>9
  <2>2. Eligible(g) <=> raw > 0
    <3> HIDE DEF raw
    <3> QED BY <1>2, <1>6, <1>9 DEF Eligible
  <2> DEFINE above == Cardinality({row \in rows : row.value > value})
             less == Cardinality({row \in rows : row.value < value})
             n == Cardinality(rows)
  <2>3. CASE higher
    <3>1. reference \in Int /\ (value < reference <=> 4 * above > n)
      BY <2>1, <2>3, <1>1, <1>3, <1>5, PercentileCounts
    <3>2. raw > 0 <=> value < reference
      <4>1. raw = reference - value
        BY <2>3, <3>1
      <4> HIDE DEF reference, raw
      <4> QED BY <4>1, <3>1, <1>5
    <3>3. Better(g, peers) = {row \in rows : row.value > value}
      BY <1>2, <2>3 DEF Better, Beats, rows
    <3>4. ManyBetter(g, peers) <=> 4 * above > n
      BY <1>2, <2>3, <3>3 DEF ManyBetter, rows
    <3>5. FewBetter(g, peers) <=> ~ ManyBetter(g, peers)
      BY <1>2, <2>3 DEF FewBetter
    <3> QED BY <2>2, <3>1, <3>2, <3>4, <3>5
  <2>4. CASE ~ higher
    <3>1. /\ reference \in Int
          /\ value > reference => 2 * less >= n
          /\ 2 * less > n => value > reference
      BY <2>1, <2>4, <1>1, <1>3, <1>5, MedianCounts
    <3>2. raw > 0 <=> value > reference
      <4>1. raw = value - reference
        BY <2>4, <3>1
      <4> HIDE DEF reference, raw
      <4> QED BY <4>1, <3>1, <1>5
    <3>3. Better(g, peers) = {row \in rows : row.value < value}
      BY <1>2, <2>4 DEF Better, Beats, rows
    <3>4. ManyBetter(g, peers) <=> 2 * less > n
      BY <1>2, <2>4, <3>3 DEF ManyBetter, rows
    <3>5. FewBetter(g, peers) <=> 2 * less < n
      BY <1>2, <2>4, <3>3 DEF FewBetter, rows
    <3>6. less \in Nat /\ n \in Nat
      BY <1>3, <1>5, CountsSplit
    <3> HIDE DEF less, n
    <3> QED BY <2>2, <3>1, <3>2, <3>4, <3>5, <3>6
  <2> QED BY <2>3, <2>4
<1>11. Eligible(g) => Enough(g, peers)
  BY <1>2, <1>9 DEF Eligible
<1>12. g.gap \in Int /\ g.gap >= 0
  <2> HIDE DEF raw
  <2> QED BY <1>2, <1>6
<1> QED BY <1>2, <1>7, <1>8, <1>10, <1>11, <1>12 DEF g, b

\* Every metric has its place in the order of names, so no two gaps tie.
LEMMA NamesDiffer ==
  \A metric \in MetricIds : ByName(metric) \in 1..4 /\ Alphabetical[ByName(metric)] = metric
<1> SUFFICES ASSUME NEW metric \in MetricIds
             PROVE  ByName(metric) \in 1..4 /\ Alphabetical[ByName(metric)] = metric
  OBVIOUS
<1>1. DOMAIN Alphabetical = 1..4
  BY DEF Alphabetical
<1>2. \E i \in 1..4 : Alphabetical[i] = metric
  <2>1. /\ Alphabetical[1] = "avg_order_value" /\ Alphabetical[2] = "checkout_started_cart_rate"
        /\ Alphabetical[3] = "refund_rate" /\ Alphabetical[4] = "repurchase_90d_rate"
    BY DEF Alphabetical
  <2>2. 1 \in 1..4 /\ 2 \in 1..4 /\ 3 \in 1..4 /\ 4 \in 1..4
    OBVIOUS
  <2> QED BY <2>1, <2>2 DEF MetricIds
<1> QED BY <1>1, <1>2, Zenon DEF ByName

\* A gap as GapIs says it is.
Sound(g, peers) ==
  /\ g.metric \in MetricIds /\ g.rank = 0 /\ "rank" \in DOMAIN g
  /\ g.gap \in Int /\ g.gap >= 0 /\ g.confidence \in 0..Scale
  /\ Eligible(g) => RatioOrNone(g) \in Int /\ Enough(g, peers) /\ ~ FewBetter(g, peers)
  /\ Enough(g, peers) /\ ManyBetter(g, peers) => Eligible(g)

Chosen(all) == {g \in all : Eligible(g)}
WithRank(g, all) == [g EXCEPT !.rank = 1 + Cardinality({h \in Chosen(all) : RanksBefore(h, g)})]
Finished(g, all) == IF g \in Chosen(all) THEN WithRank(g, all) ELSE g

\* Ranking finishes each gap and drops none.
LEMMA RankedIs ==
  ASSUME NEW all
  PROVE  Ranked(all) = {Finished(g, all) : g \in all}
BY DEF Ranked, Finished, WithRank, Chosen, Eligible

\* Ranking changes nothing else.
LEMMA WithRankIs ==
  ASSUME NEW all, NEW g, "rank" \in DOMAIN g
  PROVE  LET r == WithRank(g, all) IN
         /\ r.rank = 1 + Cardinality({h \in Chosen(all) : RanksBefore(h, g)})
         /\ r.metric = g.metric /\ r.target = g.target /\ r.ratio = g.ratio /\ r.gap = g.gap
         /\ r.confidence = g.confidence
BY DEF WithRank

\* What earns a rank reads only the metric and the target of a gap.
LEMMA SameEarnings ==
  ASSUME NEW g, NEW r, NEW peers, r.metric = g.metric, r.target = g.target
  PROVE  /\ Enough(r, peers) <=> Enough(g, peers)
         /\ ManyBetter(r, peers) <=> ManyBetter(g, peers)
         /\ FewBetter(r, peers) <=> FewBetter(g, peers)
<1>1. Better(r, peers) = Better(g, peers)
  BY DEF Better
<1>2. ManyBetter(r, peers) <=> ManyBetter(g, peers)
  BY <1>1 DEF ManyBetter
<1>3. FewBetter(r, peers) <=> FewBetter(g, peers)
  BY <1>1, <1>2 DEF FewBetter
<1>4. Enough(r, peers) <=> Enough(g, peers)
  BY DEF Enough
<1> QED BY <1>2, <1>3, <1>4

\* Ranks are 1, 2, ... by ratio and name, whatever gaps there are.
LEMMA GapsAreRanked ==
  ASSUME NEW all, IsFiniteSet(all), NEW peers,
         \A g \in all : Sound(g, peers),
         \A g, h \in all : g.metric = h.metric => g = h
  PROVE  /\ Earned(Ranked(all), peers)
         /\ \A r \in Ranked(all) : r.gap \in Int /\ r.gap >= 0 /\ r.confidence \in 0..Scale
<1> DEFINE S == Chosen(all)
           R == {p \in S \X S : RanksBefore(p[1], p[2])}
           rank(x) == 1 + Cardinality({y \in S : <<y, x>> \in R})
           done(g) == Finished(g, all)
           ranked == {r \in Ranked(all) : r.rank > 0}
<1>1. S \subseteq all /\ \A g \in all : g \in S <=> Eligible(g)
  BY DEF Chosen
<1>2. IsFiniteSet(S)
  BY <1>1, FS_Subset
<1>3. \A x \in S : RatioOrNone(x) \in Int /\ x.metric \in MetricIds /\ ByName(x.metric) \in Int
  BY <1>1, NamesDiffer DEF Sound
<1>4. \A x, y \in S : ByName(x.metric) = ByName(y.metric) => x = y
  BY <1>1, <1>3, NamesDiffer
<1> HIDE DEF S
<1>5. StrictOrder(R, S)
  BY <1>3, <1>4 DEF StrictOrder, RanksBefore
<1>6. \A x \in S : {y \in S : <<y, x>> \in R} = {h \in S : RanksBefore(h, x)}
  OBVIOUS
<1>7. /\ {rank(x) : x \in S} = 1..Cardinality(S)
      /\ \A x \in S : rank(x) \in 1..Cardinality(S)
      /\ \A x, y \in S : rank(x) < rank(y) <=> <<x, y>> \in R
  <2> HIDE DEF R
  <2> QED BY <1>2, <1>5, RanksCount
<1>8. ASSUME NEW g \in S
      PROVE  /\ done(g).rank = rank(g) /\ done(g).metric = g.metric
             /\ done(g).target = g.target /\ done(g).ratio = g.ratio /\ done(g).gap = g.gap
             /\ done(g).confidence = g.confidence
  <2>1. done(g) = WithRank(g, all) /\ "rank" \in DOMAIN g
    BY <1>1 DEF Finished, S, Sound
  <2>2. rank(g) = 1 + Cardinality({h \in Chosen(all) : RanksBefore(h, g)})
    BY <1>6 DEF S
  <2> HIDE DEF rank, done
  <2> QED BY <2>1, <2>2, WithRankIs
<1>9. \A g \in all \ S : done(g) = g /\ g.rank = 0
  BY DEF Finished, S, Sound
<1>10. Cardinality(S) \in Nat
  BY <1>2, FS_CardinalityType
<1>11. Ranked(all) = {done(g) : g \in all}
  BY RankedIs
<1>12. \A g \in S : rank(g) \in Int /\ rank(g) > 0
  <2> HIDE DEF rank
  <2> QED BY <1>7, <1>10
<1> HIDE DEF rank, done, R
<1>13. ranked = {done(g) : g \in S}
  BY <1>1, <1>8, <1>9, <1>11, <1>12
<1>14. {r.rank : r \in ranked} = 1..Cardinality(S)
  BY <1>7, <1>8, <1>13
<1>15. Cardinality(ranked) = Cardinality(S)
  <2> DEFINE f == [g \in S |-> done(g)]
  <2> HIDE DEF ranked
  <2>1. f \in [S -> ranked] /\ \A r \in ranked : \E g \in S : f[g] = r
    BY <1>13
  <2>2. \A x, y \in S : f[x] = f[y] => x = y
    BY <1>4, <1>8
  <2>3. ExistsBijection(S, ranked)
    <3> HIDE DEF f
    <3> QED BY <2>1, <2>2 DEF ExistsBijection, Bijection, Injection, Surjection, IsInjective
  <2> QED BY <1>2, <2>3, FS_Bijection
<1>16. ASSUME NEW x \in S, NEW y \in S, done(x).rank < done(y).rank
       PROVE  RatioOrNone(done(x)) >= RatioOrNone(done(y))
  <2>1. <<x, y>> \in R
    BY <1>7, <1>8, <1>16
  <2>2. RanksBefore(x, y)
    BY <2>1 DEF R
  <2>3. RatioOrNone(done(x)) = RatioOrNone(x) /\ RatioOrNone(done(y)) = RatioOrNone(y)
    BY <1>8 DEF RatioOrNone
  <2> QED BY <1>3, <2>2, <2>3 DEF RanksBefore
<1>17. \A r, s \in ranked : r.rank < s.rank => RatioOrNone(r) >= RatioOrNone(s)
  <2> HIDE DEF ranked
  <2> QED BY <1>13, <1>16
<1>18. ASSUME NEW g \in all
       PROVE  /\ done(g) \in ranked => Enough(done(g), peers) /\ ~ FewBetter(done(g), peers)
              /\ Enough(done(g), peers) /\ ManyBetter(done(g), peers) => done(g) \in ranked
              /\ done(g).gap \in Int /\ done(g).gap >= 0 /\ done(g).confidence \in 0..Scale
  <2>1. CASE g \in S
    <3>1. done(g) \in ranked /\ Eligible(g)
      <4> HIDE DEF ranked
      <4> QED BY <2>1, <1>1, <1>13
    <3>2. Enough(done(g), peers) /\ ~ FewBetter(done(g), peers)
      BY <2>1, <3>1, <1>8, SameEarnings DEF Sound
    <3> HIDE DEF ranked
    <3> QED BY <2>1, <3>1, <3>2, <1>8 DEF Sound
  <2>2. CASE g \notin S
    <3>1. done(g) = g /\ g \notin ranked /\ ~ Eligible(g)
      BY <2>2, <1>1, <1>9
    <3> HIDE DEF ranked
    <3> QED BY <3>1 DEF Sound
  <2> QED BY <2>1, <2>2
<1>19. \A r \in Ranked(all) :
         /\ r \in ranked => Enough(r, peers) /\ ~ FewBetter(r, peers)
         /\ Enough(r, peers) /\ ManyBetter(r, peers) => r \in ranked
         /\ r.gap \in Int /\ r.gap >= 0 /\ r.confidence \in 0..Scale
  <2> HIDE DEF ranked
  <2> QED BY <1>11, <1>18
<1>20. {r.rank : r \in ranked} = 1..Cardinality(ranked)
  BY <1>14, <1>15
<1> QED BY <1>17, <1>19, <1>20 DEF Earned

LEMMA NothingEarned ==
  ASSUME NEW peers
  PROVE  Earned({}, peers)
<1>1. {g \in {} : g.rank > 0} = {} /\ Cardinality({}) = 0
  BY FS_EmptySet
<1>2. {g.rank : g \in {}} = {} /\ 1..0 = {}
  OBVIOUS
<1> QED BY <1>1, <1>2 DEF Earned

LEMMA MetricIdsAreFinite == IsFiniteSet(MetricIds)
<1>1. IsFiniteSet({"repurchase_90d_rate"})
  BY FS_Singleton
<1>2. IsFiniteSet({"repurchase_90d_rate"} \cup {"avg_order_value"})
  BY <1>1, FS_AddElement
<1>3. IsFiniteSet(({"repurchase_90d_rate"} \cup {"avg_order_value"}) \cup {"refund_rate"})
  BY <1>2, FS_AddElement
<1>4. IsFiniteSet((({"repurchase_90d_rate"} \cup {"avg_order_value"}) \cup {"refund_rate"})
                    \cup {"checkout_started_cart_rate"})
  BY <1>3, FS_AddElement
<1>5. MetricIds = (({"repurchase_90d_rate"} \cup {"avg_order_value"}) \cup {"refund_rate"})
                    \cup {"checkout_started_cart_rate"}
  BY DEF MetricIds
<1> QED BY <1>4, <1>5

\* What the benchmark worker writes, from any snapshots with whole values and any peers.
LEMMA BenchmarkOutput ==
  ASSUME None \notin Int, NEW peers, PeersRead(peers), NEW snaps,
         \A metric \in MetricIds : snaps.metrics[metric].value \in Int \cup {None}
  PROVE  LET rows == OpportunityGaps(snaps, peers, Date, peers.asked) IN
         /\ Earned(rows.gaps, peers)
         /\ \A b \in rows.benchmarks : b.min >= 3 /\ b.confidence \in 0..Scale
         /\ \A g \in rows.gaps : g.gap >= 0 /\ g.confidence \in 0..Scale
<1> DEFINE rows == OpportunityGaps(snaps, peers, Date, peers.asked)
           measured == {metric \in MetricIds :
                          snaps.date = Date /\ snaps.metrics[metric].value # None}
           bench(metric) == Benchmark(metric, peers, Date, peers.asked)
           gap(metric) == Gap(snaps, metric, bench(metric))
           all == {gap(metric) : metric \in measured}
<1>1. CASE snaps.segment.date # Date
  <2>1. rows = [benchmarks |-> {}, gaps |-> {}]
    BY <1>1 DEF OpportunityGaps
  <2> QED BY <2>1, NothingEarned
<1>2. CASE snaps.segment.date = Date
  <2>1. rows = [benchmarks |-> {bench(metric) : metric \in measured}, gaps |-> Ranked(all)]
    BY <1>2 DEF OpportunityGaps
  <2>2. \A metric \in measured : metric \in MetricIds /\ snaps.metrics[metric].value \in Int
    OBVIOUS
  <2>3. \A metric \in measured : Sound(gap(metric), peers) /\ gap(metric).metric = metric
    BY <2>2, GapIs DEF Sound
  <2>4. IsFiniteSet(all)
    <3> DEFINE f == [metric \in measured |-> gap(metric)]
    <3>1. all = {f[metric] : metric \in measured}
      <4> HIDE DEF gap, measured
      <4> QED OBVIOUS
    <3>2. measured \subseteq MetricIds
      OBVIOUS
    <3>3. IsFiniteSet(measured)
      BY <3>2, MetricIdsAreFinite, FS_Subset
    <3>4. IsFiniteSet({f[metric] : metric \in measured})
      <4> HIDE DEF f, measured
      <4> QED BY <3>3, ImageIsFinite
    <3> QED BY <3>1, <3>4, Zenon
  <2>5. /\ \A g \in all : Sound(g, peers)
        /\ \A g, h \in all : g.metric = h.metric => g = h
    <3> HIDE DEF gap, measured
    <3> QED BY <2>3
  <2>6. /\ Earned(Ranked(all), peers)
        /\ \A r \in Ranked(all) : r.gap \in Int /\ r.gap >= 0 /\ r.confidence \in 0..Scale
    <3> HIDE DEF all
    <3> QED BY <2>4, <2>5, GapsAreRanked
  <2>7. \A metric \in measured : bench(metric).min >= 3 /\ bench(metric).confidence \in 0..Scale
    BY BenchmarkIs
  <2>8. rows.gaps = Ranked(all) /\ rows.benchmarks = {bench(metric) : metric \in measured}
    BY <2>1
  <2> HIDE DEF all, bench, measured, rows
  <2> QED BY <2>6, <2>7, <2>8 DEF rows
<1> QED BY <1>1, <1>2

-------------------------------------------------------------------------------
\* The sum has the equation it is defined by.
LEMMA SumEquation ==
  ASSUME NEW f, IsFiniteSet(DOMAIN f)
  PROVE  \E sum : /\ SumOf(f) = sum[DOMAIN f]
                  /\ \A ids \in SUBSET DOMAIN f :
                       sum[ids] = IF ids = {} THEN 0
                                  ELSE LET id == CHOOSE id \in ids : TRUE IN
                                       f[id] + sum[ids \ {id}]
<1> DEFINE E == DOMAIN f
           Pick(S) == CHOOSE id \in S : TRUE
           Rest(S) == S \ {Pick(S)}
           UpTo(n) == {S \in SUBSET E : Cardinality(S) <= n}
           Value(g, S) == IF S = {} THEN 0 ELSE f[Pick(S)] + g[Rest(S)]
           Good(g, n) == g = [S \in UpTo(n) |-> Value(g, S)]
           Bad == {n \in Nat : ~ \E g : Good(g, n)}
<1>1. \A S \in SUBSET E : /\ IsFiniteSet(S) /\ Cardinality(S) \in Nat
                          /\ S # {} => Cardinality(Rest(S)) = Cardinality(S) - 1
  <2> SUFFICES ASSUME NEW S \in SUBSET E
               PROVE  /\ IsFiniteSet(S) /\ Cardinality(S) \in Nat
                      /\ S # {} => Cardinality(Rest(S)) = Cardinality(S) - 1
    OBVIOUS
  <2>1. IsFiniteSet(S) /\ Cardinality(S) \in Nat
    BY FS_Subset, FS_CardinalityType
  <2>2. S # {} => Pick(S) \in S
    OBVIOUS
  <2> HIDE DEF Pick
  <2> QED BY <2>1, <2>2, FS_RemoveElement
<1> HIDE DEF Pick
<1>2. \A S \in SUBSET E : Cardinality(S) <= Cardinality(E)
  BY FS_Subset
<1>3. Bad = {}
  <2> SUFFICES ASSUME Bad # {} PROVE FALSE
    OBVIOUS
  <2>1. PICK n \in Bad : \A k \in Bad : n <= k
    BY LeastNat
  <2>2. n # 0
    <3>1. UpTo(0) = {{}}
      <4>1. ASSUME NEW S \in SUBSET E PROVE Cardinality(S) <= 0 <=> S = {}
        <5>1. Cardinality(S) = 0 <=> S = {}
          BY <1>1, FS_EmptySet
        <5>2. Cardinality(S) \in Nat
          BY <1>1
        <5> QED BY <5>1, <5>2
      <4> QED BY <4>1
    <3> DEFINE g == [S \in UpTo(0) |-> 0]
    <3>2. g = [S \in UpTo(0) |-> Value(g, S)]
      BY <3>1
    <3>3. Good(g, 0)
      BY <3>2
    <3> HIDE DEF g, Good
    <3> QED BY <3>3, <2>1
  <2>3. PICK g : Good(g, n - 1)
    <3>1. Bad \subseteq Nat
      OBVIOUS
    <3>2. n - 1 \in Nat /\ n - 1 \notin Bad
      <4> HIDE DEF Bad
      <4> QED BY <3>1, <2>1, <2>2
    <3> QED BY <3>2
  <2> DEFINE h == [S \in UpTo(n) |-> Value(g, S)]
  <2>4. \A S \in UpTo(n) : Value(g, S) = Value(h, S)
    <3> SUFFICES ASSUME NEW S \in UpTo(n), S # {} PROVE g[Rest(S)] = h[Rest(S)]
      OBVIOUS
    <3>1. Rest(S) \in UpTo(n - 1) /\ Rest(S) \in UpTo(n)
      BY <1>1, <2>1, <2>2
    <3>2. h[Rest(S)] = Value(g, Rest(S))
      BY <3>1
    <3>3. g[Rest(S)] = Value(g, Rest(S))
      <4> HIDE DEF Value, UpTo, Rest
      <4> QED BY <3>1, <2>3
    <3> QED BY <3>2, <3>3
  <2>5. Good(h, n)
    <3> HIDE DEF Value, UpTo
    <3> QED BY <2>4
  <2> HIDE DEF h, Good
  <2> QED BY <2>1, <2>5
<1>4. \E g : g = [S \in SUBSET E |-> Value(g, S)]
  <2>1. Cardinality(E) \in Nat
    BY FS_CardinalityType
  <2>2. UpTo(Cardinality(E)) = SUBSET E
    BY <1>2, <1>1
  <2>3. PICK g : Good(g, Cardinality(E))
    BY <1>3, <2>1
  <2> HIDE DEF Value, UpTo
  <2> QED BY <2>2, <2>3
<1> DEFINE F == CHOOSE g : g = [S \in SUBSET E |-> Value(g, S)]
<1>5. SumOf(f) = F[E]
  BY DEF SumOf, Pick
<1>6. F = [S \in SUBSET E |-> Value(F, S)]
  <2> HIDE DEF Value
  <2> QED BY <1>4, Zenon
<1>7. \A S \in SUBSET E : F[S] = Value(F, S)
  <2> HIDE DEF F, Value
  <2> QED BY <1>6
<1> HIDE DEF F
<1>8. SumOf(f) = F[DOMAIN f]
      /\ \A ids \in SUBSET DOMAIN f :
            F[ids] = IF ids = {} THEN 0
                     ELSE LET id == CHOOSE id \in ids : TRUE IN f[id] + F[ids \ {id}]
  BY <1>5, <1>7 DEF Pick
<1> QED BY <1>8

\* A sum of numbers is a number, in whatever order they are added.
LEMMA SumIsInt ==
  ASSUME NEW f, IsFiniteSet(DOMAIN f), \A id \in DOMAIN f : f[id] \in Int
  PROVE  SumOf(f) \in Int
<1>1. PICK sum : /\ SumOf(f) = sum[DOMAIN f]
                 /\ \A ids \in SUBSET DOMAIN f :
                      sum[ids] = IF ids = {} THEN 0
                                 ELSE LET id == CHOOSE id \in ids : TRUE IN
                                      f[id] + sum[ids \ {id}]
  BY SumEquation
<1> DEFINE Bad == {n \in Nat : \E ids \in SUBSET DOMAIN f :
                                  Cardinality(ids) = n /\ sum[ids] \notin Int}
<1>2. Bad = {}
  <2> SUFFICES ASSUME Bad # {} PROVE FALSE
    OBVIOUS
  <2>1. PICK n \in Bad : \A k \in Bad : n <= k
    BY LeastNat
  <2>2. PICK ids \in SUBSET DOMAIN f : Cardinality(ids) = n /\ sum[ids] \notin Int
    BY <2>1
  <2>3. ids # {}
    BY <1>1, <2>2
  <2> DEFINE id == CHOOSE id \in ids : TRUE
  <2>4. id \in ids
    BY <2>3
  <2>5. sum[ids] = f[id] + sum[ids \ {id}]
    BY <1>1, <2>3
  <2> HIDE DEF id
  <2>6. Cardinality(ids \ {id}) = n - 1 /\ n - 1 \in Nat
    <3>1. IsFiniteSet(ids) /\ IsFiniteSet(ids \ {id})
      BY FS_Subset
    <3>2. Cardinality(ids \ {id}) \in Nat
      BY <3>1, FS_CardinalityType
    <3> QED BY <2>2, <2>4, <3>1, <3>2, FS_RemoveElement
  <2>7. n - 1 \notin Bad
    <3>1. n \in Nat
      BY <2>1
    <3> HIDE DEF Bad
    <3> QED BY <2>1, <3>1
  <2>8. sum[ids \ {id}] \in Int
    BY <2>6, <2>7
  <2> QED BY <2>2, <2>4, <2>5, <2>8
<1>3. Cardinality(DOMAIN f) \in Nat
  BY FS_CardinalityType
<1> QED BY <1>1, <1>2, <1>3
-------------------------------------------------------------------------------
\* The quotient of a share is at most the scale.
LEMMA DivBounds ==
  ASSUME NEW x \in Int, NEW y \in Int, y > 0, NEW k \in Nat, 0 <= x, x < (k + 1) * y
  PROVE  x \div y \in 0..k
<1> DEFINE q == x \div y
<1>1. q \in Int /\ q * y <= x /\ x < (q + 1) * y
  OBVIOUS
<1> HIDE DEF q
<1>2. \A a, b \in Int : a >= b => a * y >= b * y
  OBVIOUS
<1>3. q <= k
  <2> SUFFICES ASSUME q >= k + 1 PROVE FALSE
    BY <1>1
  <2>1. q * y >= (k + 1) * y
    BY <1>1, <1>2
  <2>2. q * y \in Int /\ (k + 1) * y \in Int
    BY <1>1
  <2> QED BY <1>1, <2>1, <2>2
<1>4. 0 <= q
  <2> SUFFICES ASSUME q + 1 <= 0 PROVE FALSE
    BY <1>1
  <2>1. 0 * y >= (q + 1) * y
    BY <1>1, <1>2
  <2>2. 0 * y = 0 /\ (q + 1) * y \in Int
    BY <1>1
  <2> QED BY <1>1, <2>1, <2>2
<1> QED BY <1>1, <1>3, <1>4 DEF q

\* A metric is null exactly when it divides by nothing; a share is at most one.
LEMMA MetricIs ==
  ASSUME None \notin Int, NEW n \in Int, NEW d \in Nat
  PROVE  /\ Metric(n, d).value \in Int \cup {None}
         /\ Metric(n, d).value = None <=> Metric(n, d).denominator = 0
         /\ 0 <= n /\ n <= d => Metric(n, d).value \in (0..Scale) \cup {None}
         /\ Metric(n, d).numerator = n /\ Metric(n, d).denominator = d
<1>1. CASE d = 0
  BY <1>1 DEF Metric
<1>2. CASE d # 0
  <2>1. Rounded(n, d) \in Int
    BY <1>2, RoundedIsInt
  <2>2. ASSUME 0 <= n, n <= d
        PROVE  Rounded(n, d) \in 0..Scale
    <3> DEFINE x == 2 * n * Scale + d
    <3>1. x \in Int /\ 0 <= x /\ x < (Scale + 1) * (2 * d) /\ Scale \in Nat /\ 2 * d > 0
      BY <1>2, <2>2 DEF Scale
    <3> HIDE DEF x
    <3>2. x \div (2 * d) \in 0..Scale
      BY <3>1, DivBounds
    <3> QED BY <3>2 DEF Rounded, x
  <2> QED BY <1>2, <2>1, <2>2 DEF Metric
<1> QED BY <1>1, <1>2

\* What the metrics read of the tables.
Readable(m) ==
  /\ IsFiniteSet(DOMAIN m.orders) /\ IsFiniteSet(DOMAIN m.carts)
  /\ IsFiniteSet(DOMAIN m.refunds) /\ IsFiniteSet(DOMAIN m.labels)
  /\ \A id \in DOMAIN m.orders : m.orders[id].amount \in Int \cup {None}
  /\ \A i \in DOMAIN m.labels : m.labels[i].payCnt90d \in Nat

\* The four metrics of any tables that can be read.
LEMMA MetricsAre ==
  ASSUME None \notin Int, NEW m, Readable(m), NEW store
  PROVE  LET metrics == Metrics(m, store) IN
         /\ \A id \in MetricIds :
              /\ metrics[id].value \in Int \cup {None}
              /\ metrics[id].value = None <=> metrics[id].denominator = 0
         /\ \A id \in {"repurchase_90d_rate", "checkout_started_cart_rate"} :
              metrics[id].value \in (0..Scale) \cup {None}
<1> DEFINE orders == PaidOrders(m, store)
           carts == IdsOf(m.carts, store)
           started == {c \in carts : m.carts[c].status = "checkout_started"}
           refunds == IdsOf(m.refunds, store)
           once == {i \in LabelsOf(m, store) : m.labels[i].payCnt90d >= 1}
           twice == {i \in LabelsOf(m, store) : m.labels[i].payCnt90d >= 2}
           amounts == [id \in orders |-> m.orders[id].amount]
<1>1. /\ orders \subseteq DOMAIN m.orders /\ carts \subseteq DOMAIN m.carts
      /\ started \subseteq carts /\ refunds \subseteq DOMAIN m.refunds
      /\ once \subseteq DOMAIN m.labels
  BY DEF PaidOrders, IdsOf, LabelsOf
<1>2. twice \subseteq once
  BY DEF LabelsOf, Readable
<1>3. \A id \in orders : m.orders[id].amount \in Int
  BY DEF PaidOrders, IdsOf, Readable
<1>4. Metrics(m, store) =
        [repurchase_90d_rate |-> Metric(Cardinality(twice), Cardinality(once)),
         avg_order_value |-> Metric(SumOf(amounts), Cardinality(orders)),
         refund_rate |-> Metric(Cardinality(refunds), Cardinality(orders)),
         checkout_started_cart_rate |-> Metric(Cardinality(started), Cardinality(carts))]
  BY DEF Metrics
<1>5. DOMAIN amounts = orders /\ \A id \in orders : amounts[id] \in Int
  BY <1>3
<1> HIDE DEF orders, carts, started, refunds, once, twice, amounts
<1>6. /\ IsFiniteSet(orders) /\ IsFiniteSet(carts) /\ IsFiniteSet(started)
      /\ IsFiniteSet(refunds) /\ IsFiniteSet(once) /\ IsFiniteSet(twice)
  BY <1>1, <1>2, FS_Subset DEF Readable
<1>7. /\ Cardinality(orders) \in Nat /\ Cardinality(refunds) \in Nat
      /\ Cardinality(carts) \in Nat /\ Cardinality(started) \in Nat
      /\ Cardinality(once) \in Nat /\ Cardinality(twice) \in Nat
  BY <1>6, FS_CardinalityType
<1>8. Cardinality(started) <= Cardinality(carts) /\ Cardinality(twice) <= Cardinality(once)
  BY <1>1, <1>2, <1>6, FS_Subset
<1>9. SumOf(amounts) \in Int
  BY <1>5, <1>6, SumIsInt
<1> DEFINE repurchase == Metric(Cardinality(twice), Cardinality(once))
           average == Metric(SumOf(amounts), Cardinality(orders))
           refunded == Metric(Cardinality(refunds), Cardinality(orders))
           checkout == Metric(Cardinality(started), Cardinality(carts))
           Fine(x) == x.value \in Int \cup {None} /\ (x.value = None <=> x.denominator = 0)
           Share(x) == x.value \in (0..Scale) \cup {None}
<1>10. Fine(repurchase) /\ Share(repurchase)
  BY <1>7, <1>8, MetricIs
<1>11. Fine(average)
  BY <1>7, <1>9, MetricIs
<1>12. Fine(refunded)
  BY <1>7, MetricIs
<1>13. Fine(checkout) /\ Share(checkout)
  BY <1>7, <1>8, MetricIs
<1> HIDE DEF repurchase, average, refunded, checkout, Fine, Share
<1>14. /\ Metrics(m, store)["repurchase_90d_rate"] = repurchase
       /\ Metrics(m, store)["avg_order_value"] = average
       /\ Metrics(m, store)["refund_rate"] = refunded
       /\ Metrics(m, store)["checkout_started_cart_rate"] = checkout
  BY <1>4 DEF repurchase, average, refunded, checkout
<1>15. \A id \in MetricIds : Fine(Metrics(m, store)[id])
  BY <1>10, <1>11, <1>12, <1>13, <1>14 DEF MetricIds
<1>16. \A id \in {"repurchase_90d_rate", "checkout_started_cart_rate"} :
         Share(Metrics(m, store)[id])
  BY <1>10, <1>13, <1>14
<1> QED BY <1>15, <1>16 DEF Fine, Share
-------------------------------------------------------------------------------
EventRead(e) == e.id \in Int /\ e.time \in Int /\ e.amount \in Int \cup {None}

\* The rows of each table have their fields, and the values that the tables of 0002 and the
\* metrics need.
Dated(row) == row.first \in Int /\ row.last \in Int /\ row.first <= row.last
SessionsFit(t) == \A id \in DOMAIN t : DOMAIN t[id] = DOMAIN BlankSession /\ Dated(t[id])
MembersFit(t) == \A id \in DOMAIN t : DOMAIN t[id] = DOMAIN BlankMember /\ Dated(t[id])
ProfilesFit(t) == \A id \in DOMAIN t : DOMAIN t[id] = DOMAIN BlankProfile
MenusFit(t) == \A id \in DOMAIN t : DOMAIN t[id] = DOMAIN BlankMenu
ItemsFit(t, menus) ==
  \A id \in DOMAIN t : DOMAIN t[id] = DOMAIN BlankItem /\ t[id].menu \in DOMAIN menus \cup {None}
CartsFit(t) ==
  IsFiniteSet(DOMAIN t) /\ None \notin DOMAIN t
  /\ \A id \in DOMAIN t : DOMAIN t[id] = DOMAIN BlankCart /\ t[id].status # None
OrderFits(row) ==
  DOMAIN row = DOMAIN BlankOrder /\ row.status # None /\ row.amount \in Int \cup {None}
OrdersFit(t) == IsFiniteSet(DOMAIN t) /\ \A id \in DOMAIN t : OrderFits(t[id])
LinesFit(t, orders) == \A id \in DOMAIN t : t[id].order \in orders

GeneralFit(m) ==
  /\ DOMAIN m = Tables
  /\ SessionsFit(m.sessions) /\ MembersFit(m.members) /\ ProfilesFit(m.profiles)
  /\ MenusFit(m.menus) /\ ItemsFit(m.items, m.menus)
  /\ DOMAIN m.profiles \subseteq DOMAIN m.members
SpecialFit(m) ==
  /\ CartsFit(m.carts) /\ OrdersFit(m.orders) /\ IsFiniteSet(DOMAIN m.refunds)
  /\ LinesFit(m.lines, DOMAIN m.orders) /\ LinesFit(m.payments, DOMAIN m.orders)
Fits(m) == GeneralFit(m) /\ SpecialFit(m)

\* u is t with the rows of new, and with a row put at id.
IsOver(u, new, t) ==
  /\ DOMAIN u = DOMAIN new \cup DOMAIN t
  /\ \A id \in DOMAIN new : u[id] = new[id]
  /\ \A id \in DOMAIN t : id \notin DOMAIN new => u[id] = t[id]
IsPut(u, t, id, row) ==
  /\ DOMAIN u = DOMAIN t \cup {id}
  /\ u[id] = row
  /\ \A x \in DOMAIN t : x # id => u[x] = t[x]

\* Laying rows over a table, row by row.
LEMMA OverIs ==
  ASSUME NEW new, NEW t
  PROVE  IsOver(Over(new, t), new, t)
BY DEF Over, IsOver

\* Putting one row, likewise.
LEMMA PutIs ==
  ASSUME NEW t, NEW id, NEW row
  PROVE  IsPut(Put(t, id, row), t, id, row)
<1> DEFINE new == [key \in {id} |-> row]
           put == Over(new, t)
<1>1. DOMAIN new = {id} /\ new[id] = row
  OBVIOUS
<1>2. Put(t, id, row) = put
  BY DEF Put
<1> HIDE DEF new
<1>3. IsOver(put, new, t)
  BY OverIs
<1> HIDE DEF put
<1>4. IsPut(put, t, id, row)
  BY <1>1, <1>3 DEF IsOver, IsPut
<1> QED BY <1>2, <1>4

LEMMA RowIs ==
  ASSUME NEW t, NEW id, NEW blank
  PROVE  /\ id \in DOMAIN t => Row(t, id, blank) = t[id]
         /\ id \notin DOMAIN t => Row(t, id, blank) = blank
BY DEF Row

\* Dates only widen what is between them.
LEMMA DatesWiden ==
  ASSUME None \notin Int, NEW first, NEW last, NEW time \in Int,
         \/ first = None /\ last = None
         \/ first \in Int /\ last \in Int /\ first <= last
  PROVE  /\ Earlier(first, time) \in Int /\ Later(last, time) \in Int
         /\ Earlier(first, time) <= Later(last, time)
<1>1. CASE first = None /\ last = None
  BY <1>1 DEF Earlier, Later
<1>2. CASE first \in Int /\ last \in Int /\ first <= last
  <2>1. first # None /\ last # None /\ time # None
    BY <1>2
  <2> QED BY <1>2, <2>1 DEF Earlier, Later
<1> QED BY <1>1, <1>2

\* Sessions are kept by upsertSession, and only they change.
LEMMA SessionsKeep ==
  ASSUME None \notin Int, NEW m, DOMAIN m = Tables, SessionsFit(m.sessions),
         NEW e, EventRead(e)
  PROVE  /\ DOMAIN Sessions(m, e) = Tables
         /\ \A t \in Tables \ {"sessions"} : Sessions(m, e)[t] = m[t]
         /\ SessionsFit(Sessions(m, e).sessions)
<1>1. CASE e.session = None
  BY <1>1 DEF Sessions
<1>2. CASE e.session # None
  <2> DEFINE old == Row(m.sessions, e.session, BlankSession)
             row == SessionRow(m.sessions, e)
             new == Put(m.sessions, e.session, row)
  <2>1. Sessions(m, e) = [m EXCEPT !.sessions = new]
    BY <1>2 DEF Sessions
  <2>2. DOMAIN old = DOMAIN BlankSession
        /\ (\/ old.first = None /\ old.last = None
            \/ old.first \in Int /\ old.last \in Int /\ old.first <= old.last)
    <3>1. CASE e.session \in DOMAIN m.sessions
      BY <3>1, RowIs DEF SessionsFit, Dated
    <3>2. CASE e.session \notin DOMAIN m.sessions
      <4>1. old = BlankSession
        BY <3>2, RowIs
      <4> QED BY <4>1 DEF BlankSession
    <3> QED BY <3>1, <3>2
  <2>3. DOMAIN BlankSession = {"store", "sources", "member", "first", "last"}
    BY DEF BlankSession
  <2> HIDE DEF old
  <2>4. DOMAIN row = DOMAIN BlankSession /\ row.first = Earlier(old.first, e.time)
        /\ row.last = Later(old.last, e.time)
    <3>1. row = [Seen(old, e) EXCEPT
                   !.member = Or(@, e.member), !.first = Earlier(@, e.time),
                   !.last = Later(@, e.time)]
      BY DEF SessionRow, old
    <3> HIDE DEF row
    <3> QED BY <3>1, <2>2, <2>3 DEF Seen
  <2>5. Dated(row)
    <3> HIDE DEF row
    <3> QED BY <2>2, <2>4, DatesWiden DEF Dated, EventRead
  <2> HIDE DEF row
  <2>6. SessionsFit(new)
    <3>1. IsPut(new, m.sessions, e.session, row)
      BY PutIs
    <3> HIDE DEF new
    <3> QED BY <3>1, <2>4, <2>5 DEF SessionsFit, IsPut
  <2> HIDE DEF new
  <2> QED BY <2>1, <2>6 DEF Tables
<1> QED BY <1>1, <1>2

\* Members and profiles are written together, so no profile is without its member.
LEMMA MembersKeep ==
  ASSUME None \notin Int, NEW m, DOMAIN m = Tables, MembersFit(m.members),
         ProfilesFit(m.profiles), DOMAIN m.profiles \subseteq DOMAIN m.members,
         NEW e, EventRead(e)
  PROVE  LET n == Members(m, e) IN
         /\ DOMAIN n = Tables
         /\ \A t \in Tables \ {"members", "profiles"} : n[t] = m[t]
         /\ MembersFit(n.members) /\ ProfilesFit(n.profiles)
         /\ DOMAIN n.profiles \subseteq DOMAIN n.members
         /\ DOMAIN n.profiles = DOMAIN m.profiles \cup ({e.member} \ {None})
         /\ \A id \in DOMAIN n.profiles :
              n.profiles[id].order = IF id \in DOMAIN m.profiles THEN m.profiles[id].order ELSE None
<1>1. CASE e.member = None
  BY <1>1 DEF Members
<1>2. CASE e.member # None
  <2> DEFINE old == Row(m.members, e.member, BlankMember)
             row == MemberRow(m.members, e)
             was == Row(m.profiles, e.member, BlankProfile)
             profile == ProfileRow(m.profiles, e)
             new == Put(m.members, e.member, row)
             kept == Put(m.profiles, e.member, profile)
  <2>1. /\ DOMAIN Members(m, e) = Tables
        /\ Members(m, e).members = new /\ Members(m, e).profiles = kept
        /\ \A t \in Tables \ {"members", "profiles"} : Members(m, e)[t] = m[t]
    <3>1. DOMAIN Members(m, e) = Tables
      BY <1>2 DEF Members, Tables
    <3>2. Members(m, e).members = new
      BY <1>2 DEF Members, Tables
    <3>3. Members(m, e).profiles = kept
      BY <1>2 DEF Members, Tables
    <3>4. \A t \in Tables \ {"members", "profiles"} : Members(m, e)[t] = m[t]
      BY <1>2 DEF Members, Tables
    <3> QED BY <3>1, <3>2, <3>3, <3>4
  <2>2. DOMAIN old = DOMAIN BlankMember
        /\ (\/ old.first = None /\ old.last = None
            \/ old.first \in Int /\ old.last \in Int /\ old.first <= old.last)
    <3>1. CASE e.member \in DOMAIN m.members
      BY <3>1, RowIs DEF MembersFit, Dated
    <3>2. CASE e.member \notin DOMAIN m.members
      <4>1. old = BlankMember
        BY <3>2, RowIs
      <4> QED BY <4>1 DEF BlankMember
    <3> QED BY <3>1, <3>2
  <2>3. DOMAIN BlankMember = {"store", "sources", "first", "last"}
    BY DEF BlankMember
  <2>4. DOMAIN BlankProfile = {"store", "sources", "order", "paid"} /\ BlankProfile.order = None
    BY DEF BlankProfile
  <2>5. DOMAIN was = DOMAIN BlankProfile
        /\ was.order = IF e.member \in DOMAIN m.profiles THEN m.profiles[e.member].order ELSE None
    BY <2>4, RowIs DEF ProfilesFit
  <2> HIDE DEF old
  <2>6. DOMAIN row = DOMAIN BlankMember /\ row.first = Earlier(old.first, e.time)
        /\ row.last = Later(old.last, e.time)
    <3>1. row = [Seen(old, e) EXCEPT
                   !.first = Earlier(@, e.time), !.last = Later(@, e.time)]
      BY DEF MemberRow, old
    <3> HIDE DEF row
    <3> QED BY <3>1, <2>2, <2>3 DEF Seen
  <2>7. Dated(row)
    <3> HIDE DEF row
    <3> QED BY <2>2, <2>6, DatesWiden DEF Dated, EventRead
  <2>8. DOMAIN profile = DOMAIN BlankProfile /\ profile.order = was.order
    <3>1. profile = Seen(was, e)
      BY DEF ProfileRow
    <3> HIDE DEF was, profile
    <3> QED BY <3>1, <2>4, <2>5 DEF Seen
  <2> HIDE DEF row, was, profile
  <2>9. MembersFit(new) /\ DOMAIN new = DOMAIN m.members \cup {e.member}
    <3>1. IsPut(new, m.members, e.member, row)
      BY PutIs
    <3> HIDE DEF new
    <3> QED BY <3>1, <2>6, <2>7 DEF MembersFit, IsPut
  <2>10. /\ ProfilesFit(kept) /\ DOMAIN kept = DOMAIN m.profiles \cup {e.member}
         /\ \A id \in DOMAIN kept :
              kept[id].order = IF id \in DOMAIN m.profiles THEN m.profiles[id].order ELSE None
    <3>1. IsPut(kept, m.profiles, e.member, profile)
      BY PutIs
    <3> HIDE DEF kept
    <3> QED BY <3>1, <2>5, <2>8 DEF ProfilesFit, IsPut
  <2> HIDE DEF new, kept
  <2> QED BY <1>2, <2>1, <2>9, <2>10
<1> QED BY <1>1, <1>2

\* An item's menu is one the same event writes.
LEMMA MenuOfAnItem ==
  ASSUME NEW e, NEW item
  PROVE  MenuFor(e, item) \in MenusOf(e) \cup {None}
<1> DEFINE mine == IF item = e.item THEN e.menu ELSE None
           line == CHOOSE line \in e.lines : line.item = item
           its == IF item \in LineItems(e) THEN Or(line.menu, e.menu) ELSE None
<1>1. mine \in MenusOf(e) \cup {None} /\ e.menu \in MenusOf(e) \cup {None}
  BY DEF MenusOf
<1>2. its \in MenusOf(e) \cup {None}
  <2>1. CASE item \in LineItems(e)
    <3>1. PICK x \in e.lines : x.item = item
      BY <2>1 DEF LineItems
    <3>2. line \in e.lines
      BY <3>1
    <3> HIDE DEF line
    <3>3. line.menu \in MenusOf(e) \cup {None}
      BY <3>2 DEF MenusOf
    <3> QED BY <2>1, <3>3, <1>1 DEF Or
  <2> QED BY <2>1
<1>3. MenuFor(e, item) = Or(mine, its)
  BY DEF MenuFor
<1> HIDE DEF mine, its
<1> QED BY <1>1, <1>2, <1>3 DEF Or

\* Menus and items are written together, so no item is without its menu.
LEMMA MenuItemsKeep ==
  ASSUME None \notin Int, NEW m, DOMAIN m = Tables, MenusFit(m.menus), ItemsFit(m.items, m.menus),
         NEW e
  PROVE  LET n == MenuItems(m, e) IN
         /\ DOMAIN n = Tables
         /\ \A t \in Tables \ {"menus", "items"} : n[t] = m[t]
         /\ MenusFit(n.menus) /\ ItemsFit(n.items, n.menus)
<1> DEFINE n == MenuItems(m, e)
<1>1. CASE e.name \notin {"menu_item_viewed", "cart_updated"} /\ e.lines = {}
  BY <1>1 DEF MenuItems
<1>2. CASE ~ (e.name \notin {"menu_item_viewed", "cart_updated"} /\ e.lines = {})
  <2> DEFINE menus == SeenMenus(m.menus, e)
             items == SeenItems(m.items, e)
             newMenus == Over(menus, m.menus)
             newItems == Over(items, m.items)
  <2>1. n = [m EXCEPT !.menus = newMenus, !.items = newItems]
    BY <1>2 DEF MenuItems
  <2>2. MenusFit(newMenus) /\ DOMAIN newMenus = MenusOf(e) \cup DOMAIN m.menus
    <3>1. \A id \in MenusOf(e) : DOMAIN menus[id] = DOMAIN BlankMenu
      <4> TAKE id \in MenusOf(e)
      <4>1. DOMAIN Row(m.menus, id, BlankMenu) = DOMAIN BlankMenu
        BY DEF MenusFit, Row
      <4>2. DOMAIN Seen(Row(m.menus, id, BlankMenu), e) = DOMAIN BlankMenu
        BY <4>1 DEF Seen
      <4> QED BY <4>2 DEF SeenMenus
    <3>2. DOMAIN menus = MenusOf(e)
      BY DEF SeenMenus
    <3> HIDE DEF menus
    <3>3. IsOver(newMenus, menus, m.menus)
      BY OverIs
    <3> HIDE DEF newMenus
    <3> QED BY <3>1, <3>2, <3>3 DEF IsOver, MenusFit
  <2>3. ItemsFit(newItems, newMenus)
    <3>1. ASSUME NEW id \in ItemsOf(e)
          PROVE  /\ DOMAIN items[id] = DOMAIN BlankItem
                 /\ items[id].menu \in DOMAIN newMenus \cup {None}
      <4> DEFINE old == Row(m.items, id, BlankItem)
                 row == [Seen(old, e) EXCEPT !.menu = Or(@, MenuFor(e, id))]
      <4>1. DOMAIN BlankItem = {"store", "sources", "menu"} /\ BlankItem.menu = None
        BY DEF BlankItem
      <4>2. DOMAIN old = DOMAIN BlankItem /\ old.menu \in DOMAIN m.menus \cup {None}
        BY <4>1, RowIs DEF ItemsFit
      <4> HIDE DEF old
      <4>3. DOMAIN row = DOMAIN BlankItem /\ row.menu = Or(old.menu, MenuFor(e, id))
        BY <4>1, <4>2 DEF Seen
      <4>4. items[id] = row
        BY DEF old, SeenItems
      <4> HIDE DEF row, items
      <4>5. MenuFor(e, id) \in DOMAIN newMenus \cup {None}
        BY <2>2, MenuOfAnItem
      <4> QED BY <2>2, <4>2, <4>3, <4>4, <4>5 DEF Or
    <3>2. DOMAIN items = ItemsOf(e)
      BY DEF SeenItems
    <3> HIDE DEF items
    <3>3. IsOver(newItems, items, m.items)
      BY OverIs
    <3> HIDE DEF newItems, newMenus
    <3> QED BY <2>2, <3>1, <3>2, <3>3 DEF IsOver, ItemsFit
  <2> HIDE DEF newItems, newMenus, n
  <2>4. DOMAIN n = Tables /\ n.menus = newMenus /\ n.items = newItems
        /\ \A t \in Tables \ {"menus", "items"} : n[t] = m[t]
    BY <2>1 DEF Tables
  <2> QED BY <2>2, <2>3, <2>4 DEF n
<1> QED BY <1>1, <1>2
-------------------------------------------------------------------------------
General(m, e) == MenuItems(Members(Sessions(m, e), e), e)
SpecialTables ==
  {"carts", "orders", "lines", "payments", "refunds", "actions", "attribution", "labels"}

\* What every event does before its own kind is looked at.
LEMMA GeneralIs ==
  ASSUME None \notin Int, NEW m, GeneralFit(m), NEW e, EventRead(e)
  PROVE  LET g == General(m, e) IN
         /\ GeneralFit(g)
         /\ \A t \in SpecialTables : g[t] = m[t]
         /\ DOMAIN g.profiles = DOMAIN m.profiles \cup ({e.member} \ {None})
         /\ \A id \in DOMAIN g.profiles :
              g.profiles[id].order = IF id \in DOMAIN m.profiles THEN m.profiles[id].order ELSE None
<1> DEFINE a == Sessions(m, e)
           b == Members(a, e)
           c == MenuItems(b, e)
<1>1. /\ DOMAIN a = Tables
      /\ \A t \in Tables \ {"sessions"} : a[t] = m[t]
      /\ SessionsFit(a.sessions)
  BY SessionsKeep DEF GeneralFit
<1> HIDE DEF a
<1>2. a.members = m.members /\ a.profiles = m.profiles /\ a.menus = m.menus /\ a.items = m.items
  BY <1>1 DEF Tables
<1>3. /\ DOMAIN b = Tables
      /\ \A t \in Tables \ {"members", "profiles"} : b[t] = a[t]
      /\ MembersFit(b.members) /\ ProfilesFit(b.profiles)
      /\ DOMAIN b.profiles \subseteq DOMAIN b.members
      /\ DOMAIN b.profiles = DOMAIN m.profiles \cup ({e.member} \ {None})
      /\ \A id \in DOMAIN b.profiles :
           b.profiles[id].order = IF id \in DOMAIN m.profiles THEN m.profiles[id].order ELSE None
  BY <1>1, <1>2, MembersKeep DEF GeneralFit
<1> HIDE DEF b
<1>4. b.menus = m.menus /\ b.items = m.items
  BY <1>2, <1>3 DEF Tables
<1>5. /\ DOMAIN c = Tables
      /\ \A t \in Tables \ {"menus", "items"} : c[t] = b[t]
      /\ MenusFit(c.menus) /\ ItemsFit(c.items, c.menus)
  BY <1>3, <1>4, MenuItemsKeep DEF GeneralFit
<1>6. General(m, e) = c
  BY DEF General, a, b
<1> HIDE DEF c
<1>7. c.sessions = a.sessions /\ c.members = b.members /\ c.profiles = b.profiles
  BY <1>3, <1>5 DEF Tables
<1>8. \A t \in SpecialTables : c[t] = m[t]
  BY <1>1, <1>3, <1>5 DEF Tables, SpecialTables
<1> QED BY <1>1, <1>3, <1>5, <1>6, <1>7, <1>8 DEF GeneralFit

\* What an event does to each of the other tables.
OrderEvent(e) == e.name \in {"order_opened", "order_paid"} /\ e.order # None
RefundEvent(e) == e.name = "refund_recorded" /\ None \notin {e.order, e.refund, e.amount}
CartsAfter(t, e) ==
  IF e.cart = None THEN t
  ELSE IF e.name = "cart_updated" THEN Put(t, e.cart, UpdatedRow(t, e))
  ELSE IF e.name = "checkout_started" THEN Put(t, e.cart, CheckoutRow(t, e))
  ELSE t
AttributionAfter(t, e) ==
  IF e.name = "checkout_started" /\ e.order # None
  THEN Put(t, e.order, Row(t, e.order, {}) \cup {e.id}) ELSE t
OrdersAfter(t, e) ==
  IF OrderEvent(e) THEN Put(t, e.order, OrderRow(Row(t, e.order, BlankOrder), e))
  ELSE IF RefundEvent(e) THEN RefundedOrders(t, e) ELSE t
LinesAfter(t, e) == IF OrderEvent(e) THEN Over(LinesOf(e), t) ELSE t
PaymentsAfter(t, orders, e) ==
  LET amount == AmountAfter(Row(orders, e.order, BlankOrder), e) IN
  IF OrderEvent(e) /\ e.name = "order_paid" /\ amount # None
  THEN Put(t, <<e.order, "payment">>, PaymentRow(amount, e)) ELSE t
ProfilesAfter(t, e) ==
  IF OrderEvent(e) /\ e.name = "order_paid" /\ e.member # None
  THEN Put(t, e.member, PaidProfileRow(t, e)) ELSE t
RefundsAfter(t, e) ==
  IF RefundEvent(e) THEN Put(t, e.refund, PaymentRow(e.amount, e)) ELSE t
ActionsAfter(t, e) ==
  IF e.name \in DOMAIN ActionNames /\ e.plan # None
  THEN Put(t, <<e.plan, ActionNames[e.name], e.id>>,
           [plan |-> e.plan, store |-> e.store, action |-> ActionNames[e.name],
            at |-> e.time, source |-> e.id])
  ELSE t

EventDoes(g, n, e) ==
  /\ DOMAIN n = Tables
  /\ n.carts = CartsAfter(g.carts, e) /\ n.attribution = AttributionAfter(g.attribution, e)
  /\ n.orders = OrdersAfter(g.orders, e) /\ n.lines = LinesAfter(g.lines, e)
  /\ n.payments = PaymentsAfter(g.payments, g.orders, e)
  /\ n.profiles = ProfilesAfter(g.profiles, e)
  /\ n.refunds = RefundsAfter(g.refunds, e) /\ n.actions = ActionsAfter(g.actions, e)
  /\ n.sessions = g.sessions /\ n.members = g.members /\ n.menus = g.menus
  /\ n.items = g.items /\ n.labels = g.labels

\* What each kind of event does to each table, one lemma for each handler.
LEMMA CartDoes ==
  ASSUME NEW g, DOMAIN g = Tables, NEW e, e.name = "cart_updated"
  PROVE  EventDoes(g, Cart(g, e), e)
<1>1. /\ ~ OrderEvent(e) /\ ~ RefundEvent(e) /\ e.name # "checkout_started"
      /\ e.name \notin DOMAIN ActionNames
  BY DEF OrderEvent, RefundEvent, ActionNames
<1>2. CASE e.cart = None
  <2>1. Cart(g, e) = g
    BY <1>2 DEF Cart
  <2> QED BY <1>1, <1>2, <2>1
      DEF EventDoes, CartsAfter, AttributionAfter, OrdersAfter, LinesAfter, PaymentsAfter,
          ProfilesAfter, RefundsAfter, ActionsAfter
<1>3. CASE e.cart # None
  <2> DEFINE new == CartsAfter(g.carts, e)
  <2>1. Cart(g, e) = [g EXCEPT !.carts = new]
    BY <1>3 DEF Cart, CartsAfter
  <2> HIDE DEF new
  <2>2. /\ DOMAIN Cart(g, e) = Tables /\ Cart(g, e).carts = new
        /\ \A t \in Tables \ {"carts"} : Cart(g, e)[t] = g[t]
    BY <2>1 DEF Tables
  <2> DEFINE n == Cart(g, e)
  <2> HIDE DEF n
  <2> QED BY <1>1, <2>2
      DEF EventDoes, AttributionAfter, OrdersAfter, LinesAfter, PaymentsAfter,
          ProfilesAfter, RefundsAfter, ActionsAfter, Tables, n, new
<1> QED BY <1>2, <1>3

LEMMA CheckoutDoes ==
  ASSUME NEW g, DOMAIN g = Tables, NEW e, e.name = "checkout_started"
  PROVE  EventDoes(g, CheckoutAttribution(g, e), e)
<1>1. /\ ~ OrderEvent(e) /\ ~ RefundEvent(e) /\ e.name # "cart_updated"
      /\ e.name \notin DOMAIN ActionNames
  BY DEF OrderEvent, RefundEvent, ActionNames
<1> DEFINE carts == CartsAfter(g.carts, e)
           attribution == AttributionAfter(g.attribution, e)
           n == CheckoutAttribution(g, e)
<1>2. n = [g EXCEPT !.carts = carts, !.attribution = attribution]
  BY <1>1 DEF CheckoutAttribution, CartsAfter, AttributionAfter
<1> HIDE DEF carts, attribution, n
<1>3. /\ DOMAIN n = Tables /\ n.carts = carts /\ n.attribution = attribution
      /\ \A t \in Tables \ {"carts", "attribution"} : n[t] = g[t]
  BY <1>2 DEF Tables
<1>4. EventDoes(g, n, e)
  BY <1>1, <1>3
  DEF EventDoes, OrdersAfter, LinesAfter, PaymentsAfter, ProfilesAfter, RefundsAfter,
      ActionsAfter, Tables, carts, attribution
<1> QED BY <1>4 DEF n

LEMMA OrderDoes ==
  ASSUME NEW g, DOMAIN g = Tables, NEW e, e.name \in {"order_opened", "order_paid"}
  PROVE  EventDoes(g, Order(g, e), e)
<1>1. /\ ~ RefundEvent(e) /\ e.name # "cart_updated" /\ e.name # "checkout_started"
      /\ e.name \notin DOMAIN ActionNames
  BY DEF RefundEvent, ActionNames
<1>2. CASE e.order = None
  <2>1. Order(g, e) = g
    BY <1>2 DEF Order
  <2>2. ~ OrderEvent(e)
    BY <1>2 DEF OrderEvent
  <2> QED BY <1>1, <2>1, <2>2
      DEF EventDoes, CartsAfter, AttributionAfter, OrdersAfter, LinesAfter, PaymentsAfter,
          ProfilesAfter, RefundsAfter, ActionsAfter
<1>3. CASE e.order # None
  <2> DEFINE orders == OrdersAfter(g.orders, e)
             lines == LinesAfter(g.lines, e)
             payments == PaymentsAfter(g.payments, g.orders, e)
             profiles == ProfilesAfter(g.profiles, e)
             n == Order(g, e)
  <2>1. OrderEvent(e)
    BY <1>3 DEF OrderEvent
  <2>2. n = [g EXCEPT !.orders = orders, !.lines = lines, !.payments = payments,
                      !.profiles = profiles]
    BY <1>3, <2>1 DEF Order, OrdersAfter, LinesAfter, PaymentsAfter, ProfilesAfter
  <2> HIDE DEF orders, lines, payments, profiles, n
  <2>3. /\ DOMAIN n = Tables /\ n.orders = orders /\ n.lines = lines
        /\ n.payments = payments /\ n.profiles = profiles
        /\ \A t \in Tables \ {"orders", "lines", "payments", "profiles"} : n[t] = g[t]
    BY <2>2 DEF Tables
  <2>4. EventDoes(g, n, e)
    BY <1>1, <2>3
    DEF EventDoes, CartsAfter, AttributionAfter, RefundsAfter, ActionsAfter, Tables,
        orders, lines, payments, profiles
  <2> QED BY <2>4 DEF n
<1> QED BY <1>2, <1>3

LEMMA RefundDoes ==
  ASSUME NEW g, DOMAIN g = Tables, NEW e, e.name = "refund_recorded"
  PROVE  EventDoes(g, Refund(g, e), e)
<1>1. /\ ~ OrderEvent(e) /\ e.name # "cart_updated" /\ e.name # "checkout_started"
      /\ e.name \notin DOMAIN ActionNames
  BY DEF OrderEvent, ActionNames
<1>2. CASE ~ RefundEvent(e)
  <2>1. Refund(g, e) = g
    BY <1>2 DEF Refund, RefundEvent
  <2> QED BY <1>1, <1>2, <2>1
      DEF EventDoes, CartsAfter, AttributionAfter, OrdersAfter, LinesAfter, PaymentsAfter,
          ProfilesAfter, RefundsAfter, ActionsAfter
<1>3. CASE RefundEvent(e)
  <2> DEFINE orders == OrdersAfter(g.orders, e)
             refunds == RefundsAfter(g.refunds, e)
             n == Refund(g, e)
  <2>1. n = [g EXCEPT !.refunds = refunds, !.orders = orders]
    BY <1>1, <1>3 DEF Refund, RefundEvent, OrdersAfter, RefundsAfter
  <2> HIDE DEF orders, refunds, n
  <2>2. /\ DOMAIN n = Tables /\ n.orders = orders /\ n.refunds = refunds
        /\ \A t \in Tables \ {"orders", "refunds"} : n[t] = g[t]
    BY <2>1 DEF Tables
  <2>3. EventDoes(g, n, e)
    BY <1>1, <2>2
    DEF EventDoes, CartsAfter, AttributionAfter, LinesAfter, PaymentsAfter, ProfilesAfter,
        ActionsAfter, Tables, orders, refunds
  <2> QED BY <2>3 DEF n
<1> QED BY <1>2, <1>3

LEMMA ActionDoes ==
  ASSUME NEW g, DOMAIN g = Tables, NEW e, e.name \in DOMAIN ActionNames
  PROVE  EventDoes(g, MerchantAction(g, e), e)
<1>1. /\ ~ OrderEvent(e) /\ ~ RefundEvent(e)
      /\ e.name # "cart_updated" /\ e.name # "checkout_started"
  BY DEF OrderEvent, RefundEvent, ActionNames
<1> DEFINE actions == ActionsAfter(g.actions, e)
           n == MerchantAction(g, e)
<1>2. n = IF e.plan = None THEN g ELSE [g EXCEPT !.actions = actions]
  BY <1>1 DEF MerchantAction, ActionsAfter
<1>3. e.plan = None => actions = g.actions
  BY DEF ActionsAfter
<1> HIDE DEF actions, n
<1>4. /\ DOMAIN n = Tables /\ n.actions = actions
      /\ \A t \in Tables \ {"actions"} : n[t] = g[t]
  BY <1>2, <1>3 DEF Tables
<1>5. EventDoes(g, n, e)
  BY <1>1, <1>4
  DEF EventDoes, CartsAfter, AttributionAfter, OrdersAfter, LinesAfter, PaymentsAfter,
      ProfilesAfter, RefundsAfter, Tables, actions
<1> QED BY <1>5 DEF n

\* ... and projectEvent, which chooses among them.
LEMMA ProjectEventDoes ==
  ASSUME NEW m, NEW e, DOMAIN General(m, e) = Tables
  PROVE  EventDoes(General(m, e), ProjectEvent(m, e), e)
<1> DEFINE g == General(m, e)
<1>1. ProjectEvent(m, e) =
        CASE e.name = "cart_updated" -> Cart(g, e)
          [] e.name = "checkout_started" -> CheckoutAttribution(g, e)
          [] e.name \in {"order_opened", "order_paid"} -> Order(g, e)
          [] e.name = "refund_recorded" -> Refund(g, e)
          [] e.name \in DOMAIN ActionNames -> MerchantAction(g, e)
          [] OTHER -> g
  BY DEF ProjectEvent, General
<1> HIDE DEF g
<1>2. DOMAIN ActionNames =
        {"experiment_review_viewed", "experiment_accepted", "experiment_rejected"}
  BY DEF ActionNames
<1>3. CASE e.name = "cart_updated"
  BY <1>1, <1>2, <1>3, CartDoes DEF g
<1>4. CASE e.name = "checkout_started"
  BY <1>1, <1>2, <1>4, CheckoutDoes DEF g
<1>5. CASE e.name \in {"order_opened", "order_paid"}
  BY <1>1, <1>2, <1>5, OrderDoes DEF g
<1>6. CASE e.name = "refund_recorded"
  BY <1>1, <1>2, <1>6, RefundDoes DEF g
<1>7. CASE e.name \in DOMAIN ActionNames
  BY <1>1, <1>2, <1>7, ActionDoes DEF g
<1>8. CASE /\ e.name \notin {"cart_updated", "checkout_started", "order_opened", "order_paid",
                             "refund_recorded"}
           /\ e.name \notin DOMAIN ActionNames
  <2>1. ProjectEvent(m, e) = g
    BY <1>1, <1>8
  <2>2. ~ OrderEvent(e) /\ ~ RefundEvent(e)
    BY <1>8 DEF OrderEvent, RefundEvent
  <2>3. EventDoes(g, g, e)
    BY <1>8, <2>2
    DEF EventDoes, CartsAfter, AttributionAfter, OrdersAfter, LinesAfter, PaymentsAfter,
        ProfilesAfter, RefundsAfter, ActionsAfter, g
  <2> QED BY <2>1, <2>3 DEF g
<1> QED BY <1>3, <1>4, <1>5, <1>6, <1>7, <1>8

LEMMA PutIsFinite ==
  ASSUME NEW t, IsFiniteSet(DOMAIN t), NEW id, NEW row
  PROVE  IsFiniteSet(DOMAIN Put(t, id, row))
<1> DEFINE u == Put(t, id, row)
<1>1. IsPut(u, t, id, row)
  BY PutIs
<1> HIDE DEF u
<1>2. IsFiniteSet(DOMAIN u)
  BY <1>1, FS_AddElement DEF IsPut
<1> QED BY <1>2 DEF u

\* A cart has the status of the last event put on it.
LEMMA CartsKeep ==
  ASSUME None \notin Statuses, NEW t, CartsFit(t), NEW e
  PROVE  /\ CartsFit(CartsAfter(t, e))
         /\ DOMAIN CartsAfter(t, e) =
              DOMAIN t \cup IF e.name \in {"cart_updated", "checkout_started"}
                            THEN {e.cart} \ {None} ELSE {}
         /\ \A id \in DOMAIN CartsAfter(t, e) :
              CartsAfter(t, e)[id].status =
                IF e.name \in {"cart_updated", "checkout_started"} /\ e.cart = id
                THEN (IF e.name = "cart_updated" THEN "updated" ELSE "checkout_started")
                ELSE t[id].status
<1>1. CASE e.cart = None \/ e.name \notin {"cart_updated", "checkout_started"}
  <2>1. CartsAfter(t, e) = t
    BY <1>1 DEF CartsAfter
  <2> QED BY <1>1, <2>1 DEF CartsFit
<1>2. CASE e.cart # None /\ e.name \in {"cart_updated", "checkout_started"}
  <2> DEFINE status == IF e.name = "cart_updated" THEN "updated" ELSE "checkout_started"
             row == IF e.name = "cart_updated" THEN UpdatedRow(t, e) ELSE CheckoutRow(t, e)
             n == CartsAfter(t, e)
  <2>1. n = Put(t, e.cart, row)
    BY <1>2 DEF CartsAfter
  <2>2. DOMAIN row = DOMAIN BlankCart /\ row.status = status
    <3> DEFINE old == Row(t, e.cart, BlankCart)
               cart == CartRow(t, e)
    <3>1. DOMAIN BlankCart =
            {"store", "sources", "member", "session", "status", "started", "attribution"}
      BY DEF BlankCart
    <3>2. DOMAIN old = DOMAIN BlankCart
      BY RowIs DEF CartsFit
    <3>3. cart = [Seen(old, e) EXCEPT !.member = Or(@, e.member), !.session = Or(@, e.session)]
      BY DEF CartRow
    <3> HIDE DEF old
    <3>4. DOMAIN cart = DOMAIN BlankCart
      BY <3>2, <3>3 DEF Seen
    <3>5. CASE e.name = "cart_updated"
      <4>1. row = [cart EXCEPT !.status = "updated"]
        BY <3>5 DEF UpdatedRow
      <4> HIDE DEF row, cart
      <4> QED BY <3>1, <3>4, <3>5, <4>1
    <3>6. CASE e.name # "cart_updated"
      <4>1. row = [cart EXCEPT !.status = "checkout_started", !.started = e.time,
                               !.attribution = @ \cup {e.id}]
        BY <3>6 DEF CheckoutRow
      <4> HIDE DEF row, cart
      <4> QED BY <3>1, <3>4, <3>6, <4>1
    <3> QED BY <3>5, <3>6
  <2> HIDE DEF row
  <2>3. IsPut(n, t, e.cart, row) /\ IsFiniteSet(DOMAIN n)
    BY <2>1, PutIs, PutIsFinite DEF CartsFit
  <2> HIDE DEF n
  <2>4. status # None
    BY DEF Statuses
  <2> QED BY <1>2, <2>2, <2>3, <2>4 DEF IsPut, CartsFit, n
<1> QED BY <1>1, <1>2

\* What an order's row becomes.
LEMMA OrderRowIs ==
  ASSUME None \notin Int, None \notin Statuses, NEW old, NEW e, EventRead(e),
         DOMAIN old = DOMAIN BlankOrder, old.amount \in Int \cup {None}
  PROVE  LET row == OrderRow(old, e)
             paid == e.name = "order_paid"
         IN /\ OrderFits(row)
            /\ row.store = Or(old.store, e.store) /\ row.sources = old.sources \cup {e.id}
            /\ row.status = IF paid THEN "paid" ELSE Or(old.status, "opened")
            /\ row.paid = IF paid THEN e.time ELSE old.paid
            /\ row.amount = Or(e.amount, old.amount) /\ row.attribution = old.attribution
<1> DEFINE row == OrderRow(old, e)
           paid == e.name = "order_paid"
           seen == Seen(old, e)
<1>1. DOMAIN BlankOrder =
        {"store", "sources", "member", "status", "opened", "paid", "amount", "attribution"}
  BY DEF BlankOrder
<1>2. /\ DOMAIN seen = DOMAIN BlankOrder
      /\ seen.store = Or(old.store, e.store) /\ seen.sources = old.sources \cup {e.id}
      /\ seen.status = old.status /\ seen.paid = old.paid /\ seen.amount = old.amount
      /\ seen.attribution = old.attribution
  BY <1>1 DEF Seen
<1>3. row = [seen EXCEPT !.member = Or(@, e.member), !.amount = AmountAfter(old, e),
                         !.status = IF paid THEN "paid" ELSE Or(@, "opened"),
                         !.opened = Or(@, IF paid THEN None ELSE e.time),
                         !.paid = IF paid THEN e.time ELSE @]
  BY DEF OrderRow
<1> HIDE DEF row, seen
<1>4. /\ DOMAIN row = DOMAIN BlankOrder
      /\ row.store = seen.store /\ row.sources = seen.sources
      /\ row.status = IF paid THEN "paid" ELSE Or(seen.status, "opened")
      /\ row.paid = IF paid THEN e.time ELSE seen.paid
      /\ row.amount = AmountAfter(old, e) /\ row.attribution = seen.attribution
  BY <1>1, <1>2, <1>3
<1>5. row.status # None /\ row.amount \in Int \cup {None}
  BY <1>2, <1>4 DEF Or, AmountAfter, EventRead, Statuses
<1> QED BY <1>2, <1>4, <1>5 DEF OrderFits, AmountAfter, row

\* What the row of an order becomes when the order is refunded.
IsRefunded(row, old, e) ==
  /\ row.status = "refunded" /\ row.sources = old.sources \cup {e.id}
  /\ row.store = old.store /\ row.paid = old.paid /\ row.amount = old.amount
  /\ row.attribution = old.attribution

\* An order event puts the order; a refund changes one that is there; nothing else does.
LEMMA OrdersKeep ==
  ASSUME None \notin Int, None \notin Statuses, NEW t, OrdersFit(t), NEW e, EventRead(e)
  PROVE  LET n == OrdersAfter(t, e) IN
         /\ OrdersFit(n)
         /\ OrderEvent(e) => IsPut(n, t, e.order, OrderRow(Row(t, e.order, BlankOrder), e))
         /\ ~ OrderEvent(e) => DOMAIN n = DOMAIN t
         /\ RefundEvent(e) /\ e.order \in DOMAIN t =>
              /\ IsRefunded(n[e.order], t[e.order], e)
              /\ \A id \in DOMAIN t : id # e.order => n[id] = t[id]
         /\ ~ OrderEvent(e) /\ ~ (RefundEvent(e) /\ e.order \in DOMAIN t) => n = t
<1> DEFINE n == OrdersAfter(t, e)
<1>1. CASE OrderEvent(e)
  <2> DEFINE old == Row(t, e.order, BlankOrder)
             row == OrderRow(old, e)
  <2>1. n = Put(t, e.order, row)
    BY <1>1 DEF OrdersAfter
  <2>2. DOMAIN old = DOMAIN BlankOrder /\ old.amount \in Int \cup {None}
    <3>1. BlankOrder.amount = None
      BY DEF BlankOrder
    <3> QED BY <3>1, RowIs DEF OrdersFit, OrderFits
  <2>3. OrderFits(row)
    <3> HIDE DEF old
    <3> QED BY <2>2, OrderRowIs
  <2> HIDE DEF row
  <2>4. IsPut(n, t, e.order, row) /\ IsFiniteSet(DOMAIN n)
    BY <2>1, PutIs, PutIsFinite DEF OrdersFit
  <2> HIDE DEF n
  <2>5. OrdersFit(n)
    BY <2>3, <2>4 DEF IsPut, OrdersFit
  <2>6. ~ RefundEvent(e)
    BY <1>1 DEF OrderEvent, RefundEvent
  <2> QED BY <1>1, <2>4, <2>5, <2>6 DEF n, row
<1>2. CASE ~ OrderEvent(e) /\ RefundEvent(e) /\ e.order \in DOMAIN t
  <2> DEFINE old == t[e.order]
             row == [old EXCEPT !.status = "refunded", !.sources = @ \cup {e.id}]
  <2>1. n = [t EXCEPT ![e.order].status = "refunded", ![e.order].sources = @ \cup {e.id}]
    BY <1>2 DEF OrdersAfter, RefundedOrders
  <2>2. /\ DOMAIN n = DOMAIN t /\ n[e.order] = row
        /\ \A id \in DOMAIN t : id # e.order => n[id] = t[id]
    <3> HIDE DEF n
    <3> QED BY <1>2, <2>1
  <2>3. OrderFits(old)
    BY <1>2 DEF OrdersFit
  <2>4. DOMAIN BlankOrder =
          {"store", "sources", "member", "status", "opened", "paid", "amount", "attribution"}
    BY DEF BlankOrder
  <2> HIDE DEF old, n
  <2>5. OrderFits(row) /\ IsRefunded(row, old, e)
    BY <2>3, <2>4 DEF OrderFits, IsRefunded, Statuses
  <2> HIDE DEF row
  <2>6. OrdersFit(n)
    BY <2>2, <2>5 DEF OrdersFit
  <2> QED BY <1>2, <2>2, <2>5, <2>6 DEF n, old
<1>3. CASE ~ OrderEvent(e) /\ ~ (RefundEvent(e) /\ e.order \in DOMAIN t)
  <2>1. n = t
    BY <1>3 DEF OrdersAfter, RefundedOrders
  <2> QED BY <1>3, <2>1
<1> QED BY <1>1, <1>2, <1>3

\* A line is written with its order.
LEMMA LinesKeep ==
  ASSUME NEW t, NEW orders, NEW e, LinesFit(t, DOMAIN orders),
         NEW known, DOMAIN orders \subseteq known, OrderEvent(e) => e.order \in known
  PROVE  LinesFit(LinesAfter(t, e), known) /\ LinesFit(t, known)
<1>1. LinesFit(t, known)
  BY DEF LinesFit
<1>2. CASE ~ OrderEvent(e)
  BY <1>1, <1>2 DEF LinesAfter
<1>3. CASE OrderEvent(e)
  <2> DEFINE n == LinesAfter(t, e)
             new == LinesOf(e)
  <2>1. n = Over(new, t)
    BY <1>3 DEF LinesAfter
  <2>2. \A id \in DOMAIN new : new[id].order = e.order
    BY DEF LinesOf
  <2> HIDE DEF new
  <2>3. IsOver(n, new, t)
    BY <2>1, OverIs
  <2> HIDE DEF n
  <2>4. LinesFit(n, known)
    BY <1>1, <1>3, <2>2, <2>3 DEF IsOver, LinesFit
  <2> QED BY <1>1, <2>4 DEF n
<1> QED BY <1>2, <1>3

\* ... and so is a payment.
LEMMA PaymentsKeep ==
  ASSUME NEW t, NEW orders, NEW e, LinesFit(t, DOMAIN orders),
         NEW known, DOMAIN orders \subseteq known, OrderEvent(e) => e.order \in known
  PROVE  LinesFit(PaymentsAfter(t, orders, e), known)
<1>1. LinesFit(t, known)
  BY DEF LinesFit
<1> DEFINE n == PaymentsAfter(t, orders, e)
           amount == AmountAfter(Row(orders, e.order, BlankOrder), e)
           row == PaymentRow(amount, e)
<1>2. CASE ~ (OrderEvent(e) /\ e.name = "order_paid" /\ amount # None)
  <2>1. n = t
    BY <1>2 DEF PaymentsAfter
  <2> QED BY <1>1, <2>1
<1>3. CASE OrderEvent(e) /\ e.name = "order_paid" /\ amount # None
  <2>1. n = Put(t, <<e.order, "payment">>, row)
    BY <1>3 DEF PaymentsAfter
  <2>2. row.order = e.order
    BY DEF PaymentRow
  <2> HIDE DEF row
  <2>3. IsPut(n, t, <<e.order, "payment">>, row)
    BY <2>1, PutIs
  <2> HIDE DEF n, amount
  <2>4. LinesFit(n, known)
    BY <1>1, <1>3, <2>2, <2>3 DEF IsPut, LinesFit
  <2> QED BY <2>4 DEF n
<1> QED BY <1>2, <1>3

\* A payment names the latest order of a profile that is already there.
LEMMA ProfilesKeep ==
  ASSUME NEW t, ProfilesFit(t), NEW e, e.member # None => e.member \in DOMAIN t
  PROVE  LET n == ProfilesAfter(t, e) IN
         /\ ProfilesFit(n) /\ DOMAIN n = DOMAIN t
         /\ \A id \in DOMAIN n :
              n[id].order = IF OrderEvent(e) /\ e.name = "order_paid" /\ e.member = id /\ id # None
                            THEN e.order ELSE t[id].order
<1> DEFINE n == ProfilesAfter(t, e)
<1>1. CASE ~ (OrderEvent(e) /\ e.name = "order_paid" /\ e.member # None)
  <2>1. n = t
    BY <1>1 DEF ProfilesAfter
  <2> HIDE DEF n
  <2> QED BY <1>1, <2>1 DEF n
<1>2. CASE OrderEvent(e) /\ e.name = "order_paid" /\ e.member # None
  <2> DEFINE old == t[e.member]
             seen == Seen(old, e)
             row == PaidProfileRow(t, e)
  <2>1. DOMAIN BlankProfile = {"store", "sources", "order", "paid"}
    BY DEF BlankProfile
  <2>2. DOMAIN seen = DOMAIN BlankProfile
    BY <1>2, <2>1 DEF Seen, ProfilesFit
  <2>3. row = [seen EXCEPT !.order = e.order, !.paid = Later(@, e.time)]
    <3>1. ProfileRow(t, e) = seen
      BY <1>2, RowIs DEF ProfileRow
    <3> HIDE DEF seen
    <3> QED BY <3>1 DEF PaidProfileRow
  <2> HIDE DEF seen, row
  <2>4. DOMAIN row = DOMAIN BlankProfile /\ row.order = e.order
    BY <2>1, <2>2, <2>3
  <2>5. n = Put(t, e.member, row)
    BY <1>2 DEF ProfilesAfter, row
  <2>6. IsPut(n, t, e.member, row)
    BY <2>5, PutIs
  <2> HIDE DEF n
  <2>7. ProfilesFit(n) /\ DOMAIN n = DOMAIN t
    BY <1>2, <2>4, <2>6 DEF IsPut, ProfilesFit
  <2>8. ASSUME NEW id \in DOMAIN n
        PROVE  n[id].order = IF OrderEvent(e) /\ e.name = "order_paid" /\ e.member = id /\ id # None
                             THEN e.order ELSE t[id].order
    BY <1>2, <2>4, <2>6 DEF IsPut
  <2> QED BY <2>7, <2>8 DEF n
<1> QED BY <1>1, <1>2

\* No event breaks the tables of 0002.
LEMMA ProjectEventFits ==
  ASSUME None \notin Int, None \notin Statuses, NEW m, Fits(m), NEW e, EventRead(e)
  PROVE  Fits(ProjectEvent(m, e))
<1> DEFINE g == General(m, e)
           n == ProjectEvent(m, e)
<1>1. /\ GeneralFit(g)
      /\ \A t \in SpecialTables : g[t] = m[t]
      /\ DOMAIN g.profiles = DOMAIN m.profiles \cup ({e.member} \ {None})
  BY GeneralIs DEF Fits
<1>2. EventDoes(g, n, e)
  BY <1>1, ProjectEventDoes DEF GeneralFit
<1> HIDE DEF g, n
<1>3. SpecialFit(g)
  BY <1>1 DEF Fits, SpecialFit, SpecialTables
<1>4. GeneralFit(n)
  <2>1. ProfilesFit(n.profiles) /\ DOMAIN n.profiles = DOMAIN g.profiles
    <3>1. ProfilesFit(g.profiles) /\ (e.member # None => e.member \in DOMAIN g.profiles)
      BY <1>1 DEF GeneralFit
    <3> DEFINE profiles == ProfilesAfter(g.profiles, e)
    <3>2. ProfilesFit(profiles) /\ DOMAIN profiles = DOMAIN g.profiles
      BY <3>1, ProfilesKeep
    <3>3. n.profiles = profiles
      BY <1>2 DEF EventDoes
    <3> HIDE DEF profiles
    <3> QED BY <3>2, <3>3
  <2> QED BY <1>1, <1>2, <2>1 DEF GeneralFit, EventDoes
<1>5. CartsFit(n.carts)
  <2>1. CartsFit(CartsAfter(g.carts, e))
    BY <1>3, CartsKeep DEF SpecialFit
  <2> QED BY <1>2, <2>1 DEF EventDoes
<1>6. /\ OrdersFit(n.orders) /\ DOMAIN g.orders \subseteq DOMAIN n.orders
      /\ OrderEvent(e) => e.order \in DOMAIN n.orders
  <2> DEFINE orders == OrdersAfter(g.orders, e)
  <2>1. /\ OrdersFit(orders)
        /\ OrderEvent(e) => IsPut(orders, g.orders, e.order,
                                  OrderRow(Row(g.orders, e.order, BlankOrder), e))
        /\ ~ OrderEvent(e) => DOMAIN orders = DOMAIN g.orders
    BY <1>3, OrdersKeep DEF SpecialFit
  <2> HIDE DEF orders
  <2>2. n.orders = orders
    BY <1>2 DEF EventDoes, orders
  <2> QED BY <2>1, <2>2 DEF IsPut
<1>7. LinesFit(n.lines, DOMAIN n.orders) /\ LinesFit(n.payments, DOMAIN n.orders)
  <2>1. LinesFit(LinesAfter(g.lines, e), DOMAIN n.orders)
    BY <1>3, <1>6, LinesKeep DEF SpecialFit
  <2>2. LinesFit(PaymentsAfter(g.payments, g.orders, e), DOMAIN n.orders)
    BY <1>3, <1>6, PaymentsKeep DEF SpecialFit
  <2> QED BY <1>2, <2>1, <2>2 DEF EventDoes
<1>8. IsFiniteSet(DOMAIN n.refunds)
  <2>1. IsFiniteSet(DOMAIN RefundsAfter(g.refunds, e))
    BY <1>3, PutIsFinite DEF RefundsAfter, SpecialFit
  <2> QED BY <1>2, <2>1 DEF EventDoes
<1>9. Fits(n)
  BY <1>4, <1>5, <1>6, <1>7, <1>8 DEF Fits, SpecialFit
<1> QED BY <1>9 DEF n
-------------------------------------------------------------------------------
\* Projected(E) is what its definition says: the sets of events in E can be read one event at
\* a time, from the least sets up.
LEMMA ProjectedEquation ==
  ASSUME NEW E, Ordered(E), NEW read \in SUBSET E
  PROVE  Projected(E)[read] =
           IF read = {} THEN NothingProjected
           ELSE ProjectEvent(Projected(E)[read \ {LastOf(read)}], LastOf(read))
<1> DEFINE Rest(S) == S \ {LastOf(S)}
           UpTo(n) == {S \in SUBSET E : Cardinality(S) <= n}
           Value(g, S) == IF S = {} THEN NothingProjected ELSE ProjectEvent(g[Rest(S)], LastOf(S))
           Good(g, n) == g = [S \in UpTo(n) |-> Value(g, S)]
           Bad == {n \in Nat : ~ \E g : Good(g, n)}
<1>1. \A S \in SUBSET E : /\ IsFiniteSet(S) /\ Cardinality(S) \in Nat
                          /\ S # {} => Cardinality(Rest(S)) = Cardinality(S) - 1
  <2> TAKE S \in SUBSET E
  <2>1. IsFiniteSet(S) /\ Cardinality(S) \in Nat
    BY FS_Subset, FS_CardinalityType DEF Ordered
  <2>2. S # {} => LastOf(S) \in S
    BY OrderedSubset, LastExists
  <2> QED BY <2>1, <2>2, FS_RemoveElement
<1>2. \A S \in SUBSET E : Cardinality(S) <= Cardinality(E)
  BY FS_Subset DEF Ordered
<1>3. Bad = {}
  <2> SUFFICES ASSUME Bad # {} PROVE FALSE
    OBVIOUS
  <2>1. PICK n \in Bad : \A k \in Bad : n <= k
    BY LeastNat
  <2>2. n # 0
    <3>1. UpTo(0) = {{}}
      <4>1. ASSUME NEW S \in SUBSET E PROVE Cardinality(S) <= 0 <=> S = {}
        <5>1. Cardinality(S) = 0 <=> S = {}
          BY <1>1, FS_EmptySet
        <5>2. Cardinality(S) \in Nat
          BY <1>1
        <5>3. Cardinality(S) = 0 \/ Cardinality(S) > 0
          BY <5>2
        <5> QED BY <5>1, <5>2, <5>3
      <4> QED BY <4>1
    <3> DEFINE g == [S \in UpTo(0) |-> NothingProjected]
    <3>2. g = [S \in UpTo(0) |-> Value(g, S)]
      BY <3>1
    <3>3. Good(g, 0)
      BY <3>2
    <3> HIDE DEF g, Good
    <3> QED BY <3>3, <2>1
  <2>3. PICK g : Good(g, n - 1)
    <3>1. Bad \subseteq Nat
      OBVIOUS
    <3>2. n - 1 \in Nat /\ n - 1 \notin Bad
      <4> HIDE DEF Bad
      <4> QED BY <3>1, <2>1, <2>2
    <3> QED BY <3>2
  <2> DEFINE h == [S \in UpTo(n) |-> Value(g, S)]
  <2>4. \A S \in UpTo(n) : Value(g, S) = Value(h, S)
    <3> SUFFICES ASSUME NEW S \in UpTo(n), S # {} PROVE g[Rest(S)] = h[Rest(S)]
      OBVIOUS
    <3>1. Rest(S) \in UpTo(n - 1) /\ Rest(S) \in UpTo(n)
      BY <1>1, <2>1, <2>2
    <3>2. h[Rest(S)] = Value(g, Rest(S))
      BY <3>1
    <3>3. g[Rest(S)] = Value(g, Rest(S))
      <4> HIDE DEF Value, UpTo, Rest
      <4> QED BY <3>1, <2>3 
    <3> QED BY <3>2, <3>3
  <2>5. Good(h, n)
    <3> HIDE DEF Value, UpTo
    <3> QED BY <2>4
  <2> HIDE DEF h, Good
  <2> QED BY <2>1, <2>5
<1>4. \E g : g = [S \in SUBSET E |-> Value(g, S)]
  <2>1. Cardinality(E) \in Nat
    BY FS_CardinalityType DEF Ordered
  <2>2. UpTo(Cardinality(E)) = SUBSET E
    BY <1>2, <1>1
  <2>3. PICK g : Good(g, Cardinality(E))
    BY <1>3, <2>1
  <2> HIDE DEF Value, UpTo
  <2> QED BY <2>2, <2>3
<1> DEFINE F == Projected(E)
<1>5. F = CHOOSE g : g = [S \in SUBSET E |-> Value(g, S)]
  BY DEF Projected
<1>6. F = [S \in SUBSET E |-> Value(F, S)]
  <2> HIDE DEF F, Value
  <2> QED BY <1>4, <1>5, Zenon
<1>7. F[read] = Value(F, read)
  <2> HIDE DEF F, Value
  <2> QED BY <1>6
<1> QED BY <1>7

\* An event that is the last of a set is the last of every part of it that has it, and no first
\* but when it is alone.
Newest(S, e) == Ordered(S) /\ e \in S /\ \A f \in S : e = f \/ Before(f, e)

LEMMA NewestIsLast ==
  ASSUME NEW S, NEW e, Newest(S, e), NEW T, T \subseteq S, e \in T
  PROVE  LastOf(T) = e
<1>1. Ordered(T)
  BY OrderedSubset DEF Newest
<1> QED BY <1>1, OnlyOneLast DEF Newest

LEMMA FirstStays ==
  ASSUME NEW S, NEW e, Newest(S, e), NEW T, T \subseteq S, T \ {e} # {}
  PROVE  FirstOf(T) = FirstOf(T \ {e}) /\ FirstOf(T) \in T \ {e}
<1>1. Ordered(T) /\ Ordered(T \ {e})
  BY OrderedSubset DEF Newest
<1> DEFINE x == FirstOf(T \ {e})
<1>2. x \in T \ {e} /\ \A f \in T \ {e} : x = f \/ Before(x, f)
  BY <1>1, LastExists
<1> HIDE DEF x
<1>3. \A f \in T : x = f \/ Before(x, f)
  BY <1>2 DEF Newest
<1>4. FirstOf(T) = x
  BY <1>1, <1>2, <1>3, OnlyOneLast
<1> QED BY <1>2, <1>4 DEF x
-------------------------------------------------------------------------------
\* What the tables say of the events that were read, table by table.  An order that no event
\* has named yet has a blank row: nothing is known of it, its refunds least of all.
Known(S, order) == IF OrderEvents(S, order) = {} THEN {} ELSE Refunds(S, order)
Named(S, order) == {e \in OrderEvents(S, order) : e.store # None}
Settled(S, order) == Payments(S, order) \cup Known(S, order)

RowTells(S, order, row) ==
  /\ row.status = IF Settled(S, order) = {}
                  THEN IF OrderEvents(S, order) = {} THEN None ELSE "opened"
                  ELSE IF LastOf(Settled(S, order)).name = "order_paid" THEN "paid" ELSE "refunded"
  /\ row.paid = IF Payments(S, order) = {} THEN None ELSE LastOf(Payments(S, order)).time
  /\ row.amount = IF Priced(S, order) = {} THEN None ELSE LastOf(Priced(S, order)).amount
  /\ row.store = IF Named(S, order) = {} THEN None ELSE FirstOf(Named(S, order)).store
  /\ row.sources = Ids(OrderEvents(S, order) \cup Known(S, order))
  /\ row.attribution = {}

\* The events of an order after one more: its own, a refund of it, or neither.
OneMore(S, R, e, order) ==
  /\ OrderEvents(S, order) = OrderEvents(R, order) \cup {e}
  /\ Known(S, order) = Known(R, order)
  /\ Payments(S, order) = Payments(R, order) \cup IF e.name = "order_paid" THEN {e} ELSE {}
  /\ Priced(S, order) = Priced(R, order) \cup IF e.amount # None THEN {e} ELSE {}
  /\ Named(S, order) = Named(R, order) \cup IF e.store # None THEN {e} ELSE {}
NoMore(S, R, e, order) ==
  /\ OrderEvents(S, order) = OrderEvents(R, order)
  /\ Payments(S, order) = Payments(R, order) /\ Priced(S, order) = Priced(R, order)
  /\ Named(S, order) = Named(R, order)
  /\ Known(S, order) =
       Known(R, order) \cup IF RefundEvent(e) /\ e.order = order /\ OrderEvents(R, order) # {}
                           THEN {e} ELSE {}

\* An order's own event adds itself, and moves none of its known refunds.
LEMMA OrderEventsOf ==
  ASSUME NEW S, NEW e, Newest(S, e), NEW order, order # None,
         OrderEvent(e) /\ e.order = order
  PROVE  OneMore(S, S \ {e}, e, order)
<1> DEFINE R == S \ {e}
<1>1. e \in S
  BY DEF Newest
<1>2. OrderEvents(S, order) = OrderEvents(R, order) \cup {e}
  BY <1>1 DEF OrderEvents, OrderEvent
<1>3. Known(S, order) = Known(R, order)
  <2>1. OrderEvents(S, order) # {} /\ OrderEvents(S, order) \subseteq S
    BY <1>2 DEF OrderEvents
  <2>2. RefundEvents(S) = RefundEvents(R) /\ RefundEvents(S) \subseteq S
    BY DEF RefundEvents, OrderEvent
  <2>3. OrderEvents(R, order) = OrderEvents(S, order) \ {e}
    BY DEF OrderEvents
  <2>4. CASE OrderEvents(R, order) # {}
    <3>1. FirstOf(OrderEvents(S, order)) = FirstOf(OrderEvents(R, order))
      BY <2>1, <2>3, <2>4, FirstStays
    <3> QED BY <2>1, <2>2, <2>4, <3>1 DEF Known, Refunds
  <2>5. CASE OrderEvents(R, order) = {}
    <3>1. OrderEvents(S, order) = {e}
      BY <1>2, <2>5
    <3>2. FirstOf({e}) = e
      <4>1. Ordered({e})
        BY <1>1, OrderedSubset DEF Newest
      <4> QED BY <4>1, OnlyOneLast
    <3>3. \A f \in S : ~ Before(e, f)
      BY DEF Newest, Before, Ordered
    <3>4. Refunds(S, order) = {}
      <4>1. Refunds(S, order) = {f \in RefundEvents(S) : f.order = order /\ Before(e, f)}
        BY <3>1, <3>2 DEF Refunds
      <4> QED BY <2>2, <3>3, <4>1
    <3> QED BY <2>1, <2>5, <3>4 DEF Known
  <2> QED BY <2>4, <2>5
<1>4. Payments(S, order) = Payments(R, order) \cup IF e.name = "order_paid" THEN {e} ELSE {}
  BY <1>2 DEF Payments
<1>5. Priced(S, order) = Priced(R, order) \cup IF e.amount # None THEN {e} ELSE {}
  BY <1>2 DEF Priced
<1>6. Named(S, order) = Named(R, order) \cup IF e.store # None THEN {e} ELSE {}
  BY <1>2 DEF Named
<1> QED BY <1>2, <1>3, <1>4, <1>5, <1>6 DEF OneMore

\* Any other event leaves them, but for a refund of an order that is known.
LEMMA RefundsOf ==
  ASSUME NEW S, NEW e, Newest(S, e), NEW order, order # None,
         ~ (OrderEvent(e) /\ e.order = order)
  PROVE  NoMore(S, S \ {e}, e, order)
<1> DEFINE R == S \ {e}
<1>1. e \in S
  BY DEF Newest
<1>2. OrderEvents(S, order) = OrderEvents(R, order)
  BY <1>1 DEF OrderEvents, OrderEvent
<1>3. RefundEvents(S) = RefundEvents(R) \cup IF RefundEvent(e) THEN {e} ELSE {}
  BY <1>1 DEF RefundEvents, RefundEvent
<1>4. CASE OrderEvents(R, order) = {}
  BY <1>2, <1>4 DEF Known, Payments, Priced, Named, NoMore
<1>5. CASE OrderEvents(R, order) # {}
  <2> DEFINE first == FirstOf(OrderEvents(R, order))
  <2>1. Before(first, e)
    <3>1. OrderEvents(R, order) \in SUBSET S /\ OrderEvents(R, order) \ {e} = OrderEvents(R, order)
      BY DEF OrderEvents
    <3>2. first \in OrderEvents(R, order)
      BY <1>5, <3>1, FirstStays
    <3> QED BY <3>1, <3>2 DEF Newest
  <2> HIDE DEF first
  <2>2. Known(S, order) = {f \in RefundEvents(S) : f.order = order /\ Before(first, f)}
        /\ Known(R, order) = {f \in RefundEvents(R) : f.order = order /\ Before(first, f)}
    BY <1>2, <1>5 DEF Known, Refunds, first
  <2> QED BY <1>2, <1>3, <1>5, <2>1, <2>2 DEF Payments, Priced, Named, NoMore
<1> QED BY <1>4, <1>5

\* The row of an order, after one more event, when its row before told of the events before.
LEMMA OrderRowTells ==
  ASSUME None \notin Int, None \notin Statuses, NEW S, NEW e, Newest(S, e), EventRead(e),
         NEW order, order # None, OrderEvent(e) /\ e.order = order,
         NEW old, RowTells(S \ {e}, order, old), DOMAIN old = DOMAIN BlankOrder,
         old.amount \in Int \cup {None}
  PROVE  RowTells(S, order, OrderRow(old, e))
<1> DEFINE R == S \ {e}
           row == OrderRow(old, e)
           paid == e.name = "order_paid"
<1>1. /\ row.store = Or(old.store, e.store) /\ row.sources = old.sources \cup {e.id}
      /\ row.status = IF paid THEN "paid" ELSE Or(old.status, "opened")
      /\ row.paid = IF paid THEN e.time ELSE old.paid
      /\ row.amount = Or(e.amount, old.amount) /\ row.attribution = old.attribution
  BY OrderRowIs
<1> HIDE DEF row
<1>2. /\ OrderEvents(S, order) = OrderEvents(R, order) \cup {e}
      /\ Known(S, order) = Known(R, order)
      /\ Payments(S, order) = Payments(R, order) \cup IF paid THEN {e} ELSE {}
      /\ Priced(S, order) = Priced(R, order) \cup IF e.amount # None THEN {e} ELSE {}
      /\ Named(S, order) = Named(R, order) \cup IF e.store # None THEN {e} ELSE {}
  <2>1. OneMore(S, R, e, order)
    BY OrderEventsOf
  <2> QED BY <2>1 DEF OneMore
<1>3. /\ Payments(S, order) \subseteq S /\ Priced(S, order) \subseteq S
      /\ Named(S, order) \subseteq S /\ Settled(S, order) \subseteq S
      /\ e \notin Named(R, order) /\ Named(R, order) \subseteq Named(S, order)
  BY <1>2 DEF Payments, Priced, Named, Settled, Known, OrderEvents, Refunds, RefundEvents
<1>4. row.status = IF Settled(S, order) = {}
                   THEN IF OrderEvents(S, order) = {} THEN None ELSE "opened"
                   ELSE IF LastOf(Settled(S, order)).name = "order_paid" THEN "paid"
                        ELSE "refunded"
  <2>1. CASE paid
    <3>1. e \in Settled(S, order)
      BY <1>2, <2>1 DEF Settled
    <3>2. LastOf(Settled(S, order)) = e
      BY <1>3, <3>1, NewestIsLast
    <3> QED BY <1>1, <2>1, <3>1, <3>2
  <2>2. CASE ~ paid
    <3>1. Settled(S, order) = Settled(R, order)
      BY <1>2, <2>2 DEF Settled
    <3>2. row.status = Or(old.status, "opened")
      BY <1>1, <2>2
    <3>3. OrderEvents(S, order) # {}
      BY <1>2
    <3>4. None # "opened" /\ None # "paid" /\ None # "refunded"
      BY DEF Statuses
    <3> QED BY <3>1, <3>2, <3>3, <3>4 DEF RowTells, Or
  <2> QED BY <2>1, <2>2
<1>5. row.paid = IF Payments(S, order) = {} THEN None ELSE LastOf(Payments(S, order)).time
  <2>1. CASE paid
    <3>1. LastOf(Payments(S, order)) = e /\ Payments(S, order) # {}
      BY <1>2, <1>3, <2>1, NewestIsLast
    <3> QED BY <1>1, <2>1, <3>1
  <2>2. CASE ~ paid
    BY <1>1, <1>2, <2>2 DEF RowTells
  <2> QED BY <2>1, <2>2
<1>6. row.amount = IF Priced(S, order) = {} THEN None ELSE LastOf(Priced(S, order)).amount
  <2>1. CASE e.amount # None
    <3>1. LastOf(Priced(S, order)) = e /\ Priced(S, order) # {}
      BY <1>2, <1>3, <2>1, NewestIsLast
    <3> QED BY <1>1, <2>1, <3>1 DEF Or
  <2>2. CASE e.amount = None
    BY <1>1, <1>2, <2>2 DEF RowTells, Or
  <2> QED BY <2>1, <2>2
<1>7. row.store = IF Named(S, order) = {} THEN None ELSE FirstOf(Named(S, order)).store
  <2>1. CASE Named(R, order) # {}
    <3>1. Named(S, order) \ {e} = Named(R, order)
      BY <1>2, <1>3
    <3>2. FirstOf(Named(S, order)) = FirstOf(Named(R, order))
          /\ FirstOf(Named(S, order)) \in Named(R, order)
      <4> DEFINE T == Named(S, order)
      <4>1. T \subseteq S /\ T \ {e} # {}
        BY <1>3, <2>1, <3>1
      <4> HIDE DEF T
      <4>2. FirstOf(T) = FirstOf(T \ {e}) /\ FirstOf(T) \in T \ {e}
        BY <4>1, FirstStays
      <4> QED BY <3>1, <4>2 DEF T
    <3>3. old.store = FirstOf(Named(S, order)).store /\ old.store # None
      BY <2>1, <3>2 DEF RowTells, Named
    <3>4. Named(S, order) # {}
      BY <1>3, <2>1
    <3> QED BY <1>1, <3>3, <3>4 DEF Or
  <2>2. CASE Named(R, order) = {} /\ e.store # None
    <3>1. Named(S, order) = {e}
      BY <1>2, <2>2
    <3>2. FirstOf({e}) = e
      <4>1. Ordered({e}) /\ e \in {e}
        BY <1>3, <3>1, OrderedSubset DEF Newest
      <4> QED BY <4>1, OnlyOneLast
    <3>3. old.store = None
      BY <2>2 DEF RowTells
    <3> QED BY <1>1, <3>1, <3>2, <3>3 DEF Or
  <2>3. CASE Named(R, order) = {} /\ e.store = None
    <3>1. Named(S, order) = {} /\ old.store = None
      BY <1>2, <2>3 DEF RowTells
    <3> QED BY <1>1, <2>3, <3>1 DEF Or
  <2> QED BY <2>1, <2>2, <2>3
<1>8. row.sources = Ids(OrderEvents(S, order) \cup Known(S, order))
  <2>1. old.sources = Ids(OrderEvents(R, order) \cup Known(R, order))
    BY DEF RowTells
  <2>2. OrderEvents(S, order) \cup Known(S, order) =
          (OrderEvents(R, order) \cup Known(R, order)) \cup {e}
    BY <1>2
  <2> QED BY <1>1, <2>1, <2>2 DEF Ids
<1>9. row.attribution = {}
  BY <1>1 DEF RowTells
<1> QED BY <1>4, <1>5, <1>6, <1>7, <1>8, <1>9 DEF RowTells, row

\* The row of an order that the last event refunds.
LEMMA RefundedRowTells ==
  ASSUME NEW S, NEW e, Newest(S, e), NEW order, order # None,
         ~ OrderEvent(e), RefundEvent(e), e.order = order, OrderEvents(S \ {e}, order) # {},
         NEW old, RowTells(S \ {e}, order, old), NEW row, IsRefunded(row, old, e)
  PROVE  RowTells(S, order, row)
<1> DEFINE R == S \ {e}
<1>1. /\ OrderEvents(S, order) = OrderEvents(R, order) /\ OrderEvents(S, order) # {}
      /\ Payments(S, order) = Payments(R, order) /\ Priced(S, order) = Priced(R, order)
      /\ Named(S, order) = Named(R, order)
      /\ Known(S, order) = Known(R, order) \cup {e}
  <2>1. NoMore(S, R, e, order)
    BY RefundsOf
  <2> QED BY <2>1 DEF NoMore
<1>2. Settled(S, order) \subseteq S /\ e \in Settled(S, order)
  BY <1>1 DEF Settled, Payments, OrderEvents, Known, Refunds, RefundEvents
<1>3. LastOf(Settled(S, order)) = e
  BY <1>2, NewestIsLast
<1>4. e.name # "order_paid"
  BY DEF RefundEvent
<1>5. row.status = IF Settled(S, order) = {}
                   THEN IF OrderEvents(S, order) = {} THEN None ELSE "opened"
                   ELSE IF LastOf(Settled(S, order)).name = "order_paid" THEN "paid"
                        ELSE "refunded"
  BY <1>2, <1>3, <1>4 DEF IsRefunded
<1>6. row.sources = Ids(OrderEvents(S, order) \cup Known(S, order))
  <2>1. OrderEvents(S, order) \cup Known(S, order) =
          (OrderEvents(R, order) \cup Known(R, order)) \cup {e}
    BY <1>1
  <2> QED BY <2>1 DEF Ids, RowTells, IsRefunded
<1> QED BY <1>1, <1>5, <1>6 DEF RowTells, IsRefunded

\* The row of an order that the last event is not about.
LEMMA SameRowTells ==
  ASSUME NEW S, NEW e, Newest(S, e), NEW order, order # None,
         ~ (OrderEvent(e) /\ e.order = order),
         ~ (RefundEvent(e) /\ e.order = order /\ OrderEvents(S \ {e}, order) # {}),
         NEW row, RowTells(S \ {e}, order, row)
  PROVE  RowTells(S, order, row)
<1>1. NoMore(S, S \ {e}, e, order)
  BY RefundsOf
<1> QED BY <1>1 DEF NoMore, RowTells, Settled

OrdersTell(S, t) ==
  /\ DOMAIN t = Orders(S)
  /\ \A order : order # None => RowTells(S, order, Row(t, order, BlankOrder))

\* One more event: the orders.
LEMMA OrdersTellStep ==
  ASSUME None \notin Int, None \notin Statuses, NEW S, NEW e, Newest(S, e), EventRead(e),
         NEW t, OrdersFit(t), OrdersTell(S \ {e}, t)
  PROVE  OrdersTell(S, OrdersAfter(t, e))
<1> DEFINE R == S \ {e}
           n == OrdersAfter(t, e)
           old == Row(t, e.order, BlankOrder)
<1>1. /\ OrdersFit(n)
      /\ OrderEvent(e) => IsPut(n, t, e.order, OrderRow(old, e))
      /\ ~ OrderEvent(e) => DOMAIN n = DOMAIN t
      /\ RefundEvent(e) /\ e.order \in DOMAIN t =>
           /\ IsRefunded(n[e.order], t[e.order], e)
           /\ \A id \in DOMAIN t : id # e.order => n[id] = t[id]
      /\ ~ OrderEvent(e) /\ ~ (RefundEvent(e) /\ e.order \in DOMAIN t) => n = t
  BY OrdersKeep
<1> HIDE DEF n
<1>2. e \in S
  BY DEF Newest
<1>3. ASSUME NEW order, order # None
      PROVE  order \in DOMAIN t <=> OrderEvents(R, order) # {}
  BY <1>3 DEF OrdersTell, Orders, OrderEvents
<1>4. DOMAIN n = Orders(S)
  <2>1. Orders(S) = Orders(R) \cup IF OrderEvent(e) THEN {e.order} ELSE {}
    BY <1>2 DEF Orders, OrderEvent
  <2> QED BY <1>1, <2>1 DEF OrdersTell, IsPut
<1>5. ASSUME NEW order, order # None
      PROVE  RowTells(S, order, Row(n, order, BlankOrder))
  <2>1. RowTells(R, order, Row(t, order, BlankOrder))
    BY <1>5 DEF OrdersTell
  <2>2. CASE OrderEvent(e) /\ e.order = order
    <3>1. DOMAIN old = DOMAIN BlankOrder /\ old.amount \in Int \cup {None}
      <4>1. BlankOrder.amount = None
        BY DEF BlankOrder
      <4> QED BY <4>1, RowIs DEF OrdersFit, OrderFits
    <3>2. Row(n, order, BlankOrder) = OrderRow(old, e)
      BY <1>1, <2>2, RowIs DEF IsPut
    <3>3. RowTells(R, order, old)
      BY <2>1, <2>2
    <3> HIDE DEF old
    <3> QED BY <1>5, <2>2, <3>1, <3>2, <3>3, OrderRowTells
  <2>3. CASE ~ OrderEvent(e) /\ RefundEvent(e) /\ e.order = order /\ order \in DOMAIN t
    <3>1. Row(t, order, BlankOrder) = t[order] /\ Row(n, order, BlankOrder) = n[order]
      BY <1>1, <2>3, RowIs
    <3>2. IsRefunded(n[order], t[order], e)
      BY <1>1, <2>3
    <3>3. OrderEvents(R, order) # {}
      BY <1>3, <1>5, <2>3
    <3> QED BY <1>5, <2>1, <2>3, <3>1, <3>2, <3>3, RefundedRowTells
  <2>4. CASE /\ ~ (OrderEvent(e) /\ e.order = order)
             /\ ~ (RefundEvent(e) /\ e.order = order /\ order \in DOMAIN t)
    <3>1. Row(n, order, BlankOrder) = Row(t, order, BlankOrder)
      BY <1>1, <2>4, RowIs DEF IsPut
    <3>2. ~ (RefundEvent(e) /\ e.order = order /\ OrderEvents(R, order) # {})
      BY <1>3, <1>5, <2>4
    <3> QED BY <1>5, <2>1, <2>4, <3>1, <3>2, SameRowTells
  <2>5. ~ (OrderEvent(e) /\ RefundEvent(e))
    BY DEF OrderEvent, RefundEvent
  <2> QED BY <2>2, <2>3, <2>4, <2>5
<1>6. OrdersTell(S, n)
  BY <1>4, <1>5 DEF OrdersTell
<1> QED BY <1>6 DEF n

AttributionTells(S, t) ==
  \A order : order # None => Row(t, order, {}) = Ids(Checkouts(S, order))

LEMMA RowAfterPut ==
  ASSUME NEW u, NEW t, NEW id, NEW row, IsPut(u, t, id, row), NEW blank
  PROVE  /\ Row(u, id, blank) = row
         /\ \A x : x # id => Row(u, x, blank) = Row(t, x, blank)
BY RowIs DEF IsPut, Row

\* One more event: checkouts, before or after their orders.
LEMMA AttributionTellsStep ==
  ASSUME NEW S, NEW e \in S, NEW t, AttributionTells(S \ {e}, t)
  PROVE  AttributionTells(S, AttributionAfter(t, e))
<1> DEFINE R == S \ {e}
           n == AttributionAfter(t, e)
<1>1. ASSUME NEW order, order # None
      PROVE  Row(n, order, {}) = Ids(Checkouts(S, order))
  <2>1. Row(t, order, {}) = Ids(Checkouts(R, order))
    BY <1>1 DEF AttributionTells
  <2>2. CASE e.name = "checkout_started" /\ e.order # None
    <3> DEFINE row == Row(t, e.order, {}) \cup {e.id}
    <3>1. n = Put(t, e.order, row)
      BY <2>2 DEF AttributionAfter
    <3>2. IsPut(n, t, e.order, row)
      BY <3>1, PutIs
    <3>3. /\ e.order = order => Row(n, order, {}) = Row(t, order, {}) \cup {e.id}
          /\ e.order # order => Row(n, order, {}) = Row(t, order, {})
      BY <3>2, RowAfterPut
    <3>4. /\ e.order = order => Checkouts(S, order) = Checkouts(R, order) \cup {e}
          /\ e.order # order => Checkouts(S, order) = Checkouts(R, order)
      BY <2>2 DEF Checkouts
    <3> HIDE DEF n, row
    <3> QED BY <2>1, <3>3, <3>4 DEF Ids
  <2>3. CASE ~ (e.name = "checkout_started" /\ e.order # None)
    <3>1. n = t
      BY <2>3 DEF AttributionAfter
    <3>2. Checkouts(S, order) = Checkouts(R, order)
      BY <1>1, <2>3 DEF Checkouts
    <3> QED BY <2>1, <3>1, <3>2
  <2> QED BY <2>2, <2>3
<1> QED BY <1>1 DEF AttributionTells

\* The orders with a payment: a paid event finds an amount in its own or an earlier event.
PaymentsTell(S, t) ==
  /\ {t[id].order : id \in DOMAIN t} =
       {order \in Orders(S) :
          \E x \in Payments(S, order), y \in Priced(S, order) : y = x \/ Before(y, x)}
  /\ \A id \in DOMAIN t : t[id].order = id[1]

\* One more event: payments, and the amount they find.
LEMMA PaymentsTellStep ==
  ASSUME None \notin Int, None \notin Statuses, NEW S, NEW e, Newest(S, e), EventRead(e),
         NEW t, NEW orders, OrdersTell(S \ {e}, orders), PaymentsTell(S \ {e}, t)
  PROVE  PaymentsTell(S, PaymentsAfter(t, orders, e))
<1> DEFINE R == S \ {e}
           old == Row(orders, e.order, BlankOrder)
           amount == AmountAfter(old, e)
           n == PaymentsAfter(t, orders, e)
           row == PaymentRow(amount, e)
           Has(X, order) ==
             \E x \in Payments(X, order), y \in Priced(X, order) : y = x \/ Before(y, x)
           Paid(X) == {order \in Orders(X) : Has(X, order)}
<1>1. e \in S /\ \A f \in R : Before(f, e) /\ ~ Before(e, f)
  BY DEF Newest, Before, Ordered
<1>2. Orders(S) = Orders(R) \cup IF OrderEvent(e) THEN {e.order} ELSE {}
  BY <1>1 DEF Orders, OrderEvent
<1>3. None \notin Orders(S) /\ None \notin Orders(R)
  BY DEF Orders
<1>4. ASSUME NEW order, order # None, ~ (OrderEvent(e) /\ e.order = order)
      PROVE  Has(S, order) <=> Has(R, order)
  <2>1. NoMore(S, R, e, order)
    BY <1>4, RefundsOf
  <2> QED BY <2>1 DEF NoMore
<1>5. ASSUME OrderEvent(e)
      PROVE  /\ Has(R, e.order) => Has(S, e.order)
             /\ e.name = "order_paid" /\ amount # None => Has(S, e.order)
             /\ ~ (e.name = "order_paid" /\ amount # None) => (Has(S, e.order) => Has(R, e.order))
  <2>1. e.order # None
    BY <1>5 DEF OrderEvent
  <2>2. OneMore(S, R, e, e.order)
    BY <1>5, <2>1, OrderEventsOf
  <2>3. amount # None <=> Priced(S, e.order) # {}
    <3>1. old.amount = IF Priced(R, e.order) = {} THEN None ELSE LastOf(Priced(R, e.order)).amount
      BY <2>1 DEF OrdersTell, RowTells
    <3>2. Priced(R, e.order) # {} => LastOf(Priced(R, e.order)) \in Priced(R, e.order)
      <4>1. Priced(R, e.order) \subseteq S
        BY DEF Priced, OrderEvents
      <4>2. Ordered(Priced(R, e.order))
        BY <4>1, OrderedSubset DEF Newest
      <4> QED BY <4>2, LastExists
    <3>3. Priced(R, e.order) # {} <=> old.amount # None
      BY <3>1, <3>2 DEF Priced
    <3>4. amount # None <=> e.amount # None \/ old.amount # None
      BY DEF AmountAfter, Or
    <3> HIDE DEF amount, old
    <3> QED BY <2>2, <3>3, <3>4 DEF OneMore
  <2>4. /\ Payments(R, e.order) \subseteq R /\ Priced(R, e.order) \subseteq R
        /\ Payments(R, e.order) \subseteq Payments(S, e.order)
        /\ Priced(R, e.order) \subseteq Priced(S, e.order)
        /\ Priced(S, e.order) \subseteq S
    BY DEF Payments, Priced, OrderEvents
  <2>5. Has(R, e.order) => Has(S, e.order)
    BY <2>4
  <2>6. ASSUME e.name = "order_paid", amount # None PROVE Has(S, e.order)
    <3>1. e \in Payments(S, e.order)
      BY <2>2, <2>6 DEF OneMore
    <3>2. PICK y \in Priced(S, e.order) : TRUE
      BY <2>3, <2>6
    <3>3. y = e \/ Before(y, e)
      BY <1>1, <2>4, <3>2
    <3> QED BY <3>1, <3>2, <3>3
  <2>7. ASSUME ~ (e.name = "order_paid" /\ amount # None), Has(S, e.order)
        PROVE  Has(R, e.order)
    <3>1. PICK x \in Payments(S, e.order), y \in Priced(S, e.order) : y = x \/ Before(y, x)
      BY <2>7
    <3>2. e.name # "order_paid"
      BY <2>3, <2>7, <3>1
    <3>3. x \in Payments(R, e.order)
      BY <2>2, <3>1, <3>2 DEF OneMore
    <3>4. x \in R /\ y # e
      BY <1>1, <2>4, <3>1, <3>3
    <3>5. y \in Priced(R, e.order)
      BY <2>2, <3>1, <3>4 DEF OneMore
    <3> QED BY <3>1, <3>3, <3>5
  <2> QED BY <2>5, <2>6, <2>7
<1>6. CASE OrderEvent(e) /\ e.name = "order_paid" /\ amount # None
  <2>1. n = Put(t, <<e.order, "payment">>, row)
    BY <1>6 DEF PaymentsAfter
  <2>2. row.order = e.order
    BY DEF PaymentRow
  <2>3. e.order # None
    BY <1>6 DEF OrderEvent
  <2>4. Paid(S) = Paid(R) \cup {e.order}
    <3> HIDE DEF Has, amount
    <3> QED BY <1>2, <1>3, <1>4, <1>5, <1>6, <2>3
  <2> HIDE DEF row
  <2>5. IsPut(n, t, <<e.order, "payment">>, row)
    BY <2>1, PutIs
  <2> HIDE DEF n, Paid, amount, old
  <2>6. \A id \in DOMAIN n : n[id].order = id[1]
    BY <2>2, <2>5 DEF IsPut, PaymentsTell
  <2>7. {n[id].order : id \in DOMAIN n} = {t[id].order : id \in DOMAIN t} \cup {e.order}
    <3>1. \A id \in DOMAIN t : id \in DOMAIN n /\ n[id].order = t[id].order
      BY <2>5, <2>6 DEF IsPut, PaymentsTell
    <3>2. \A id \in DOMAIN n : id \in DOMAIN t \/ n[id].order = e.order
      BY <2>2, <2>5 DEF IsPut
    <3>3. <<e.order, "payment">> \in DOMAIN n /\ n[<<e.order, "payment">>].order = e.order
      BY <2>2, <2>5 DEF IsPut
    <3> QED BY <3>1, <3>2, <3>3
  <2>8. {t[id].order : id \in DOMAIN t} = Paid(R)
    BY DEF PaymentsTell, Paid
  <2> QED BY <2>4, <2>6, <2>7, <2>8 DEF PaymentsTell, n, Paid
<1>7. CASE ~ (OrderEvent(e) /\ e.name = "order_paid" /\ amount # None)
  <2>1. n = t
    BY <1>7 DEF PaymentsAfter
  <2>2. Paid(S) = Paid(R)
    <3>1. ASSUME OrderEvent(e), e.order \notin Orders(R) PROVE ~ Has(R, e.order)
      BY <3>1 DEF Orders, Payments, OrderEvents, OrderEvent
    <3> HIDE DEF Has, amount
    <3> QED BY <1>2, <1>3, <1>4, <1>5, <1>7, <3>1
  <2>3. {t[id].order : id \in DOMAIN t} = Paid(R)
    BY DEF PaymentsTell
  <2>4. PaymentsTell(S, t) <=> /\ {t[id].order : id \in DOMAIN t} = Paid(S)
                              /\ \A id \in DOMAIN t : t[id].order = id[1]
    BY DEF PaymentsTell
  <2>5. \A id \in DOMAIN t : t[id].order = id[1]
    BY DEF PaymentsTell
  <2> HIDE DEF n, Paid
  <2>6. PaymentsTell(S, n)
    BY <2>1, <2>2, <2>3, <2>4, <2>5
  <2> QED BY <2>6 DEF n
<1> QED BY <1>6, <1>7

RefundsTell(S, t) ==
  /\ DOMAIN t = {e.refund : e \in RefundEvents(S)}
  /\ \A id \in DOMAIN t : t[id].store = LastOf({e \in RefundEvents(S) : e.refund = id}).store

\* One more event: refunds, with or without an order.
LEMMA RefundsTellStep ==
  ASSUME NEW S, NEW e, Newest(S, e), NEW t, RefundsTell(S \ {e}, t)
  PROVE  RefundsTell(S, RefundsAfter(t, e))
<1> DEFINE R == S \ {e}
           n == RefundsAfter(t, e)
           row == PaymentRow(e.amount, e)
           of(X, id) == {f \in RefundEvents(X) : f.refund = id}
<1>1. e \in S /\ RefundEvents(S) \subseteq S
  BY DEF Newest, RefundEvents
<1>2. RefundEvents(S) = RefundEvents(R) \cup IF RefundEvent(e) THEN {e} ELSE {}
  BY <1>1 DEF RefundEvents, RefundEvent
<1>3. CASE RefundEvent(e)
  <2>1. n = Put(t, e.refund, row)
    BY <1>3 DEF RefundsAfter
  <2>2. row.store = e.store
    BY DEF PaymentRow
  <2>3. IsPut(n, t, e.refund, row)
    BY <2>1, PutIs
  <2> HIDE DEF n, row
  <2>4. DOMAIN n = {f.refund : f \in RefundEvents(S)}
    BY <1>2, <1>3, <2>3 DEF IsPut, RefundsTell
  <2>5. LastOf(of(S, e.refund)) = e
    BY <1>1, <1>2, <1>3, NewestIsLast
  <2>6. \A id : id # e.refund => of(S, id) = of(R, id)
    BY <1>2
  <2>7. ASSUME NEW id \in DOMAIN n
        PROVE  n[id].store = LastOf(of(S, id)).store
    BY <2>2, <2>3, <2>5, <2>6 DEF IsPut, RefundsTell
  <2> QED BY <2>4, <2>7 DEF RefundsTell, n
<1>4. CASE ~ RefundEvent(e)
  <2>1. n = t
    BY <1>4 DEF RefundsAfter
  <2>2. RefundEvents(S) = RefundEvents(R)
    BY <1>2, <1>4
  <2> QED BY <2>1, <2>2 DEF RefundsTell
<1> QED BY <1>3, <1>4

CartsTell(S, t) ==
  \A cart \in DOMAIN t :
    t[cart].status = IF LastOf(CartEvents(S, cart)).name = "cart_updated" THEN "updated"
                     ELSE "checkout_started"

\* One more event: carts.
LEMMA CartsTellStep ==
  ASSUME None \notin Statuses, NEW S, NEW e, Newest(S, e), NEW t, CartsFit(t),
         CartsTell(S \ {e}, t)
  PROVE  CartsTell(S, CartsAfter(t, e))
<1> DEFINE R == S \ {e}
           n == CartsAfter(t, e)
           its == e.name \in {"cart_updated", "checkout_started"}
<1>1. /\ DOMAIN n = DOMAIN t \cup IF its THEN {e.cart} \ {None} ELSE {}
      /\ \A id \in DOMAIN n :
           n[id].status = IF its /\ e.cart = id
                          THEN IF e.name = "cart_updated" THEN "updated" ELSE "checkout_started"
                          ELSE t[id].status
  BY CartsKeep
<1> HIDE DEF n
<1>2. e \in S
  BY DEF Newest
<1>3. ASSUME NEW cart \in DOMAIN n
      PROVE  n[cart].status = IF LastOf(CartEvents(S, cart)).name = "cart_updated" THEN "updated"
                              ELSE "checkout_started"
  <2>1. CASE its /\ e.cart = cart
    <3>1. CartEvents(S, cart) \subseteq S /\ e \in CartEvents(S, cart)
      BY <1>2, <2>1 DEF CartEvents
    <3>2. LastOf(CartEvents(S, cart)) = e
      BY <3>1, NewestIsLast
    <3> QED BY <1>1, <2>1, <3>2
  <2>2. CASE ~ (its /\ e.cart = cart)
    <3>1. CartEvents(S, cart) = CartEvents(R, cart)
      BY <2>2 DEF CartEvents
    <3>2. cart \in DOMAIN t /\ n[cart].status = t[cart].status
      BY <1>1, <1>3, <2>2
    <3> QED BY <3>1, <3>2 DEF CartsTell
  <2> QED BY <2>1, <2>2
<1> QED BY <1>3 DEF CartsTell, n

ProfilesTell(S, t) ==
  /\ None \notin DOMAIN t
  /\ \A member : member # None =>
       Row(t, member, BlankProfile).order =
         IF PaidBy(S, member) = {} THEN None ELSE LastOf(PaidBy(S, member)).order

\* One more event: the order that a member paid last.
LEMMA ProfilesTellStep ==
  ASSUME NEW S, NEW e, Newest(S, e), NEW t, ProfilesTell(S \ {e}, t), NEW g, ProfilesFit(g),
         DOMAIN g = DOMAIN t \cup ({e.member} \ {None}),
         \A id \in DOMAIN g : g[id].order = IF id \in DOMAIN t THEN t[id].order ELSE None
  PROVE  ProfilesTell(S, ProfilesAfter(g, e))
<1> DEFINE R == S \ {e}
           n == ProfilesAfter(g, e)
           paying == OrderEvent(e) /\ e.name = "order_paid"
<1>1. /\ DOMAIN n = DOMAIN g
      /\ \A id \in DOMAIN n :
           n[id].order = IF OrderEvent(e) /\ e.name = "order_paid" /\ e.member = id /\ id # None
                         THEN e.order ELSE g[id].order
  BY ProfilesKeep
<1> HIDE DEF n
<1>2. e \in S
  BY DEF Newest
<1>3. BlankProfile.order = None
  BY DEF BlankProfile
<1>4. ASSUME NEW member, member # None
      PROVE  Row(n, member, BlankProfile).order =
               IF PaidBy(S, member) = {} THEN None ELSE LastOf(PaidBy(S, member)).order
  <2>1. CASE paying /\ e.member = member
    <3>1. PaidBy(S, member) \subseteq S /\ e \in PaidBy(S, member)
      BY <1>2, <2>1 DEF PaidBy, OrderEvent
    <3>2. LastOf(PaidBy(S, member)) = e
      BY <3>1, NewestIsLast
    <3>3. Row(n, member, BlankProfile).order = e.order
      BY <1>1, <1>4, <2>1, RowIs
    <3> QED BY <3>1, <3>2, <3>3
  <2>2. CASE ~ (paying /\ e.member = member)
    <3>1. PaidBy(S, member) = PaidBy(R, member)
      BY <2>2 DEF PaidBy, OrderEvent
    <3>2. Row(n, member, BlankProfile).order = Row(t, member, BlankProfile).order
      BY <1>1, <1>3, <2>2 DEF Row
    <3> QED BY <1>4, <3>1, <3>2 DEF ProfilesTell
  <2> QED BY <2>1, <2>2
<1>5. None \notin DOMAIN n
  BY <1>1 DEF ProfilesTell
<1> QED BY <1>4, <1>5 DEF ProfilesTell, n

ActionsTell(S, t) ==
  /\ {t[id].source : id \in DOMAIN t} =
       Ids({e \in S : e.name \in DOMAIN ActionNames /\ e.plan # None})
  /\ \A id \in DOMAIN t : t[id].source = id[3]

\* One more event: what a merchant did, once for each event.
LEMMA ActionsTellStep ==
  ASSUME NEW S, NEW e \in S, NEW t, ActionsTell(S \ {e}, t)
  PROVE  ActionsTell(S, ActionsAfter(t, e))
<1> DEFINE R == S \ {e}
           n == ActionsAfter(t, e)
           told(X) == {f \in X : f.name \in DOMAIN ActionNames /\ f.plan # None}
<1>1. CASE e.name \in DOMAIN ActionNames /\ e.plan # None
  <2> DEFINE id == <<e.plan, ActionNames[e.name], e.id>>
             row == [plan |-> e.plan, store |-> e.store, action |-> ActionNames[e.name],
                     at |-> e.time, source |-> e.id]
  <2>1. n = Put(t, id, row)
    BY <1>1 DEF ActionsAfter
  <2>2. row.source = e.id /\ id[3] = e.id
    OBVIOUS
  <2> HIDE DEF id, row
  <2>3. IsPut(n, t, id, row)
    BY <2>1, PutIs
  <2> HIDE DEF n
  <2>4. \A x \in DOMAIN n : n[x].source = x[3]
    BY <2>2, <2>3 DEF IsPut, ActionsTell
  <2>5. {n[x].source : x \in DOMAIN n} = {t[x].source : x \in DOMAIN t} \cup {e.id}
    <3>1. \A x \in DOMAIN t : x \in DOMAIN n /\ n[x].source = t[x].source
      BY <2>3, <2>4 DEF IsPut, ActionsTell
    <3>2. \A x \in DOMAIN n : x \in DOMAIN t \/ n[x].source = e.id
      BY <2>2, <2>3 DEF IsPut
    <3>3. id \in DOMAIN n /\ n[id].source = e.id
      BY <2>2, <2>3 DEF IsPut
    <3> QED BY <3>1, <3>2, <3>3
  <2>6. told(S) = told(R) \cup {e}
    BY <1>1
  <2>7. Ids(told(S)) = Ids(told(R)) \cup {e.id}
    <3> HIDE DEF told
    <3> QED BY <2>6 DEF Ids
  <2>8. {t[x].source : x \in DOMAIN t} = Ids(told(R))
    BY DEF ActionsTell
  <2> HIDE DEF told
  <2> QED BY <2>4, <2>5, <2>7, <2>8 DEF ActionsTell, n, told
<1>2. CASE ~ (e.name \in DOMAIN ActionNames /\ e.plan # None)
  <2>1. n = t
    BY <1>2 DEF ActionsAfter
  <2>2. told(S) = told(R)
    BY <1>2
  <2> QED BY <2>1, <2>2 DEF ActionsTell
<1> QED BY <1>1, <1>2
-------------------------------------------------------------------------------
TablesTell(S, m) ==
  /\ PaymentsTell(S, m.payments) /\ RefundsTell(S, m.refunds) /\ CartsTell(S, m.carts)
  /\ ProfilesTell(S, m.profiles) /\ ActionsTell(S, m.actions)
Told(S, m) ==
  /\ Fits(m)
  /\ OrdersTell(S, m.orders) /\ AttributionTells(S, m.attribution) /\ TablesTell(S, m)

\* Empty tables tell of no events.
LEMMA NothingToldYet ==
  Told({}, NothingProjected)
<1> DEFINE m == NothingProjected
<1>1. DOMAIN m = Tables /\ \A t \in Tables : m[t] = NoRows
  BY DEF NothingProjected
<1>2. DOMAIN NoRows = {}
  BY DEF NoRows
<1> HIDE DEF m
<1>3. /\ m.sessions = NoRows /\ m.members = NoRows /\ m.profiles = NoRows /\ m.menus = NoRows
      /\ m.items = NoRows /\ m.carts = NoRows /\ m.orders = NoRows /\ m.refunds = NoRows
      /\ m.lines = NoRows /\ m.payments = NoRows /\ m.actions = NoRows
      /\ m.attribution = NoRows
  BY <1>1 DEF Tables
<1>4. GeneralFit(m)
  BY <1>1, <1>2, <1>3
  DEF GeneralFit, SessionsFit, MembersFit, ProfilesFit, MenusFit, ItemsFit
<1>5. SpecialFit(m)
  BY <1>2, <1>3, FS_EmptySet DEF SpecialFit, CartsFit, OrdersFit, LinesFit
<1>6. \A id, blank : Row(NoRows, id, blank) = blank
  BY <1>2 DEF Row
<1>7. OrdersTell({}, NoRows)
  <2>1. Orders({}) = {}
    BY DEF Orders
  <2>2. ASSUME NEW order, order # None PROVE RowTells({}, order, BlankOrder)
    <3>1. OrderEvents({}, order) = {}
      BY DEF OrderEvents
    <3>2. /\ Known({}, order) = {} /\ Payments({}, order) = {} /\ Priced({}, order) = {}
          /\ Named({}, order) = {} /\ Settled({}, order) = {}
      BY <3>1 DEF Known, Payments, Priced, Named, Settled
    <3>3. Ids({}) = {}
      BY DEF Ids
    <3> QED BY <3>1, <3>2, <3>3 DEF RowTells, BlankOrder
  <2> QED BY <1>2, <1>6, <2>1, <2>2 DEF OrdersTell
<1>8. AttributionTells({}, NoRows)
  BY <1>6 DEF AttributionTells, Ids, Checkouts
<1>9. PaymentsTell({}, NoRows)
  BY <1>2 DEF PaymentsTell, Orders
<1>10. RefundsTell({}, NoRows) /\ CartsTell({}, NoRows)
  BY <1>2 DEF RefundsTell, RefundEvents, CartsTell
<1>11. ProfilesTell({}, NoRows)
  BY <1>2, <1>6 DEF ProfilesTell, PaidBy, BlankProfile
<1>12. ActionsTell({}, NoRows)
  BY <1>2 DEF ActionsTell, Ids
<1> QED BY <1>3, <1>4, <1>5, <1>7, <1>8, <1>9, <1>10, <1>11, <1>12
        DEF Told, Fits, TablesTell, m

\* One more event, the newest, and every table.
LEMMA ToldStep ==
  ASSUME None \notin Int, None \notin Statuses, NEW S, NEW e, Newest(S, e), EventRead(e),
         NEW m, Told(S \ {e}, m)
  PROVE  Told(S, ProjectEvent(m, e))
<1> DEFINE R == S \ {e}
           g == General(m, e)
           n == ProjectEvent(m, e)
<1>1. Fits(m) /\ Fits(n)
  BY ProjectEventFits DEF Told
<1>2. /\ GeneralFit(g)
      /\ \A t \in SpecialTables : g[t] = m[t]
      /\ DOMAIN g.profiles = DOMAIN m.profiles \cup ({e.member} \ {None})
      /\ \A id \in DOMAIN g.profiles :
           g.profiles[id].order = IF id \in DOMAIN m.profiles THEN m.profiles[id].order ELSE None
  BY <1>1, GeneralIs DEF Fits
<1>3. EventDoes(g, n, e)
  BY <1>2, ProjectEventDoes DEF GeneralFit
<1> HIDE DEF g, n
<1>4. /\ g.orders = m.orders /\ g.attribution = m.attribution /\ g.payments = m.payments
      /\ g.refunds = m.refunds /\ g.carts = m.carts /\ g.actions = m.actions
  BY <1>2 DEF SpecialTables
<1>5. e \in S
  BY DEF Newest
<1>6. OrdersTell(S, n.orders)
  <2>1. OrdersFit(m.orders) /\ OrdersTell(R, m.orders)
    BY <1>1 DEF Told, Fits, SpecialFit
  <2>2. OrdersTell(S, OrdersAfter(m.orders, e))
    BY <2>1, OrdersTellStep
  <2> QED BY <1>3, <1>4, <2>2 DEF EventDoes
<1>7. AttributionTells(S, n.attribution)
  <2>1. AttributionTells(S, AttributionAfter(m.attribution, e))
    BY <1>5, AttributionTellsStep DEF Told
  <2> QED BY <1>3, <1>4, <2>1 DEF EventDoes
<1>8. PaymentsTell(S, n.payments)
  <2>1. PaymentsTell(S, PaymentsAfter(m.payments, m.orders, e))
    BY PaymentsTellStep DEF Told, TablesTell
  <2> QED BY <1>3, <1>4, <2>1 DEF EventDoes
<1>9. RefundsTell(S, n.refunds)
  <2>1. RefundsTell(S, RefundsAfter(m.refunds, e))
    BY RefundsTellStep DEF Told, TablesTell
  <2> QED BY <1>3, <1>4, <2>1 DEF EventDoes
<1>10. CartsTell(S, n.carts)
  <2>1. CartsFit(m.carts) /\ CartsTell(R, m.carts)
    BY <1>1 DEF Told, TablesTell, Fits, SpecialFit
  <2>2. CartsTell(S, CartsAfter(m.carts, e))
    BY <2>1, CartsTellStep
  <2> QED BY <1>3, <1>4, <2>2 DEF EventDoes
<1>11. ProfilesTell(S, n.profiles)
  <2>1. ProfilesTell(R, m.profiles) /\ ProfilesFit(g.profiles)
    BY <1>2 DEF Told, TablesTell, GeneralFit
  <2>2. ProfilesTell(S, ProfilesAfter(g.profiles, e))
    BY <1>2, <2>1, ProfilesTellStep
  <2> QED BY <1>3, <2>2 DEF EventDoes
<1>12. ActionsTell(S, n.actions)
  <2>1. ActionsTell(S, ActionsAfter(m.actions, e))
    BY <1>5, ActionsTellStep DEF Told, TablesTell
  <2> QED BY <1>3, <1>4, <2>1 DEF EventDoes
<1> QED BY <1>1, <1>6, <1>7, <1>8, <1>9, <1>10, <1>11, <1>12 DEF Told, TablesTell, n

\* However many events: what the fold has made of a set tells of that set.
EventsRead(E) == Ordered(E) /\ \A e \in E : EventRead(e)

LEMMA ProjectedTells ==
  ASSUME None \notin Int, None \notin Statuses, NEW E, EventsRead(E)
  PROVE  Told(E, Projected(E)[E])
<1> DEFINE P == Projected(E)
           Bad == {n \in Nat : \E S \in SUBSET E : Cardinality(S) = n /\ ~ Told(S, P[S])}
<1>1. Bad = {}
  <2> SUFFICES ASSUME Bad # {} PROVE FALSE
    OBVIOUS
  <2>1. PICK n \in Bad : \A k \in Bad : n <= k
    BY LeastNat
  <2>2. PICK S \in SUBSET E : Cardinality(S) = n /\ ~ Told(S, P[S])
    BY <2>1
  <2>3. P[S] = IF S = {} THEN NothingProjected
               ELSE ProjectEvent(P[S \ {LastOf(S)}], LastOf(S))
    BY ProjectedEquation DEF EventsRead
  <2> HIDE DEF P
  <2>4. S # {}
    BY <2>2, <2>3, NothingToldYet
  <2> DEFINE e == LastOf(S)
             R == S \ {e}
  <2>5. Newest(S, e) /\ EventRead(e)
    <3>1. Ordered(S)
      BY OrderedSubset DEF EventsRead
    <3> QED BY <2>4, <3>1, LastExists DEF Newest, EventsRead
  <2> HIDE DEF e
  <2>6. Cardinality(R) = n - 1 /\ n - 1 \in Nat /\ R \in SUBSET E
    <3>1. IsFiniteSet(S) /\ IsFiniteSet(R) /\ e \in S
      BY <2>5, FS_Subset DEF Newest, Ordered
    <3>2. Cardinality(R) \in Nat /\ Cardinality(S) \in Nat
      BY <3>1, FS_CardinalityType
    <3> QED BY <2>2, <3>1, <3>2, FS_RemoveElement
  <2>7. n - 1 \notin Bad
    <3>1. n \in Nat
      BY <2>1
    <3> HIDE DEF Bad
    <3> QED BY <2>1, <3>1
  <2>8. Told(R, P[R])
    BY <2>6, <2>7
  <2>9. P[S] = ProjectEvent(P[R], e)
    BY <2>3, <2>4 DEF e
  <2>10. Told(S, ProjectEvent(P[R], e))
    BY <2>5, <2>8, ToldStep
  <2> QED BY <2>2, <2>9, <2>10
<1>2. Cardinality(E) \in Nat
  BY FS_CardinalityType DEF EventsRead, Ordered
<1> HIDE DEF P
<1> QED BY <1>1, <1>2 DEF P
-------------------------------------------------------------------------------
OrdersFollow(S, t) ==
  DOMAIN t = Orders(S) /\ \A order \in DOMAIN t : OrderIs(S, order, t[order])
Followed(S, m) == Fits(m) /\ OrdersFollow(S, m.orders) /\ TablesTell(S, m)

\* After the loop: attribution reaches every order, whichever came first.
LEMMA AttributedFollows ==
  ASSUME NEW S, NEW m, Told(S, m)
  PROVE  Followed(S, Attributed(m))
<1> DEFINE orders == AttributedOrders(m.orders, m.attribution)
           n == Attributed(m)
<1>1. n = [m EXCEPT !.orders = orders]
  BY DEF Attributed
<1>2. DOMAIN orders = DOMAIN m.orders
  BY DEF AttributedOrders
<1>3. ASSUME NEW order \in DOMAIN orders
      PROVE  OrderFits(orders[order]) /\ OrderIs(S, order, orders[order])
  <2> DEFINE old == m.orders[order]
             more == Row(m.attribution, order, {})
             row == [old EXCEPT !.attribution = @ \cup more]
  <2>1. orders[order] = row
    BY <1>2, <1>3 DEF AttributedOrders
  <2>2. OrderFits(old) /\ order \in DOMAIN m.orders /\ order \in Orders(S)
    BY <1>2, <1>3 DEF Told, Fits, SpecialFit, OrdersFit, OrdersTell
  <2>3. order # None /\ OrderEvents(S, order) # {}
    BY <2>2 DEF Orders, OrderEvents
  <2>4. RowTells(S, order, old)
    BY <2>2, <2>3, RowIs DEF Told, OrdersTell
  <2>5. more = Ids(Checkouts(S, order))
    BY <2>3 DEF Told, AttributionTells
  <2>6. DOMAIN BlankOrder =
          {"store", "sources", "member", "status", "opened", "paid", "amount", "attribution"}
    BY DEF BlankOrder
  <2> HIDE DEF old, more
  <2>7. /\ DOMAIN row = DOMAIN BlankOrder
        /\ row.status = old.status /\ row.paid = old.paid /\ row.amount = old.amount
        /\ row.store = old.store /\ row.sources = old.sources
        /\ row.attribution = old.attribution \cup more
    BY <2>2, <2>6 DEF OrderFits
  <2> HIDE DEF row
  <2>8. OrderFits(row)
    BY <2>2, <2>7 DEF OrderFits
  <2>9. row.attribution = Ids(Checkouts(S, order))
    BY <2>4, <2>5, <2>7 DEF RowTells
  <2>10. OrderIs(S, order, row)
    <3>1. Known(S, order) = Refunds(S, order)
      BY <2>3 DEF Known
    <3>2. Settled(S, order) = Payments(S, order) \cup Refunds(S, order)
          /\ Named(S, order) = {e \in OrderEvents(S, order) : e.store # None}
      BY <3>1 DEF Settled, Named
    <3> QED BY <2>3, <2>4, <2>7, <2>9, <3>1, <3>2 DEF RowTells, OrderIs
  <2> QED BY <2>1, <2>8, <2>10
<1> HIDE DEF orders, n
<1>4. /\ DOMAIN m = Tables
      /\ DOMAIN n = Tables /\ n.orders = orders /\ \A t \in Tables \ {"orders"} : n[t] = m[t]
  BY <1>1 DEF Told, Fits, GeneralFit, Tables
<1>5. /\ n.sessions = m.sessions /\ n.members = m.members /\ n.profiles = m.profiles
      /\ n.menus = m.menus /\ n.items = m.items /\ n.carts = m.carts /\ n.refunds = m.refunds
      /\ n.lines = m.lines /\ n.payments = m.payments /\ n.actions = m.actions
  BY <1>4 DEF Tables
<1>6. GeneralFit(n)
  BY <1>4, <1>5 DEF Told, Fits, GeneralFit
<1>7. SpecialFit(n)
  <2>1. OrdersFit(n.orders)
    BY <1>2, <1>3, <1>4 DEF OrdersFit, Told, Fits, SpecialFit
  <2>2. SpecialFit(m)
    BY DEF Told, Fits
  <2> QED BY <1>2, <1>4, <1>5, <2>1, <2>2 DEF SpecialFit
<1>8. OrdersFollow(S, n.orders)
  BY <1>2, <1>3, <1>4 DEF OrdersFollow, Told, OrdersTell
<1>9. TablesTell(S, n)
  BY <1>5 DEF Told, TablesTell
<1> QED BY <1>6, <1>7, <1>8, <1>9 DEF Followed, Fits, n

LabelRead(label) == label.member # None /\ label.date \in Int

\* A label changes no order, payment, refund or cart, and no latest order.
LEMMA LabelledFollows ==
  ASSUME None \notin Int, NEW S, NEW m, Followed(S, m), NEW label, LabelRead(label)
  PROVE  Followed(S, Labelled(m, label))
<1> DEFINE member == LabelledMemberRow(m.members, label)
           profile == LabelledProfileRow(m.profiles, label)
           members == Put(m.members, label.member, member)
           profiles == Put(m.profiles, label.member, profile)
           n == Labelled(m, label)
<1>1. n = [m EXCEPT !.members = members, !.profiles = profiles]
  BY DEF Labelled
<1>2. /\ MembersFit(m.members) /\ ProfilesFit(m.profiles) /\ DOMAIN m = Tables
      /\ DOMAIN m.profiles \subseteq DOMAIN m.members /\ ProfilesTell(S, m.profiles)
  BY DEF Followed, Fits, GeneralFit, TablesTell
<1>3. DOMAIN member = DOMAIN BlankMember /\ Dated(member)
  <2> DEFINE old == Row(m.members, label.member, BlankMember)
  <2>1. DOMAIN BlankMember = {"store", "sources", "first", "last"}
        /\ BlankMember.first = None /\ BlankMember.last = None
    BY DEF BlankMember
  <2>2. DOMAIN old = DOMAIN BlankMember
        /\ (\/ old.first = None /\ old.last = None
            \/ old.first \in Int /\ old.last \in Int /\ old.first <= old.last)
    <3>1. CASE label.member \in DOMAIN m.members
      BY <1>2, <3>1, RowIs DEF MembersFit, Dated
    <3>2. CASE label.member \notin DOMAIN m.members
      <4>1. old = BlankMember
        BY <3>2, RowIs
      <4> QED BY <2>1, <4>1
    <3> QED BY <3>1, <3>2
  <2>3. member = [old EXCEPT !.store = Or(@, label.store), !.first = Earlier(@, label.date),
                             !.last = Later(@, label.date)]
    BY DEF LabelledMemberRow
  <2> HIDE DEF old, member
  <2>4. DOMAIN member = DOMAIN BlankMember /\ member.first = Earlier(old.first, label.date)
        /\ member.last = Later(old.last, label.date)
    BY <2>1, <2>2, <2>3
  <2> QED BY <2>2, <2>4, DatesWiden DEF Dated, LabelRead
<1>4. DOMAIN profile = DOMAIN BlankProfile
      /\ profile.order = Row(m.profiles, label.member, BlankProfile).order
  <2> DEFINE old == Row(m.profiles, label.member, BlankProfile)
  <2>1. DOMAIN BlankProfile = {"store", "sources", "order", "paid"}
    BY DEF BlankProfile
  <2>2. DOMAIN old = DOMAIN BlankProfile
    BY <1>2, RowIs DEF ProfilesFit
  <2>3. profile = [old EXCEPT !.store = Or(@, label.store), !.paid = Later(@, label.paid)]
    BY DEF LabelledProfileRow
  <2> HIDE DEF old, profile
  <2>4. DOMAIN profile = DOMAIN BlankProfile /\ profile.order = old.order
    BY <2>1, <2>2, <2>3
  <2> QED BY <2>4 DEF old
<1> HIDE DEF member, profile
<1>5. MembersFit(members) /\ DOMAIN members = DOMAIN m.members \cup {label.member}
  <2>1. IsPut(members, m.members, label.member, member)
    BY PutIs
  <2> HIDE DEF members
  <2> QED BY <1>2, <1>3, <2>1 DEF MembersFit, IsPut
<1>6. /\ ProfilesFit(profiles) /\ DOMAIN profiles = DOMAIN m.profiles \cup {label.member}
      /\ ProfilesTell(S, profiles)
  <2>1. IsPut(profiles, m.profiles, label.member, profile)
    BY PutIs
  <2> HIDE DEF profiles
  <2>2. ProfilesFit(profiles) /\ DOMAIN profiles = DOMAIN m.profiles \cup {label.member}
    BY <1>2, <1>4, <2>1 DEF ProfilesFit, IsPut
  <2>3. \A id : Row(profiles, id, BlankProfile).order = Row(m.profiles, id, BlankProfile).order
    BY <1>4, <2>1, RowAfterPut
  <2> QED BY <1>2, <2>2, <2>3 DEF ProfilesTell, LabelRead
<1> HIDE DEF members, profiles, n
<1>7. /\ DOMAIN n = Tables /\ n.members = members /\ n.profiles = profiles
      /\ \A t \in Tables \ {"members", "profiles"} : n[t] = m[t]
  BY <1>1, <1>2 DEF Tables
<1>8. /\ n.sessions = m.sessions /\ n.menus = m.menus /\ n.items = m.items /\ n.carts = m.carts
      /\ n.orders = m.orders /\ n.refunds = m.refunds /\ n.lines = m.lines
      /\ n.payments = m.payments /\ n.actions = m.actions
  BY <1>7 DEF Tables
<1>9. GeneralFit(n)
  BY <1>2, <1>5, <1>6, <1>7, <1>8 DEF Followed, Fits, GeneralFit
<1>10. SpecialFit(n)
  BY <1>8 DEF Followed, Fits, SpecialFit
<1>11. OrdersFollow(S, n.orders) /\ TablesTell(S, n)
  BY <1>6, <1>7, <1>8 DEF Followed, TablesTell
<1> QED BY <1>9, <1>10, <1>11 DEF Followed, Fits, n

\* The loop over the labels, by its equation.
LEMMA LabelsEquation ==
  ASSUME NEW m, NEW labels, Len(labels) \in Nat
  PROVE  \A n \in 0..Len(labels) :
           WithLabels(m, labels)[n] =
             IF n = 0 THEN m ELSE Labelled(WithLabels(m, labels)[n - 1], labels[n])
<1> DEFINE Value(g, n) == IF n = 0 THEN m ELSE Labelled(g[n - 1], labels[n])
           Good(g, k) == g = [n \in 0..k |-> Value(g, n)]
           Bad == {k \in Nat : ~ \E g : Good(g, k)}
<1>1. Bad = {}
  <2> SUFFICES ASSUME Bad # {} PROVE FALSE
    OBVIOUS
  <2>1. PICK k \in Bad : \A i \in Bad : k <= i
    BY LeastNat
  <2>2. k # 0
    <3> DEFINE g == [n \in 0..0 |-> m]
    <3>1. g = [n \in 0..0 |-> Value(g, n)]
      OBVIOUS
    <3>2. Good(g, 0)
      BY <3>1
    <3> HIDE DEF g, Good
    <3> QED BY <3>2, <2>1
  <2>3. PICK g : Good(g, k - 1)
    <3>1. k \in Nat
      BY <2>1
    <3>2. k - 1 \in Nat /\ k - 1 \notin Bad
      <4> HIDE DEF Bad
      <4> QED BY <3>1, <2>1, <2>2
    <3> QED BY <3>2
  <2> DEFINE h == [n \in 0..k |-> Value(g, n)]
  <2>4. \A n \in 0..k : Value(g, n) = Value(h, n)
    <3> SUFFICES ASSUME NEW n \in 0..k, n # 0 PROVE g[n - 1] = h[n - 1]
      OBVIOUS
    <3>1. n - 1 \in 0..(k - 1) /\ n - 1 \in 0..k
      BY <2>1
    <3>2. h[n - 1] = Value(g, n - 1)
      BY <3>1
    <3>3. g[n - 1] = Value(g, n - 1)
      <4> HIDE DEF Value
      <4> QED BY <3>1, <2>3
    <3> QED BY <3>2, <3>3
  <2>5. Good(h, k)
    <3> HIDE DEF Value
    <3> QED BY <2>4
  <2> HIDE DEF h, Good
  <2> QED BY <2>1, <2>5
<1>2. \E g : g = [n \in 0..Len(labels) |-> Value(g, n)]
  BY <1>1
<1> DEFINE F == WithLabels(m, labels)
<1>3. F = CHOOSE g : g = [n \in 0..Len(labels) |-> Value(g, n)]
  BY DEF WithLabels
<1>4. F = [n \in 0..Len(labels) |-> Value(F, n)]
  <2> HIDE DEF F, Value
  <2> QED BY <1>2, <1>3, Zenon
<1>5. \A n \in 0..Len(labels) : F[n] = Value(F, n)
  <2> HIDE DEF F, Value
  <2> QED BY <1>4
<1> QED BY <1>5

\* What a rebuild makes of events and labels tells of the events, and has the labels.
LEMMA RebuildFollows ==
  ASSUME None \notin Int, None \notin Statuses, NEW E, EventsRead(E),
         NEW labels, Len(labels) \in Nat, \A i \in 1..Len(labels) : LabelRead(labels[i])
  PROVE  Followed(E, Rebuild(E, labels)) /\ Rebuild(E, labels).labels = labels
<1> DEFINE m == Attributed(Projected(E)[E])
           L == WithLabels(m, labels)
           Bad == {k \in Nat : k <= Len(labels) /\ ~ Followed(E, L[k])}
<1>1. Followed(E, m)
  BY ProjectedTells, AttributedFollows
<1>2. \A n \in 0..Len(labels) : L[n] = IF n = 0 THEN m ELSE Labelled(L[n - 1], labels[n])
  BY LabelsEquation
<1> HIDE DEF m, L
<1>3. Bad = {}
  <2> SUFFICES ASSUME Bad # {} PROVE FALSE
    OBVIOUS
  <2>1. PICK k \in Bad : \A i \in Bad : k <= i
    BY LeastNat
  <2>2. k \in 0..Len(labels) /\ ~ Followed(E, L[k])
    BY <2>1
  <2>3. k # 0
    BY <1>1, <1>2, <2>2
  <2>4. k - 1 \in Nat /\ k - 1 <= Len(labels) /\ k \in 1..Len(labels)
    BY <2>2, <2>3
  <2>5. k - 1 \notin Bad
    <3> HIDE DEF Bad
    <3> QED BY <2>1, <2>2
  <2>6. Followed(E, L[k - 1])
    BY <2>4, <2>5
  <2>7. Followed(E, Labelled(L[k - 1], labels[k]))
    BY <2>4, <2>6, LabelledFollows
  <2> QED BY <1>2, <2>2, <2>3, <2>7
<1> DEFINE n == L[Len(labels)]
           r == Rebuild(E, labels)
<1>4. Followed(E, n)
  BY <1>3
<1>5. r = [n EXCEPT !.labels = labels]
  BY DEF Rebuild, L, m
<1> HIDE DEF n, r
<1>6. /\ DOMAIN r = Tables /\ r.labels = labels
      /\ \A t \in Tables \ {"labels"} : r[t] = n[t]
  BY <1>4, <1>5 DEF Followed, Fits, GeneralFit, Tables
<1>7. /\ r.sessions = n.sessions /\ r.members = n.members /\ r.profiles = n.profiles
      /\ r.menus = n.menus /\ r.items = n.items /\ r.carts = n.carts /\ r.refunds = n.refunds
      /\ r.lines = n.lines /\ r.payments = n.payments /\ r.actions = n.actions
      /\ r.orders = n.orders
  BY <1>6 DEF Tables
<1>8. Fits(r)
  BY <1>4, <1>6, <1>7 DEF Followed, Fits, GeneralFit, SpecialFit
<1>9. OrdersFollow(E, r.orders) /\ TablesTell(E, r)
  BY <1>4, <1>7 DEF Followed, TablesTell
<1> QED BY <1>6, <1>8, <1>9 DEF Followed, r

\* So the tables say what ModelsFollow says.
LEMMA ModelsFollowThem ==
  ASSUME NEW S, NEW m, Followed(S, m)
  PROVE  ModelsFollow(S, m)
<1>1. DOMAIN m.orders = Orders(S) /\ \A order \in DOMAIN m.orders : OrderIs(S, order, m.orders[order])
  BY DEF Followed, OrdersFollow
<1>2. /\ PaymentsTell(S, m.payments) /\ RefundsTell(S, m.refunds) /\ CartsTell(S, m.carts)
      /\ ProfilesTell(S, m.profiles) /\ ActionsTell(S, m.actions)
  BY DEF Followed, TablesTell
<1>3. OthersAre(S, m)
  <2>1. ASSUME NEW member \in DOMAIN m.profiles
        PROVE  m.profiles[member].order =
                 IF PaidBy(S, member) = {} THEN None ELSE LastOf(PaidBy(S, member)).order
    <3>1. member # None
      BY <1>2, <2>1 DEF ProfilesTell
    <3>2. Row(m.profiles, member, BlankProfile) = m.profiles[member]
      BY <2>1, RowIs
    <3> QED BY <1>2, <3>1, <3>2 DEF ProfilesTell
  <2> QED BY <1>2, <2>1 DEF OthersAre, CartsTell, RefundsTell
<1> QED BY <1>1, <1>2, <1>3 DEF ModelsFollow, PaymentsTell, RefundsTell, ActionsTell

\* ... and the metrics what MetricsFollow says.
LEMMA MetricsFollowThem ==
  ASSUME None \notin Int, None # Store, NEW S, EventsRead(S), NEW m, Followed(S, m)
  PROVE  MetricsFollow(S, Metrics(m, Store))
<1> DEFINE mine(order) == LET named == {e \in OrderEvents(S, order) : e.store # None} IN
                          named # {} /\ FirstOf(named).store = Store
           paid == {order \in Orders(S) :
                      mine(order) /\ Payments(S, order) # {} /\ Priced(S, order) # {}}
           refunded == {id \in {e.refund : e \in RefundEvents(S)} :
                          LastOf({e \in RefundEvents(S) : e.refund = id}).store = Store}
           f == [id \in PaidOrders(m, Store) |-> m.orders[id].amount]
           g == [order \in paid |-> LastOf(Priced(S, order)).amount]
<1>1. DOMAIN m.orders = Orders(S) /\ \A order \in DOMAIN m.orders : OrderIs(S, order, m.orders[order])
  BY DEF Followed, OrdersFollow
<1>2. ASSUME NEW order \in Orders(S)
      PROVE  /\ m.orders[order].store = Store <=> mine(order)
             /\ m.orders[order].paid # None <=> Payments(S, order) # {}
             /\ m.orders[order].amount # None <=> Priced(S, order) # {}
             /\ Priced(S, order) # {} =>
                  m.orders[order].amount = LastOf(Priced(S, order)).amount
  <2> DEFINE row == m.orders[order]
             named == {e \in OrderEvents(S, order) : e.store # None}
  <2>1. OrderIs(S, order, row)
    BY <1>1, <1>2
  <2> HIDE DEF row
  <2>2. OrderEvents(S, order) \subseteq S
    BY DEF OrderEvents
  <2>3. Ordered(Payments(S, order)) /\ Ordered(Priced(S, order))
    <3>1. Payments(S, order) \subseteq S /\ Priced(S, order) \subseteq S
      BY <2>2 DEF Payments, Priced
    <3> QED BY <3>1, OrderedSubset DEF EventsRead
  <2>4. Payments(S, order) # {} => LastOf(Payments(S, order)).time \in Int
    BY <2>2, <2>3, LastExists DEF Payments, EventsRead, EventRead
  <2>5. Priced(S, order) # {} => LastOf(Priced(S, order)).amount # None
    BY <2>3, LastExists DEF Priced
  <2>6. row.store = Store <=> mine(order)
    BY <2>1 DEF OrderIs
  <2>7. row.paid # None <=> Payments(S, order) # {}
    BY <2>1, <2>4 DEF OrderIs
  <2>8. /\ row.amount # None <=> Priced(S, order) # {}
        /\ Priced(S, order) # {} => row.amount = LastOf(Priced(S, order)).amount
    BY <2>1, <2>5 DEF OrderIs
  <2> QED BY <2>6, <2>7, <2>8 DEF row
<1>3. PaidOrders(m, Store) = paid
  <2> HIDE DEF mine
  <2> QED BY <1>1, <1>2 DEF PaidOrders, IdsOf
<1>4. IdsOf(m.refunds, Store) = refunded
  BY DEF IdsOf, Followed, TablesTell, RefundsTell
<1>5. f = g
  <2>1. \A order \in paid : m.orders[order].amount = LastOf(Priced(S, order)).amount
    <3> HIDE DEF mine
    <3> QED BY <1>2
  <2> HIDE DEF paid
  <2> QED BY <1>3, <2>1
<1>6. /\ Metrics(m, Store).refund_rate.numerator = Cardinality(IdsOf(m.refunds, Store))
      /\ Metrics(m, Store).refund_rate.denominator = Cardinality(PaidOrders(m, Store))
      /\ Metrics(m, Store).avg_order_value.numerator = SumOf(f)
  BY DEF Metrics, Metric
<1>7. /\ Metrics(m, Store).refund_rate.numerator = Cardinality(refunded)
      /\ Metrics(m, Store).refund_rate.denominator = Cardinality(paid)
      /\ Metrics(m, Store).avg_order_value.numerator = SumOf(g)
  <2> HIDE DEF paid, refunded, f, g
  <2> QED BY <1>3, <1>4, <1>5, <1>6
<1> QED BY <1>7 DEF MetricsFollow
-------------------------------------------------------------------------------
\* Every output comes from a part of the log that was received by then: the tables from that
\* of their watermark, snapshots from some such tables, gaps from some such snapshots.  The log
\* only grows, so what an output was built from stays what it was.
Built(n) == Rebuild(ReceivedUpTo(n), Labels)
BuiltSnapshots(n) == SnapshotsOf(Built(n), Store, Date, Confirmations)

LogRead == log \in Seq(Events) /\ Len(log) <= MaxLog
ModelsTraced ==
  \/ models = NotBuilt /\ watermark = NotBuilt
  \/ /\ watermark.count \in 0..Len(log) /\ models = Built(watermark.count)
     /\ watermark.count > 0 => log[watermark.count].id = watermark.last
SnapshotsTraced ==
  \/ snapshots = NotBuilt
  \/ \E n \in 0..Len(log) : snapshots = [at |-> n, rows |-> BuiltSnapshots(n)]
GapsTraced ==
  \/ gaps = NotBuilt
  \/ \E n \in 0..Len(log), peers \in PeerInputs :
       gaps = [peers |-> peers,
               rows |-> OpportunityGaps(BuiltSnapshots(n), peers, Date, peers.asked)]

Traced == LogRead /\ ModelsTraced /\ SnapshotsTraced /\ GapsTraced

LEMMA InitTraced ==
  ASSUME Init
  PROVE  Traced
BY ReadModelsAssumption DEF Init, Traced, LogRead, ModelsTraced, SnapshotsTraced, GapsTraced

\* Each worker writes what it can trace, and an accepted event takes nothing back.
LEMMA StepTraced ==
  ASSUME Traced, [Next]_vars
  PROVE  Traced'
<1>1. ASSUME NEW e \in Events, Accepted(e)
      PROVE  Traced'
  <2>1. /\ log' = Append(log, e) /\ Len(log) < MaxLog
        /\ models' = models /\ watermark' = watermark /\ snapshots' = snapshots /\ gaps' = gaps
    BY <1>1 DEF Accepted
  <2>2. /\ log \in Seq(Events) /\ Len(log) \in Nat /\ Len(log)' = Len(log) + 1
        /\ \A i \in 1..Len(log) : log'[i] = log[i]
    BY <2>1 DEF Traced, LogRead
  <2>3. ASSUME NEW n \in 0..Len(log)
        PROVE  /\ n \in 0..Len(log)' /\ Built(n)' = Built(n)
               /\ BuiltSnapshots(n)' = BuiltSnapshots(n)
    <3>1. ReceivedUpTo(n)' = ReceivedUpTo(n)
      BY <2>2 DEF ReceivedUpTo
    <3>2. Built(n)' = Built(n)
      BY <3>1 DEF Built
    <3> QED BY <2>2, <3>2 DEF BuiltSnapshots
  <2>4. LogRead'
    BY <2>1, <2>2, ReadModelsAssumption DEF LogRead
  <2>5. ModelsTraced'
    BY <2>1, <2>2, <2>3 DEF Traced, ModelsTraced
  <2>6. SnapshotsTraced'
    BY <2>1, <2>3 DEF Traced, SnapshotsTraced
  <2>7. GapsTraced'
    BY <2>1, <2>3 DEF Traced, GapsTraced
  <2> QED BY <2>4, <2>5, <2>6, <2>7 DEF Traced
<1>2. ASSUME RunProjectionWorker
      PROVE  Traced'
  <2>1. log' = log /\ snapshots' = snapshots /\ gaps' = gaps
    BY <1>2 DEF RunProjectionWorker
  <2>2. Len(log) \in Nat
    BY DEF Traced, LogRead
  <2>3. \A n : Built(n)' = Built(n) /\ BuiltSnapshots(n)' = BuiltSnapshots(n)
    BY <2>1 DEF Built, BuiltSnapshots, ReceivedUpTo
  <2>4. /\ models' = Built(Len(log)) /\ watermark'.count = Len(log)
        /\ Len(log) > 0 => watermark'.last = log[Len(log)].id
    BY <1>2, <2>2 DEF RunProjectionWorker, Built, Traced, LogRead
  <2>5. ModelsTraced'
    BY <2>1, <2>2, <2>3, <2>4 DEF ModelsTraced
  <2> QED BY <2>1, <2>3, <2>5 DEF Traced, LogRead, SnapshotsTraced, GapsTraced
<1>3. ASSUME RunSnapshotWorker
      PROVE  Traced'
  <2>1. log' = log /\ models' = models /\ watermark' = watermark /\ gaps' = gaps
    BY <1>3 DEF RunSnapshotWorker
  <2>2. \A n : Built(n)' = Built(n) /\ BuiltSnapshots(n)' = BuiltSnapshots(n)
    BY <2>1 DEF Built, BuiltSnapshots, ReceivedUpTo
  <2>3. watermark.count \in 0..Len(log) /\ models = Built(watermark.count)
    BY <1>3 DEF RunSnapshotWorker, Traced, ModelsTraced
  <2>4. snapshots' = [at |-> watermark.count, rows |-> BuiltSnapshots(watermark.count)]
    BY <1>3, <2>3 DEF RunSnapshotWorker, BuiltSnapshots
  <2>5. SnapshotsTraced'
    BY <2>1, <2>2, <2>3, <2>4 DEF SnapshotsTraced
  <2> QED BY <2>1, <2>2, <2>5 DEF Traced, LogRead, ModelsTraced, GapsTraced
<1>4. ASSUME NEW peers \in PeerInputs, RunBenchmarkWorker(peers)
      PROVE  Traced'
  <2>1. log' = log /\ models' = models /\ watermark' = watermark /\ snapshots' = snapshots
    BY <1>4 DEF RunBenchmarkWorker
  <2>2. \A n : Built(n)' = Built(n) /\ BuiltSnapshots(n)' = BuiltSnapshots(n)
    BY <2>1 DEF Built, BuiltSnapshots, ReceivedUpTo
  <2>3. PICK n \in 0..Len(log) : snapshots = [at |-> n, rows |-> BuiltSnapshots(n)]
    BY <1>4 DEF RunBenchmarkWorker, Traced, SnapshotsTraced
  <2>4. gaps' = [peers |-> peers,
                 rows |-> OpportunityGaps(BuiltSnapshots(n), peers, Date, peers.asked)]
    BY <1>4, <2>3 DEF RunBenchmarkWorker
  <2>5. GapsTraced'
    BY <2>1, <2>2, <2>4 DEF GapsTraced
  <2> QED BY <2>1, <2>2, <2>5 DEF Traced, LogRead, ModelsTraced, SnapshotsTraced
<1>5. ASSUME UNCHANGED vars
      PROVE  Traced'
  <2>1. /\ log' = log /\ models' = models /\ watermark' = watermark
        /\ snapshots' = snapshots /\ gaps' = gaps
    BY <1>5 DEF vars
  <2>2. \A n : Built(n)' = Built(n) /\ BuiltSnapshots(n)' = BuiltSnapshots(n)
    BY <2>1 DEF Built, BuiltSnapshots, ReceivedUpTo
  <2> QED BY <2>1, <2>2 DEF Traced, LogRead, ModelsTraced, SnapshotsTraced, GapsTraced
<1> QED BY <1>1, <1>2, <1>3, <1>4, <1>5 DEF Next

\* What was received up to a watermark can be read, and so can what is built from it.
LEMMA BuiltIs ==
  ASSUME LogRead, NEW n \in 0..Len(log)
  PROVE  /\ EventsRead(ReceivedUpTo(n))
         /\ Followed(ReceivedUpTo(n), Built(n)) /\ Readable(Built(n))
<1> DEFINE S == ReceivedUpTo(n)
<1>1. Len(log) \in Nat /\ \A i \in 1..n : log[i] \in Events
  BY DEF LogRead
<1>2. S \subseteq Events
  BY <1>1 DEF ReceivedUpTo
<1>3. IsFiniteSet(S)
  <2>1. S = {log[i] : i \in 1..n}
    BY DEF ReceivedUpTo
  <2>2. IsFiniteSet(1..n)
    BY <1>1, FS_Interval
  <2>3. IsFiniteSet({log[i] : i \in 1..n})
    BY <2>2, ImageIsFinite
  <2> QED BY <2>1, <2>3
<1>4. EventsRead(S)
  BY <1>2, <1>3, ReadModelsAssumption DEF EventsRead, Ordered, EventRead
<1>5. /\ Len(Labels) \in Nat /\ DOMAIN Labels = 1..Len(Labels)
      /\ \A i \in 1..Len(Labels) : LabelRead(Labels[i])
  BY ReadModelsAssumption DEF LabelRead
<1>6. None \notin Int /\ None \notin Statuses
  BY ReadModelsAssumption
<1>7. Followed(S, Built(n)) /\ Built(n).labels = Labels
  BY <1>4, <1>5, <1>6, RebuildFollows DEF Built
<1>8. Readable(Built(n))
  <2>1. SpecialFit(Built(n))
    BY <1>7 DEF Followed, Fits
  <2>2. IsFiniteSet(DOMAIN Labels)
    BY <1>5, FS_Interval
  <2> QED BY <1>7, <2>1, <2>2, ReadModelsAssumption
          DEF SpecialFit, OrdersFit, OrderFits, CartsFit, Readable
<1> QED BY <1>4, <1>7, <1>8

LEMMA ModelsAreRight ==
  ASSUME LogRead, ModelsTraced
  PROVE  watermark # NotBuilt =>
           /\ ModelsFollow(ReceivedUpTo(watermark.count), models)
           /\ watermark.count > 0 => log[watermark.count].id = watermark.last
<1> SUFFICES ASSUME watermark # NotBuilt
             PROVE  /\ ModelsFollow(ReceivedUpTo(watermark.count), models)
                    /\ watermark.count > 0 => log[watermark.count].id = watermark.last
  OBVIOUS
<1> DEFINE n == watermark.count
<1>1. /\ n \in 0..Len(log) /\ models = Built(n)
      /\ n > 0 => log[n].id = watermark.last
  BY DEF ModelsTraced
<1>2. Followed(ReceivedUpTo(n), models)
  BY <1>1, BuiltIs
<1> HIDE DEF n
<1>3. ModelsFollow(ReceivedUpTo(n), models)
  BY <1>2, ModelsFollowThem
<1> QED BY <1>1, <1>3 DEF n

LEMMA MetricsAreRight ==
  ASSUME LogRead, SnapshotsTraced
  PROVE  snapshots # NotBuilt =>
           MetricsFollow(ReceivedUpTo(snapshots.at), snapshots.rows.metrics)
<1> SUFFICES ASSUME snapshots # NotBuilt
             PROVE  MetricsFollow(ReceivedUpTo(snapshots.at), snapshots.rows.metrics)
  OBVIOUS
<1>1. PICK n \in 0..Len(log) : snapshots = [at |-> n, rows |-> BuiltSnapshots(n)]
  BY DEF SnapshotsTraced
<1>2. snapshots.at = n /\ snapshots.rows.metrics = Metrics(Built(n), Store)
  BY <1>1 DEF BuiltSnapshots, SnapshotsOf
<1>3. EventsRead(ReceivedUpTo(n)) /\ Followed(ReceivedUpTo(n), Built(n))
  BY BuiltIs
<1>4. MetricsFollow(ReceivedUpTo(n), Metrics(Built(n), Store))
  BY <1>3, MetricsFollowThem, ReadModelsAssumption
<1> QED BY <1>2, <1>4

LEMMA FitsTables ==
  ASSUME NEW m, Fits(m)
  PROVE  /\ \A id \in DOMAIN m.lines : m.lines[id].order \in DOMAIN m.orders
         /\ \A id \in DOMAIN m.payments : m.payments[id].order \in DOMAIN m.orders
         /\ \A id \in DOMAIN m.items : m.items[id].menu \in DOMAIN m.menus \cup {None}
         /\ DOMAIN m.profiles \subseteq DOMAIN m.members
         /\ \A id \in DOMAIN m.orders : m.orders[id].status # None
         /\ \A id \in DOMAIN m.carts : m.carts[id].status # None
         /\ \A id \in DOMAIN m.members : m.members[id].first <= m.members[id].last
         /\ \A id \in DOMAIN m.sessions : m.sessions[id].first <= m.sessions[id].last
BY DEF Fits, GeneralFit, SpecialFit, SessionsFit, MembersFit, ItemsFit, CartsFit, OrdersFit,
       OrderFits, LinesFit, Dated

LEMMA MetricsOf ==
  ASSUME LogRead, NEW n \in 0..Len(log)
  PROVE  LET metrics == BuiltSnapshots(n).metrics IN
         /\ \A id \in MetricIds :
              /\ metrics[id].value \in Int \cup {None}
              /\ metrics[id].value = None <=> metrics[id].denominator = 0
         /\ \A id \in {"repurchase_90d_rate", "checkout_started_cart_rate"} :
              metrics[id].value \in (0..Scale) \cup {None}
<1>1. BuiltSnapshots(n).metrics = Metrics(Built(n), Store)
  BY DEF BuiltSnapshots, SnapshotsOf
<1>2. Readable(Built(n)) /\ None \notin Int
  BY BuiltIs, ReadModelsAssumption
<1> QED BY <1>1, <1>2, MetricsAre

LEMMA GapsAreRight ==
  ASSUME LogRead, GapsTraced
  PROVE  gaps # NotBuilt =>
           /\ Earned(gaps.rows.gaps, gaps.peers)
           /\ \A b \in gaps.rows.benchmarks : b.min >= 3 /\ b.confidence \in 0..Scale
           /\ \A g \in gaps.rows.gaps : g.gap >= 0 /\ g.confidence \in 0..Scale
<1> SUFFICES ASSUME gaps # NotBuilt
             PROVE  /\ Earned(gaps.rows.gaps, gaps.peers)
                    /\ \A b \in gaps.rows.benchmarks : b.min >= 3 /\ b.confidence \in 0..Scale
                    /\ \A g \in gaps.rows.gaps : g.gap >= 0 /\ g.confidence \in 0..Scale
  OBVIOUS
<1>1. PICK n \in 0..Len(log), peers \in PeerInputs :
        gaps = [peers |-> peers,
                rows |-> OpportunityGaps(BuiltSnapshots(n), peers, Date, peers.asked)]
  BY DEF GapsTraced
<1> DEFINE snaps == BuiltSnapshots(n)
           rows == OpportunityGaps(snaps, peers, Date, peers.asked)
<1>2. gaps.peers = peers /\ gaps.rows = rows
  BY <1>1
<1>3. \A metric \in MetricIds : snaps.metrics[metric].value \in Int \cup {None}
  BY MetricsOf
<1>4. PeersRead(peers) /\ None \notin Int
  BY ReadModelsAssumption DEF PeersRead
<1> HIDE DEF snaps
<1>5. /\ Earned(rows.gaps, peers)
      /\ \A b \in rows.benchmarks : b.min >= 3 /\ b.confidence \in 0..Scale
      /\ \A g \in rows.gaps : g.gap >= 0 /\ g.confidence \in 0..Scale
  BY <1>3, <1>4, BenchmarkOutput
<1> HIDE DEF rows
<1> QED BY <1>2, <1>5

\* What can be traced is right.
LEMMA TracedIsRight ==
  ASSUME Traced
  PROVE  TypeOK /\ ReadModelsFollowEvents /\ GapsAreEarned
<1>1. LogRead /\ ModelsTraced /\ SnapshotsTraced /\ GapsTraced
  BY DEF Traced
<1>2. Len(log) <= MaxLog
  BY <1>1 DEF LogRead
<1>3. ASSUME models # NotBuilt PROVE Fits(models)
  <2>1. watermark.count \in 0..Len(log) /\ models = Built(watermark.count)
    BY <1>1, <1>3 DEF ModelsTraced
  <2> QED BY <1>1, <2>1, BuiltIs DEF Followed
<1>4. ASSUME snapshots # NotBuilt
      PROVE  /\ \A id \in MetricIds : snapshots.rows.metrics[id].value = None
                                        <=> snapshots.rows.metrics[id].denominator = 0
             /\ \A id \in {"repurchase_90d_rate", "checkout_started_cart_rate"} :
                  snapshots.rows.metrics[id].value \in (0..Scale) \cup {None}
  <2>1. PICK n \in 0..Len(log) : snapshots = [at |-> n, rows |-> BuiltSnapshots(n)]
    BY <1>1, <1>4 DEF SnapshotsTraced
  <2>2. snapshots.rows = BuiltSnapshots(n)
    BY <2>1
  <2> QED BY <1>1, <2>2, MetricsOf
<1>5. TypeOK
  <2>1. models # NotBuilt =>
          /\ \A id \in DOMAIN models.lines : models.lines[id].order \in DOMAIN models.orders
          /\ \A id \in DOMAIN models.payments :
               models.payments[id].order \in DOMAIN models.orders
          /\ \A id \in DOMAIN models.items :
               models.items[id].menu \in DOMAIN models.menus \cup {None}
          /\ DOMAIN models.profiles \subseteq DOMAIN models.members
          /\ \A id \in DOMAIN models.orders : models.orders[id].status # None
          /\ \A id \in DOMAIN models.carts : models.carts[id].status # None
          /\ \A id \in DOMAIN models.members :
               models.members[id].first <= models.members[id].last
          /\ \A id \in DOMAIN models.sessions :
               models.sessions[id].first <= models.sessions[id].last
    BY <1>3, FitsTables
  <2> QED BY <1>1, <1>2, <1>4, <2>1, GapsAreRight DEF TypeOK
<1>6. ReadModelsFollowEvents
  BY <1>1, ModelsAreRight, MetricsAreRight DEF ReadModelsFollowEvents
<1>7. GapsAreEarned
  BY <1>1, GapsAreRight DEF GapsAreEarned
<1> QED BY <1>5, <1>6, <1>7

\* The tables, snapshots and gaps are always what the log up to a watermark makes of them: an
\* event that is accepted later changes none of them until the workers run again.
THEOREM AlwaysTraced == Spec => []Traced
<1>1. Init => Traced
  BY InitTraced
<1>2. Traced /\ [Next]_vars => Traced'
  BY StepTraced
<1> QED BY <1>1, <1>2, PTL DEF Spec

\* What the workers write always fits the tables of 0002, 0003 and 0004, however many events
\* there are and whatever they name.
THEOREM ReadModelsTypeCorrect == Spec => []TypeOK
<1>1. Traced => TypeOK
  BY TracedIsRight
<1> QED BY <1>1, AlwaysTraced, PTL

\* Whatever the order in which they came, and however many, the read models are those of the
\* set of events up to the watermark, and the metrics those of the set they were built from.
THEOREM ReadModelsAlwaysFollow == Spec => []ReadModelsFollowEvents
<1>1. Traced => ReadModelsFollowEvents
  BY TracedIsRight
<1> QED BY <1>1, AlwaysTraced, PTL

\* Whatever peers there are, a gap is ranked only when enough stores were measured and enough
\* of their values beat the store's, and always when many do; ranks follow the ratio.
THEOREM GapsAlwaysEarned == Spec => []GapsAreEarned
<1>1. Traced => GapsAreEarned
  BY TracedIsRight
<1> QED BY <1>1, AlwaysTraced, PTL
===============================================================================
