------------------------- MODULE AggregationProofs -------------------------
(***************************************************************************)
(* Proofs about the slice registry, for every model and every bundle size, *)
(* and about what passes between leases, workers and FeedbackState.        *)
(***************************************************************************)
EXTENDS Aggregation, FiniteSetTheorems, WellFoundedInduction, TLAPS

\* Of some subsets of a finite set one contains no other.
LEMMA SmallestSubset ==
  ASSUME NEW S, IsFiniteSet(S), NEW F, F \subseteq SUBSET S, F # {}
  PROVE  \E f \in F : \A g \in F : ~(g \subseteq f /\ g # f)
  <1>1. IsWellFoundedOn(StrictSubsetOrdering(S), SUBSET S)
        BY FS_StrictSubsetOrderingWellFounded, FS_FiniteSubsetsOfFinite
  <1>2. PICK f \in F : \A g \in F : ~(<<g, f>> \in StrictSubsetOrdering(S))
        BY <1>1, WFMin
  <1> QED BY <1>2 DEF StrictSubsetOrdering

\* A finite set of numbers has a least and a greatest one.
LEMMA Extremes ==
  ASSUME NEW S, IsFiniteSet(S), \A x \in S : x \in Int, S # {}
  PROVE  Min(S) \in S /\ Max(S) \in S /\ \A x \in S : Min(S) \in Int /\ Max(S) \in Int /\ Min(S) <= x /\ x <= Max(S)
  <1>1. \E y \in S : \A x \in S : y >= x
    <2> DEFINE Above(i) == {x \in S : x > i}
               F == {Above(i) : i \in S}
    <2>1. F \subseteq SUBSET S /\ F # {}
          OBVIOUS
    <2>2. PICK f \in F : \A g \in F : ~(g \subseteq f /\ g # f)
      <3> HIDE DEF F
      <3> QED BY <2>1, SmallestSubset
    <2>3. PICK y \in S : f = Above(y)
          OBVIOUS
    <2>4. ASSUME NEW x \in S, x > y PROVE FALSE
      <3>1. x \in Int /\ y \in Int /\ \A z \in S : z \in Int
            OBVIOUS
      <3>2. Above(x) \subseteq Above(y)
        <4> SUFFICES ASSUME NEW z \in S, z > x PROVE z > y
            OBVIOUS
        <4> QED BY <2>4, <3>1
      <3>4. x \in Above(y) /\ x \notin Above(x)
            BY <2>4, <3>1
      <3>3. Above(x) \in F
            OBVIOUS
      <3> HIDE DEF Above, F
      <3> QED BY <2>2, <2>3, <3>2, <3>3, <3>4, <3>4
    <2>5. \A x \in S : x \in Int
          OBVIOUS
    <2> QED BY <2>4, <2>5
  <1>2. \E y \in S : \A x \in S : y <= x
    <2> DEFINE Under(i) == {x \in S : x < i}
               F == {Under(i) : i \in S}
    <2>1. F \subseteq SUBSET S /\ F # {}
          OBVIOUS
    <2>2. PICK f \in F : \A g \in F : ~(g \subseteq f /\ g # f)
      <3> HIDE DEF F
      <3> QED BY <2>1, SmallestSubset
    <2>3. PICK y \in S : f = Under(y)
          OBVIOUS
    <2>4. ASSUME NEW x \in S, x < y PROVE FALSE
      <3>1. x \in Int /\ y \in Int /\ \A z \in S : z \in Int
            OBVIOUS
      <3>2. Under(x) \subseteq Under(y)
        <4> SUFFICES ASSUME NEW z \in S, z < x PROVE z < y
            OBVIOUS
        <4> QED BY <2>4, <3>1
      <3>4. x \in Under(y) /\ x \notin Under(x)
            BY <2>4, <3>1
      <3>3. Under(x) \in F
            OBVIOUS
      <3> HIDE DEF Under, F
      <3> QED BY <2>2, <2>3, <3>2, <3>3, <3>4, <3>4
    <2>5. \A x \in S : x \in Int
          OBVIOUS
    <2> QED BY <2>4, <2>5
  <1>3. Max(S) \in S /\ \A x \in S : Max(S) >= x
        BY <1>1 DEF Max
  <1>4. Min(S) \in S /\ \A x \in S : Min(S) <= x
        BY <1>2 DEF Min
  <1> QED BY <1>3, <1>4

\* A set of natural numbers has a least one.
LEMMA Least ==
  ASSUME NEW S, \A x \in S : x \in Nat, S # {}
  PROVE  \E x \in S : \A y \in S : x <= y
  <1>1. PICK t \in S : TRUE
        OBVIOUS
  <1> DEFINE T == {k \in S : k <= t}
  <1>2. T \subseteq 0 .. t /\ t \in T /\ t \in Nat
        BY <1>1
  <1>3. IsFiniteSet(T)
    <2>1. IsFiniteSet(0 .. t)
          BY <1>2, FS_Interval
    <2> HIDE DEF T
    <2> QED BY <1>2, <2>1, FS_Subset
  <1>4. \E x \in T : \A y \in T : x <= y
    <2>1. \A x \in T : x \in Int
          OBVIOUS
    <2> HIDE DEF T
    <2> QED BY <1>2, <1>3, <2>1, Extremes
  <1> QED BY <1>1, <1>4

-----------------------------------------------------------------------------
(* Sums over finite sets *)

Pick(s) == CHOOSE x \in s : TRUE

LEMMA PickIn == ASSUME NEW s, s # {} PROVE Pick(s) \in s
  BY DEF Pick

\* it[s] is the sum of h over s, for the subsets s of S.
Summed(it, S, h) ==
  it = [s \in SUBSET S |-> IF s = {} THEN 0 ELSE h[Pick(s)] + it[s \ {Pick(s)}]]

LEMMA SumExists ==
  ASSUME NEW S, IsFiniteSet(S), NEW h \in [S -> Int]
  PROVE  \E it : Summed(it, S, h)
  <1> DEFINE Level(n) == {s \in SUBSET S : Cardinality(s) <= n}
             Up(n, it) == \A s \in Level(n) :
                            it[s] = IF s = {} THEN 0 ELSE h[Pick(s)] + it[s \ {Pick(s)}]
             Good(n) == \E it \in [Level(n) -> Int] : Up(n, it)
             Bad == {n \in Nat : ~Good(n)}
  <1>1. \A s \in SUBSET S : IsFiniteSet(s) /\ Cardinality(s) \in Nat /\ Cardinality(s) <= Cardinality(S)
        BY FS_Subset, FS_CardinalityType
  <1>2. \A s \in SUBSET S : s # {} =>
          Pick(s) \in s /\ Cardinality(s \ {Pick(s)}) = Cardinality(s) - 1
        BY <1>1, PickIn, FS_RemoveElement
  <1>3. Good(0)
    <2>1. \A s \in Level(0) : s = {}
          BY <1>1, FS_EmptySet
    <2> DEFINE it == [s \in Level(0) |-> 0]
    <2>2. it \in [Level(0) -> Int]
          OBVIOUS
    <2>3. Up(0, it)
          BY <2>1
    <2> QED BY <2>2, <2>3
  <1>4. ASSUME NEW n \in Nat, Good(n) PROVE Good(n + 1)
    <2>1. PICK old \in [Level(n) -> Int] : Up(n, old)
          BY <1>4
    <2> DEFINE it == [s \in Level(n + 1) |->
                        IF s = {} THEN 0 ELSE h[Pick(s)] + old[s \ {Pick(s)}]]
    <2>2. \A s \in Level(n + 1) : s # {} =>
             s \ {Pick(s)} \in Level(n) /\ Pick(s) \in S /\ s \ {Pick(s)} \in Level(n + 1)
          BY <1>1, <1>2
    <2>3. it \in [Level(n + 1) -> Int]
      <3>1. ASSUME NEW s \in Level(n + 1)
            PROVE (IF s = {} THEN 0 ELSE h[Pick(s)] + old[s \ {Pick(s)}]) \in Int
            BY <2>1, <2>2
      <3> QED BY <3>1
    <2>4. \A s \in Level(n) : it[s] = old[s]
      <3>1. \A s \in Level(n) : s \in Level(n + 1)
            BY <1>1
      <3> HIDE DEF Level
      <3> QED BY <2>1, <3>1
    <2>5. Up(n + 1, it)
      <3> HIDE DEF Level
      <3> QED BY <2>2, <2>4
    <2> HIDE DEF it
    <2> QED BY <2>3, <2>5
  <1>5. Bad = {}
    <2> SUFFICES ASSUME Bad # {} PROVE FALSE
        OBVIOUS
    <2> HIDE DEF Good
    <2>1. PICK n \in Bad : \A m \in Bad : n <= m
          BY Least
    <2>2. n # 0
          BY <1>3, <2>1
    <2>3. n - 1 \in Nat /\ n - 1 \notin Bad
          BY <2>1, <2>2
    <2>4. Good(n - 1)
          BY <2>3
    <2> QED BY <1>4, <2>3, <2>4
  <1>6. Good(Cardinality(S))
    <2> HIDE DEF Good
    <2> QED BY <1>1, <1>5
  <1>7. PICK it \in [Level(Cardinality(S)) -> Int] : Up(Cardinality(S), it)
        BY <1>6
  <1>8. Level(Cardinality(S)) = SUBSET S
        BY <1>1
  <1>9. Summed(it, S, h)
    <2> HIDE DEF Level
    <2> QED BY <1>7, <1>8 DEF Summed
  <1> QED BY <1>9

\* What is between lo and hi for each is so for the sums, as weighted.
LEMMA SumBounds ==
  ASSUME NEW T, IsFiniteSet(T), NEW e \in [T -> Nat \ {0}], NEW g \in [T -> Int],
         NEW lo \in Int, NEW hi \in Int,
         \A u \in T : lo * e[u] <= g[u] /\ g[u] <= hi * e[u],
         NEW weight, Summed(weight, T, e), NEW share, Summed(share, T, g)
  PROVE  /\ weight[T] \in Nat /\ share[T] \in Int
         /\ T # {} => weight[T] # 0
         /\ lo * weight[T] <= share[T] /\ share[T] <= hi * weight[T]
  <1> DEFINE Good(s) == /\ weight[s] \in Nat /\ share[s] \in Int
                        /\ s # {} => weight[s] # 0
                        /\ lo * weight[s] <= share[s] /\ share[s] <= hi * weight[s]
             Bad == {s \in SUBSET T : ~Good(s)}
  <1>1. Bad = {}
    <2> SUFFICES ASSUME Bad # {} PROVE FALSE
        OBVIOUS
    <2>1. PICK s \in Bad : \A r \in Bad : ~(r \subseteq s /\ r # s)
      <3>1. Bad \subseteq SUBSET T
            OBVIOUS
      <3> HIDE DEF Bad
      <3> QED BY <3>1, SmallestSubset
    <2>2. s # {}
      <3>1. weight[{}] = 0 /\ share[{}] = 0
            BY DEF Summed
      <3>2. Good({})
            BY <3>1
      <3> QED BY <2>1, <3>2
    <2> DEFINE x == Pick(s)
               r == s \ {x}
    <2>3. x \in s /\ x \in T /\ r \in SUBSET T
          BY <2>1, <2>2, PickIn
    <2>4. Good(r)
      <3> HIDE DEF Good
      <3> QED BY <2>1, <2>3
    <2>5. weight[s] = e[x] + weight[r] /\ share[s] = g[x] + share[r]
      <3> HIDE DEF Good
      <3> QED BY <2>1, <2>2 DEF Summed
    <2> HIDE DEF x, r
    <2>6. e[x] \in Nat \ {0} /\ g[x] \in Int /\ lo * e[x] <= g[x] /\ g[x] <= hi * e[x]
          BY <2>3
    <2>7. /\ lo * (e[x] + weight[r]) = lo * e[x] + lo * weight[r]
          /\ hi * (e[x] + weight[r]) = hi * e[x] + hi * weight[r]
          BY <2>4, <2>6
    <2>8. weight[s] \in Nat /\ share[s] \in Int /\ weight[s] # 0
          BY <2>4, <2>5, <2>6
    <2>9. lo * weight[s] <= share[s]
      <3> DEFINE a == lo * e[x]
                 b == lo * weight[r]
      <3>1. a \in Int /\ b \in Int /\ a <= g[x] /\ b <= share[r] /\ lo * weight[s] = a + b
            BY <2>4, <2>5, <2>6, <2>7
      <3> HIDE DEF a, b
      <3> QED BY <2>4, <2>5, <2>6, <3>1
    <2>10. share[s] <= hi * weight[s]
      <3> DEFINE a == hi * e[x]
                 b == hi * weight[r]
      <3>1. a \in Int /\ b \in Int /\ g[x] <= a /\ share[r] <= b /\ hi * weight[s] = a + b
            BY <2>4, <2>5, <2>6, <2>7
      <3> HIDE DEF a, b
      <3> QED BY <2>4, <2>5, <2>6, <3>1
    <2>11. Good(s)
           BY <2>8, <2>9, <2>10
    <2> QED BY <2>1, <2>11
  <1>2. T \in SUBSET T
        OBVIOUS
  <1>3. Good(T)
    <2> HIDE DEF Good
    <2> QED BY <1>1, <1>2
  <1> QED BY <1>3

LEMMA Quotient ==
  ASSUME NEW x \in Int, NEW w \in Nat \ {0}, NEW lo \in Int, NEW hi \in Int,
         lo * w <= x, x <= hi * w
  PROVE  x \div w \in Int /\ lo <= x \div w /\ x \div w <= hi
  <1> DEFINE q == x \div w
  <1>1. q \in Int /\ q * w <= x /\ x < q * w + w
        OBVIOUS
  <1>2. ASSUME q < lo PROVE FALSE
    <2>1. (q + 1) * w <= lo * w
          BY <1>1, <1>2
    <2>2. (q + 1) * w = q * w + w /\ q * w \in Int /\ lo * w \in Int
          BY <1>1
    <2> QED BY <1>1, <2>1, <2>2
  <1>3. ASSUME hi < q PROVE FALSE
    <2>1. (hi + 1) * w <= q * w
          BY <1>1, <1>3
    <2>2. (hi + 1) * w = hi * w + w /\ q * w \in Int /\ hi * w \in Int
          BY <1>1
    <2> QED BY <1>1, <2>1, <2>2
  <1> HIDE DEF q
  <1>4. lo <= q /\ q <= hi
        BY <1>1, <1>2, <1>3
  <1> QED BY <1>1, <1>4 DEF q

Mean(T, p) ==
  LET Share(u) == u.examples * u.delta[p] IN MapThenSumSet(Share, T) \div Weight(T)

\* The mean that the code computes is between the bounds of what it is the mean of.
LEMMA MeanBounds ==
  ASSUME NEW T, IsFiniteSet(T), T # {}, NEW p,
         \A u \in T : u.examples \in Nat \ {0} /\ u.delta[p] \in Int,
         NEW lo \in Int, NEW hi \in Int,
         \A u \in T : lo <= u.delta[p] /\ u.delta[p] <= hi
  PROVE  Mean(T, p) \in Int /\ lo <= Mean(T, p) /\ Mean(T, p) <= hi
  <1> DEFINE e == [u \in T |-> u.examples]
             g == [u \in T |-> u.examples * u.delta[p]]
             Share(u) == u.examples * u.delta[p]
             weight == CHOOSE it : it = [s \in SUBSET T |->
                         IF s = {} THEN 0
                         ELSE LET x == CHOOSE y \in s : TRUE IN x.examples + it[s \ {x}]]
             share == CHOOSE it : it = [s \in SUBSET T |->
                         IF s = {} THEN 0
                         ELSE LET x == CHOOSE y \in s : TRUE
                              IN  x.examples * x.delta[p] + it[s \ {x}]]
  <1>1. e \in [T -> Nat \ {0}] /\ g \in [T -> Int]
        OBVIOUS
  <1>2. e \in [T -> Int]
        BY <1>1
  <1>3. \A u \in T : lo * e[u] <= g[u] /\ g[u] <= hi * e[u]
    <2> SUFFICES ASSUME NEW u \in T PROVE lo * e[u] <= g[u] /\ g[u] <= hi * e[u]
        OBVIOUS
    <2> DEFINE k == u.examples
               d == u.delta[p]
    <2>1. k \in Nat /\ d \in Int /\ lo <= d /\ d <= hi /\ e[u] = k /\ g[u] = k * d
          OBVIOUS
    <2> HIDE DEF k, d, e, g
    <2>2. lo * k <= d * k /\ d * k <= hi * k /\ d * k = k * d
          BY <2>1
    <2> QED BY <2>1, <2>2
  <1>4. \A s \in SUBSET T : s # {} => Pick(s) \in T
        BY PickIn
  <1>5. Summed(weight, T, e)
    <2> DEFINE Step(it) == [s \in SUBSET T |->
                         IF s = {} THEN 0
                         ELSE LET x == CHOOSE y \in s : TRUE IN x.examples + it[s \ {x}]]
    <2>1. ASSUME NEW it PROVE Summed(it, T, e) <=> it = Step(it)
      <3>1. \A s \in SUBSET T : s # {} =>
              e[Pick(s)] = Pick(s).examples
            BY <1>4
      <3> HIDE DEF e
      <3>2. [s \in SUBSET T |-> IF s = {} THEN 0 ELSE e[Pick(s)] + it[s \ {Pick(s)}]] = Step(it)
            BY <3>1 DEF Pick
      <3> QED BY <3>2 DEF Summed
    <2>2. \E it : Summed(it, T, e)
          BY <1>2, SumExists
    <2>3. weight = CHOOSE it : it = Step(it)
          OBVIOUS
    <2> HIDE DEF e, weight, Step
    <2>4. \E it : it = Step(it)
          BY <2>1, <2>2
    <2> QED BY <2>1, <2>3, <2>4
  <1>6. Summed(share, T, g)
    <2> DEFINE Step(it) == [s \in SUBSET T |->
                         IF s = {} THEN 0
                         ELSE LET x == CHOOSE y \in s : TRUE IN x.examples * x.delta[p] + it[s \ {x}]]
    <2>1. ASSUME NEW it PROVE Summed(it, T, g) <=> it = Step(it)
      <3>1. \A s \in SUBSET T : s # {} =>
              g[Pick(s)] = Pick(s).examples * Pick(s).delta[p]
            BY <1>4
      <3> HIDE DEF g
      <3>2. [s \in SUBSET T |-> IF s = {} THEN 0 ELSE g[Pick(s)] + it[s \ {Pick(s)}]] = Step(it)
            BY <3>1 DEF Pick
      <3> QED BY <3>2 DEF Summed
    <2>2. \E it : Summed(it, T, g)
          BY <1>1, SumExists
    <2>3. share = CHOOSE it : it = Step(it)
          OBVIOUS
    <2> HIDE DEF g, share, Step
    <2>4. \E it : it = Step(it)
          BY <2>1, <2>2
    <2> QED BY <2>1, <2>3, <2>4
  <1>7. Weight(T) = weight[T]
        BY DEF Weight, MapThenSumSet, MapThenFoldSet
  <1>8. MapThenSumSet(Share, T) = share[T]
        BY DEF MapThenSumSet, MapThenFoldSet
  <1> HIDE DEF e, g, weight, share
  <1>9. /\ weight[T] \in Nat \ {0} /\ share[T] \in Int
        /\ lo * weight[T] <= share[T] /\ share[T] <= hi * weight[T]
        BY <1>1, <1>3, <1>5, <1>6, SumBounds
  <1>10. /\ share[T] \div weight[T] \in Int
         /\ lo <= share[T] \div weight[T] /\ share[T] \div weight[T] <= hi
         BY <1>9, Quotient
  <1>11. Mean(T, p) = share[T] \div weight[T]
         BY <1>7, <1>8 DEF Mean
  <1> QED BY <1>10, <1>11
-----------------------------------------------------------------------------
(* The registry *)

LEMMA LayersFinite == Layers \subseteq Nat /\ IsFiniteSet(Layers) /\ Cardinality(Layers) \in Nat
  <1>1. Layers \subseteq Nat
        BY LayoutAssumption DEF Layers
  <1>2. IsFiniteSet(Param \ Head)
        BY LayoutAssumption, FS_Subset
  <1>3. LayerOf \in Surjection(Param \ Head, Layers)
    <2>1. LayerOf \in [Param \ Head -> Layers]
          BY LayoutAssumption DEF Layers
    <2> QED BY <2>1 DEF Surjection, Layers
  <1>4. IsFiniteSet(Layers)
        BY <1>2, <1>3, FS_Surjection
  <1> QED BY <1>1, <1>4, FS_CardinalityType

\* The layers before l.
Below(l) == {m \in Layers : m < l}

LEMMA RankType ==
  ASSUME NEW l \in Layers
  PROVE  /\ IsFiniteSet(Below(l))
         /\ Rank(l) = Cardinality(Below(l))
         /\ Rank(l) \in Nat
         /\ Rank(l) < Cardinality(Layers)
  <1>1. Below(l) \in SUBSET Layers /\ l \notin Below(l)
        BY LayersFinite DEF Below
  <1>2. IsFiniteSet(Below(l)) /\ Cardinality(Below(l)) \in Nat
        BY <1>1, LayersFinite, FS_Subset, FS_CardinalityType
  <1>3. Cardinality(Below(l)) <= Cardinality(Layers) /\ Cardinality(Layers) # Cardinality(Below(l))
        BY <1>1, LayersFinite, FS_Subset
  <1>4. Rank(l) = Cardinality(Below(l))
        BY DEF Rank, Below
  <1> QED BY <1>2, <1>3, <1>4, LayersFinite

\* The layer before another in the order has the position before its position.
LEMMA RankOfPrevious ==
  ASSUME NEW l \in Layers, NEW y \in Below(l), \A x \in Below(l) : x <= y
  PROVE  y \in Layers /\ Below(y) = Below(l) \ {y} /\ Rank(y) = Rank(l) - 1
  <1>1. y \in Layers /\ y < l /\ l \in Nat /\ y \in Nat
        BY LayersFinite DEF Below
  <1>2. Below(y) = Below(l) \ {y}
    <2>1. ASSUME NEW x \in Below(y) PROVE x \in Below(l) \ {y}
      <3>1. x \in Nat /\ x \in Layers /\ x < y
            BY LayersFinite DEF Below
      <3> QED BY <1>1, <3>1 DEF Below
    <2>2. ASSUME NEW x \in Below(l) \ {y} PROVE x \in Below(y)
      <3>1. x \in Nat /\ x \in Layers /\ x <= y /\ x # y
            BY LayersFinite DEF Below
      <3> QED BY <1>1, <3>1 DEF Below
    <2> QED BY <2>1, <2>2
  <1>3. Cardinality(Below(l) \ {y}) = Cardinality(Below(l)) - 1
        BY RankType, FS_RemoveElement
  <1> QED BY <1>1, <1>2, <1>3, RankType

\* Every position is taken by a layer: sorted_layers has no gaps.
LEMMA RankTaken ==
  ASSUME NEW k \in Nat, k < Cardinality(Layers)
  PROVE  \E l \in Layers : Rank(l) = k
  <1> DEFINE High == {l \in Layers : Rank(l) >= k}
             F == {Below(l) : l \in High}
  <1>1. High # {}
    <2>1. Layers # {}
          BY LayersFinite, FS_EmptySet
    <2>2. PICK x \in Layers : \A m \in Layers : m <= x
      <3>1. \A x \in Layers : x \in Int
            BY LayersFinite
      <3> QED BY <2>1, <3>1, LayersFinite, Extremes
    <2>3. Below(x) = Layers \ {x}
      <3>1. ASSUME NEW m \in Layers, m # x PROVE m < x
        <4>1. m \in Nat /\ x \in Nat /\ m <= x
              BY <2>2, LayersFinite
        <4> QED BY <3>1, <4>1
      <3>2. ~(x < x)
            BY LayersFinite
      <3> QED BY <3>1, <3>2 DEF Below
    <2>4. Cardinality(Layers \ {x}) = Cardinality(Layers) - 1
          BY LayersFinite, FS_RemoveElement
    <2>5. Rank(x) = Cardinality(Layers) - 1
          BY <2>3, <2>4, RankType
    <2>6. Rank(x) >= k
          BY <2>5, LayersFinite
    <2> QED BY <2>6
  <1>2. F \subseteq SUBSET Layers /\ F # {}
        BY <1>1 DEF Below
  <1>3. IsWellFoundedOn(StrictSubsetOrdering(Layers), SUBSET Layers)
        BY LayersFinite, FS_StrictSubsetOrderingWellFounded, FS_FiniteSubsetsOfFinite
  <1>4. PICK f \in F : \A g \in F : ~(<<g, f>> \in StrictSubsetOrdering(Layers))
    <2> HIDE DEF F
    <2> QED BY <1>2, <1>3, WFMin
  <1>5. PICK l \in High : f = Below(l)
        OBVIOUS
  <1>6. ASSUME Rank(l) # k PROVE FALSE
    <2>1. Rank(l) > k /\ Rank(l) \in Nat /\ IsFiniteSet(Below(l))
          BY <1>6, RankType
    <2>2. Below(l) # {}
      <3>1. Cardinality(Below(l)) # 0
            BY <2>1, RankType
      <3> QED BY <3>1, FS_EmptySet
    <2>3. PICK y \in Below(l) : \A x \in Below(l) : x <= y
      <3>1. \A x \in Below(l) : x \in Int
            BY LayersFinite DEF Below
      <3> QED BY <2>1, <2>2, <3>1, Extremes
    <2>4. y \in Layers /\ Below(y) = Below(l) \ {y} /\ Rank(y) = Rank(l) - 1
          BY <2>3, RankOfPrevious
    <2>5. y \in High
          BY <2>1, <2>4
    <2>6. Below(y) \in SUBSET Layers /\ Below(l) \in SUBSET Layers
          BY DEF Below
    <2>7. <<Below(y), Below(l)>> \in StrictSubsetOrdering(Layers)
          BY <2>3, <2>4, <2>6 DEF StrictSubsetOrdering
    <2> QED BY <1>4, <1>5, <2>5, <2>7
  <1> QED BY <1>6

\* Bundles of b cover exactly the positions up to n.
LEMMA Bundling ==
  ASSUME NEW n \in Nat, NEW b \in Nat \ {0}, NEW s \in Nat
  PROVE  /\ (n + b - 1) \div b \in Nat
         /\ s < (n + b - 1) \div b <=> s * b < n
  <1> DEFINE q == (n + b - 1) \div b
  <1>1. q \in Int /\ q * b <= n + b - 1 /\ n + b - 1 < q * b + b
        OBVIOUS
  <1>2. q \in Nat
    <2>1. q * b > 0 - b
          BY <1>1
    <2> QED BY <1>1, <2>1
  <1>3. ASSUME s < q PROVE s * b < n
    <2>1. s + 1 <= q /\ q \in Nat
          BY <1>2, <1>3
    <2>2. (s + 1) * b <= q * b
          BY <2>1
    <2>3. (s + 1) * b = s * b + b /\ s * b \in Nat /\ q * b \in Nat
          BY <1>2
    <2> QED BY <1>1, <2>2, <2>3
  <1>4. ASSUME q <= s PROVE n <= s * b
    <2>1. q * b <= s * b
          BY <1>2, <1>4
    <2>2. s * b \in Nat /\ q * b \in Nat
          BY <1>2
    <2> QED BY <1>1, <2>1, <2>2
  <1>5. s * b \in Nat
        OBVIOUS
  <1> HIDE DEF q
  <1>6. s < q <=> s * b < n
        BY <1>2, <1>3, <1>4, <1>5
  <1> QED BY <1>2, <1>6 DEF q

\* Two bundles share no position.
LEMMA BundlesApart ==
  ASSUME NEW b \in Nat \ {0}, NEW s \in Nat, NEW r \in Nat, NEW k \in Nat,
         k >= s * b, k < (s + 1) * b, k >= r * b, k < (r + 1) * b
  PROVE  s = r
  <1>1. ASSUME NEW i \in Nat, NEW j \in Nat, i < j PROVE (i + 1) * b <= j * b
        BY <1>1
  <1>2. s * b \in Nat /\ r * b \in Nat /\ (s + 1) * b \in Nat /\ (r + 1) * b \in Nat
        OBVIOUS
  <1>3. ~(s < r)
        BY <1>1, <1>2
  <1>4. ~(r < s)
        BY <1>1, <1>2
  <1> QED BY <1>3, <1>4

\* A position is in the bundle of its quotient.
LEMMA BundleOfPosition ==
  ASSUME NEW b \in Nat \ {0}, NEW k \in Nat
  PROVE  \E s \in Nat : k >= s * b /\ k < (s + 1) * b
  <1> DEFINE s == k \div b
  <1>1. s \in Int /\ s * b <= k /\ k < s * b + b
        OBVIOUS
  <1>2. s \in Nat
        BY <1>1
  <1>3. (s + 1) * b = s * b + b
        BY <1>2
  <1> HIDE DEF s
  <1> QED BY <1>1, <1>2, <1>3

LEMMA SliceType ==
  ASSUME bundle \in Bundles
  PROVE  /\ bundle \in Nat \ {0}
         /\ NumBundles \in Nat
         /\ Slice \subseteq Nat
         /\ \A s \in Slice : s # NumBundles => s < NumBundles
         /\ NumBundles \in Slice => Head # {}
         /\ \A s \in Nat : s < NumBundles => s \in Slice
         /\ \A s \in Nat : s < NumBundles <=> s * bundle < Cardinality(Layers)
  <1>1. bundle \in Nat \ {0} /\ Cardinality(Layers) \in Nat
        BY LayoutAssumption, LayersFinite
  <1>2. NumBundles \in Nat /\ \A s \in Nat : s < NumBundles <=> s * bundle < Cardinality(Layers)
        BY <1>1, Bundling DEF NumBundles
  <1>3. CASE Head = {}
    <2>1. Slice = 0 .. NumBundles - 1
          BY <1>3 DEF Slice
    <2> QED BY <1>1, <1>2, <2>1
  <1>4. CASE Head # {}
    <2>1. Slice = 0 .. NumBundles
          BY <1>2, <1>4 DEF Slice
    <2> QED BY <1>1, <1>2, <1>4, <2>1
  <1> QED BY <1>3, <1>4

LEMMA SliceNotEmpty ==
  ASSUME bundle \in Bundles, NEW s \in Slice
  PROVE  Registry(s) # {}
  <1>1. CASE s = NumBundles
        BY <1>1, SliceType DEF Registry
  <1>2. CASE s # NumBundles
    <2>1. s \in Nat /\ bundle \in Nat \ {0} /\ s * bundle < Cardinality(Layers)
          BY <1>2, SliceType
    <2>2. s * bundle \in Nat /\ s * bundle < (s + 1) * bundle /\ s * bundle >= s * bundle
          BY <2>1
    <2>3. PICK l \in Layers : Rank(l) = s * bundle
          BY <2>1, <2>2, RankTaken
    <2>4. PICK p \in Param \ Head : LayerOf[p] = l
          BY DEF Layers
    <2>5. p \in Bundle(s)
          BY <2>2, <2>3, <2>4 DEF Bundle
    <2> QED BY <1>2, <2>5 DEF Registry
  <1> QED BY <1>1, <1>2

LEMMA SliceOfEach ==
  ASSUME bundle \in Bundles, NEW p \in Param
  PROVE  \E s \in Slice : p \in Registry(s)
  <1>1. CASE p \in Head
    <2>1. NumBundles \in Slice
          BY <1>1, SliceType DEF Slice
    <2> QED BY <1>1, <2>1 DEF Registry
  <1>2. CASE p \notin Head
    <2>1. LayerOf[p] \in Layers
          BY <1>2 DEF Layers
    <2> DEFINE k == Rank(LayerOf[p])
    <2>2. k \in Nat /\ k < Cardinality(Layers)
          BY <2>1, RankType
    <2> HIDE DEF k
    <2>3. PICK s \in Nat : k >= s * bundle /\ k < (s + 1) * bundle
          BY <2>2, SliceType, BundleOfPosition
    <2>4. s * bundle < Cardinality(Layers)
      <3>1. s * bundle \in Nat /\ Cardinality(Layers) \in Nat
            BY SliceType, LayersFinite
      <3> QED BY <2>2, <2>3, <3>1
    <2>5. s < NumBundles /\ s \in Slice
          BY <2>4, SliceType
    <2>6. s # NumBundles
          BY <2>5, SliceType
    <2>7. p \in Bundle(s)
          BY <1>2, <2>3 DEF Bundle, k
    <2> QED BY <2>5, <2>6, <2>7 DEF Registry
  <1> QED BY <1>1, <1>2

LEMMA SlicesApart ==
  ASSUME bundle \in Bundles, NEW s \in Slice, NEW r \in Slice,
         NEW p \in Registry(s), p \in Registry(r)
  PROVE  s = r
  <1>1. CASE s = NumBundles \/ r = NumBundles
        BY <1>1 DEF Registry, Bundle
  <1>2. CASE s # NumBundles /\ r # NumBundles
    <2>1. p \in Bundle(s) /\ p \in Bundle(r)
          BY <1>2 DEF Registry
    <2>2. LayerOf[p] \in Layers
          BY <2>1 DEF Bundle, Layers
    <2>3. Rank(LayerOf[p]) \in Nat /\ s \in Nat /\ r \in Nat /\ bundle \in Nat \ {0}
          BY <2>2, RankType, SliceType
    <2> QED BY <2>1, <2>3, BundlesApart DEF Bundle
  <1> QED BY <1>1, <1>2

LEMMA PartitionHolds == bundle \in Bundles => Partition
  BY SliceNotEmpty, SliceOfEach, SlicesApart DEF Partition

LEMMA BundleKept == bundle \in Bundles /\ [Next]_vars => bundle' \in Bundles /\ bundle' = bundle
  BY DEF Next, BeginTask, EndTask, Aggregate, vars

\* Whatever layers the model has and however they are numbered, every bundle size
\* divides its parameters into slices, none of them empty (lora_utils.py:13-46).
THEOREM RegistryIsPartition == Spec => []Partition
  <1>1. Init => bundle \in Bundles
        BY DEF Init
  <1>2. bundle \in Bundles /\ [Next]_vars => (bundle \in Bundles)'
        BY BundleKept
  <1> QED BY PartitionHolds, <1>1, <1>2, PTL DEF Spec
-----------------------------------------------------------------------------
\* Workers and their tasks have one entry each.
Tables == DOMAIN model = Worker /\ DOMAIN task = Worker

\* What the names of the parameters say of the slices S.
Names(S) == UNION {Registry(s) : s \in S}

\* The slice that is looked up is the one the parameter is in.
LEMMA LookUp ==
  ASSUME bundle \in Bundles, NEW s \in Slice, NEW p \in Registry(s)
  PROVE  SliceOf(p) = s
  <1>1. \A r \in Slice : p \in Registry(r) => s = r
        BY SlicesApart
  <1>2. s <= s
        BY SliceType
  <1>3. \E r \in Slice : p \in Registry(r) /\ \A q \in Slice : p \in Registry(q) => r <= q
        BY <1>1, <1>2
  <1>4. SliceOf(p) \in Slice /\ p \in Registry(SliceOf(p))
        BY <1>3 DEF SliceOf
  <1> QED BY <1>1, <1>4

\* From all the names of some slices exactly these are told.
LEMMA LookUpAll ==
  ASSUME bundle \in Bundles, NEW S \in SUBSET Slice, NEW c
  PROVE  {<<SliceOf(p), c>> : p \in Names(S)} = S \X {c}
  <1>1. ASSUME NEW p \in Names(S) PROVE SliceOf(p) \in S
        BY LookUp DEF Names
  <1>2. ASSUME NEW s \in S PROVE \E p \in Names(S) : SliceOf(p) = s
    <2>1. PICK p : p \in Registry(s)
          BY SliceNotEmpty
    <2>2. p \in Names(S) /\ SliceOf(p) = s
          BY <2>1, LookUp DEF Names
    <2> QED BY <2>2
  <1> QED BY <1>1, <1>2

\* An update has the names of its lease, and so has a task.
Named(u) == u.slices \subseteq Slice /\ DOMAIN u.delta = Names(u.slices)

FeedbackInv ==
  /\ bundle \in Bundles
  /\ Tables
  /\ \A w \in Worker : task[w] # None =>
       task[w].slices \subseteq Slice /\ task[w].params = Names(task[w].slices)
  /\ \A u \in pending \cup counted : Named(u)
  /\ told = UNION {u.slices \X {u.client} : u \in counted}

LEMMA RegistryKept ==
  ASSUME bundle' = bundle
  PROVE  Slice' = Slice /\ \A s : Registry(s)' = Registry(s)
  BY DEF Slice, Registry, Bundle, NumBundles, Rank, Layers

\* As the registry stays what it is, only tasks and updates have to be looked at.
LEMMA FeedbackStep ==
  ASSUME bundle' = bundle, bundle \in Bundles, Tables',
         \A w \in Worker : task'[w] # None =>
           task'[w].slices \subseteq Slice /\ task'[w].params = Names(task'[w].slices),
         \A u \in pending' \cup counted' : Named(u),
         told' = UNION {u.slices \X {u.client} : u \in counted'}
  PROVE  FeedbackInv'
  <1>1. Slice' = Slice /\ \A s : Registry(s)' = Registry(s)
        BY RegistryKept
  <1>2. \A w \in Worker : task'[w] # None =>
          /\ task'[w].slices \subseteq Slice'
          /\ task'[w].params = UNION {Registry(s)' : s \in task'[w].slices}
        BY <1>1 DEF Names
  <1>3. \A u \in pending' \cup counted' :
          /\ u.slices \subseteq Slice'
          /\ DOMAIN u.delta = UNION {Registry(s)' : s \in u.slices}
        BY <1>1 DEF Named, Names
  <1> QED BY <1>2, <1>3 DEF FeedbackInv, Named, Names

LEMMA ToldExactly ==
  ASSUME bundle \in Bundles, NEW U, \A u \in U : Named(u)
  PROVE  Told(U) = UNION {u.slices \X {u.client} : u \in U}
  <1>1. ASSUME NEW u \in U
        PROVE  {<<SliceOf(p), u.client>> : p \in DOMAIN u.delta} = u.slices \X {u.client}
        BY LookUpAll DEF Named
  <1> QED BY <1>1 DEF Told

LEMMA FeedbackInductive ==
  ASSUME FeedbackInv, [Next]_vars
  PROVE  FeedbackInv'
  <1>1. bundle' = bundle /\ bundle \in Bundles /\ bundle' \in Bundles
        BY BundleKept DEF FeedbackInv
  <1>4. ASSUME NEW w \in Worker, NEW c, NEW S \in SUBSET Slice, BeginTask(w, c, S)
        PROVE  FeedbackInv'
    <2>1. /\ task' = [task EXCEPT ![w] = task'[w]]
          /\ task'[w].slices = S
          /\ task'[w].params = Names(S)
          /\ DOMAIN model' = DOMAIN model
          BY <1>4 DEF BeginTask, FeedbackInv, Tables, Names
    <2>2. UNCHANGED <<pending, told, counted>>
          BY <1>4 DEF BeginTask
    <2>3. Tables'
          BY <2>1 DEF FeedbackInv, Tables
    <2>4. ASSUME NEW v \in Worker, task'[v] # None
          PROVE  task'[v].slices \subseteq Slice /\ task'[v].params = Names(task'[v].slices)
      <3>1. CASE v = w
            BY <2>1, <3>1
      <3>2. CASE v # w
        <4>1. task'[v] = task[v]
              BY <2>1, <3>2 DEF FeedbackInv, Tables
        <4> QED BY <2>4, <4>1 DEF FeedbackInv
      <3> QED BY <3>1, <3>2
    <2>5. \A u \in pending' \cup counted' : Named(u)
          BY <2>2 DEF FeedbackInv
    <2>6. told' = UNION {u.slices \X {u.client} : u \in counted'}
          BY <2>2 DEF FeedbackInv
    <2> QED BY <1>1, <2>3, <2>4, <2>5, <2>6, FeedbackStep
  <1>5. ASSUME NEW w \in Worker, NEW m, NEW n, EndTask(w, m, n)
        PROVE  FeedbackInv'
    <2> DEFINE u == [round |-> task[w].round, client |-> task[w].client,
                     slices |-> task[w].slices,
                     delta |-> Delta(task[w], Trained(w, m)), examples |-> n,
                     trained |-> Trained(w, m), base |-> task[w].base]
    <2>1. /\ task[w] # None
          /\ task' = [task EXCEPT ![w] = None]
          /\ DOMAIN model' = DOMAIN model
          /\ pending' \in {pending, pending \cup {u}}
          BY <1>5 DEF EndTask
    <2>2. UNCHANGED <<told, counted>>
          BY <1>5 DEF EndTask
    <2>3. Tables'
          BY <2>1 DEF FeedbackInv, Tables
    <2>4. ASSUME NEW v \in Worker, task'[v] # None
          PROVE  task'[v].slices \subseteq Slice /\ task'[v].params = Names(task'[v].slices)
      <3>1. task'[v] = task[v]
            BY <2>1, <2>4 DEF FeedbackInv, Tables
      <3> QED BY <2>4, <3>1 DEF FeedbackInv
    <2>5. Named(u)
      <3>1. u.slices = task[w].slices /\ DOMAIN u.delta = task[w].params
            BY DEF Delta
      <3> HIDE DEF u
      <3> QED BY <2>1, <3>1 DEF FeedbackInv, Named
    <2> HIDE DEF u
    <2>6. \A v \in pending' \cup counted' : Named(v)
          BY <2>1, <2>2, <2>5 DEF FeedbackInv
    <2>7. told' = UNION {v.slices \X {v.client} : v \in counted'}
          BY <2>2 DEF FeedbackInv
    <2> QED BY <1>1, <2>3, <2>4, <2>6, <2>7, FeedbackStep
  <1>6. ASSUME NEW U \in SUBSET pending, Aggregate(U)
        PROVE  FeedbackInv'
    <2>1. /\ told' = Told(U)
          /\ counted' = U
          /\ pending' = {}
          /\ UNCHANGED <<model, task>>
          BY <1>6 DEF Aggregate
    <2>2. \A u \in U : Named(u)
          BY DEF FeedbackInv
    <2>3. told' = UNION {u.slices \X {u.client} : u \in counted'}
          BY <1>1, <2>1, <2>2, ToldExactly
    <2>4. \A u \in pending' \cup counted' : Named(u)
          BY <2>1, <2>2
    <2>5. Tables'
          BY <2>1 DEF FeedbackInv, Tables
    <2>6. ASSUME NEW v \in Worker, task'[v] # None
          PROVE  task'[v].slices \subseteq Slice /\ task'[v].params = Names(task'[v].slices)
          BY <2>1, <2>6 DEF FeedbackInv
    <2> QED BY <1>1, <2>3, <2>4, <2>5, <2>6, FeedbackStep
  <1>7. CASE UNCHANGED vars
    <2>1. UNCHANGED <<model, task, pending, told, counted>>
          BY <1>7 DEF vars
    <2>2. \A u \in pending' \cup counted' : Named(u)
          BY <2>1 DEF FeedbackInv
    <2>3. Tables'
          BY <2>1 DEF FeedbackInv, Tables
    <2>4. ASSUME NEW v \in Worker, task'[v] # None
          PROVE  task'[v].slices \subseteq Slice /\ task'[v].params = Names(task'[v].slices)
          BY <2>1, <2>4 DEF FeedbackInv
    <2>5. told' = UNION {u.slices \X {u.client} : u \in counted'}
          BY <2>1 DEF FeedbackInv
    <2> QED BY <1>1, <2>2, <2>3, <2>4, <2>5, FeedbackStep
  <1> QED BY <1>4, <1>5, <1>6, <1>7 DEF Next

\* For every model and bundle size, and every set of leases, FeedbackState is told
\* of exactly the slices whose parameters were averaged (coordinator.py:416-425).
THEOREM AggregationFeedbackIsTruth == Spec => []FeedbackIsTruth
  <1>1. Init => FeedbackInv
        BY DEF Init, FeedbackInv, Tables
  <1>2. FeedbackInv => FeedbackIsTruth
        BY DEF FeedbackInv, FeedbackIsTruth, Named, Names
  <1>3. FeedbackInv /\ [Next]_vars => FeedbackInv'
        BY FeedbackInductive
  <1> QED BY <1>1, <1>2, <1>3, PTL DEF Spec
-----------------------------------------------------------------------------
\* What is known of an update, however stale.
Sent(u) ==
  /\ u.examples \in Examples /\ u.client \in Client
  /\ u.trained \in Adapter /\ u.base \in Adapter
  /\ DOMAIN u.delta \subseteq Param
  /\ \A p \in DOMAIN u.delta : u.delta[p] = Progress(u, p)

DataInv ==
  /\ round \in 0 .. NumRounds
  /\ leased \subseteq Client
  /\ global \in Adapter /\ before \in Adapter
  /\ model \in [Worker -> Adapter]
  /\ DOMAIN task = Worker
  /\ \A w \in Worker : task[w] # None =>
       task[w].base \in Adapter /\ task[w].client \in Client /\ task[w].params \subseteq Param
  /\ IsFiniteSet(pending) /\ IsFiniteSet(counted)
  /\ \A u \in pending \cup counted : Sent(u)
  /\ AverageOfModels

LEMMA StoredType == ASSUME NEW p, NEW v \in Int PROVE Stored(p, v) \in Int
  BY ValueAssumption DEF Stored

\* One step of the average, for each parameter.
LEMMA AveragedBetween ==
  ASSUME NEW U, IsFiniteSet(U), \A u \in U : Sent(u), global \in Adapter, NEW p \in Param
  PROVE  LET moves == {global[p] + Progress(u, p) : u \in Touching(U, p)}
         IN  /\ Averaged(U)[p] \in Int
             /\ IF moves = {} THEN Averaged(U)[p] = global[p]
                ELSE Min(moves) <= Averaged(U)[p] /\ Averaged(U)[p] <= Max(moves)
  <1> DEFINE T == Touching(U, p)
             moves == {global[p] + Progress(u, p) : u \in T}
             mean == Mean(T, p)
  <1>1. T \subseteq U /\ IsFiniteSet(T)
        BY FS_Subset DEF Touching
  <1>2. global[p] \in Int
        BY DEF Adapter
  <1>3. \A u \in T : u.examples \in Nat \ {0} /\ Progress(u, p) \in Int /\ u.delta[p] = Progress(u, p)
    <2> SUFFICES ASSUME NEW u \in T
                 PROVE  /\ u.examples \in Nat \ {0} /\ Progress(u, p) \in Int
                        /\ u.delta[p] = Progress(u, p)
        OBVIOUS
    <2>1. Sent(u) /\ p \in DOMAIN u.delta
          BY <1>1 DEF Touching
    <2>2. u.trained[p] \in Int /\ u.base[p] \in Int
          BY <2>1 DEF Sent, Adapter
    <2>3. Progress(u, p) \in Int
          BY <2>2 DEF Progress
    <2> QED BY <2>1, <2>3, ValueAssumption DEF Sent
  <1>4. Averaged(U)[p] = IF T = {} THEN global[p] ELSE global[p] + mean
        BY DEF Averaged, Mean
  <1>5. moves = {} <=> T = {}
        OBVIOUS
  <1>6. CASE T = {}
        BY <1>2, <1>4, <1>5, <1>6
  <1>7. CASE T # {}
    <2>1. moves \subseteq Int /\ moves # {}
          BY <1>2, <1>3, <1>5, <1>7
    <2>2. IsFiniteSet(moves)
      <3> DEFINE f == [u \in T |-> global[p] + Progress(u, p)]
      <3>1. f \in Surjection(T, moves)
            BY DEF Surjection
      <3> HIDE DEF f, moves, T
      <3> QED BY <1>1, <3>1, FS_Surjection
    <2> DEFINE lo == Min(moves) - global[p]
               hi == Max(moves) - global[p]
    <2>3. Min(moves) \in Int /\ Max(moves) \in Int /\ \A x \in moves : Min(moves) <= x /\ x <= Max(moves)
      <3> HIDE DEF moves
      <3> QED BY <2>1, <2>2, Extremes
    <2>4. lo \in Int /\ hi \in Int /\ \A u \in T : lo <= u.delta[p] /\ u.delta[p] <= hi
      <3>1. ASSUME NEW u \in T PROVE lo <= u.delta[p] /\ u.delta[p] <= hi
        <4>1. global[p] + Progress(u, p) \in moves
              OBVIOUS
        <4> HIDE DEF moves, T
        <4> QED BY <1>2, <1>3, <2>3, <4>1
      <3> HIDE DEF moves, T
      <3> QED BY <1>2, <2>3, <3>1
    <2>5. mean \in Int /\ lo <= mean /\ mean <= hi
      <3>1. \A u \in T : u.examples \in Nat \ {0} /\ u.delta[p] \in Int
            BY <1>3
      <3> HIDE DEF T, lo, hi
      <3> QED BY <1>1, <1>7, <2>4, <3>1, MeanBounds
    <2> HIDE DEF T, mean, moves
    <2>6. Averaged(U)[p] = global[p] + mean
          BY <1>4, <1>7
    <2>7. Averaged(U)[p] \in Int /\ Min(moves) <= Averaged(U)[p] /\ Averaged(U)[p] <= Max(moves)
          BY <1>2, <2>3, <2>5, <2>6
    <2> QED BY <1>5, <1>7, <2>7 DEF moves, T
  <1> QED BY <1>6, <1>7

LEMMA DataBegin ==
  ASSUME DataInv, FeedbackInv, NEW w \in Worker, NEW c \in Client, NEW S \in SUBSET Slice,
         BeginTask(w, c, S)
  PROVE  DataInv'
  <1>1. UNCHANGED <<round, global, before, pending, counted>>
        BY DEF BeginTask
  <1>2. leased' \subseteq Client
        BY DEF BeginTask, DataInv
  <1>3. /\ model' = [model EXCEPT ![w] = model'[w]]
        /\ model'[w] = [p \in Param |-> Stored(p, global[p])]
        /\ task' = [task EXCEPT ![w] = task'[w]]
        /\ task'[w].base = global /\ task'[w].client = c
        /\ task'[w].params = UNION {Registry(s) : s \in S}
        BY DEF BeginTask, DataInv, Loaded
  <1>4. task'[w].params \subseteq Param
        BY <1>3, LayoutAssumption DEF Registry, Bundle
  <1>5. model'[w] \in Adapter
        BY <1>3, StoredType DEF DataInv, Adapter
  <1>6. model' \in [Worker -> Adapter] /\ DOMAIN task' = Worker
        BY <1>3, <1>5 DEF DataInv
  <1>7. \A v \in Worker : v # w => task'[v] = task[v]
        BY <1>3 DEF DataInv
  <1>8. \A v \in Worker : task'[v] # None =>
          task'[v].base \in Adapter /\ task'[v].client \in Client /\ task'[v].params \subseteq Param
        BY <1>3, <1>4, <1>7 DEF DataInv
  <1>9. AverageOfModels'
        BY <1>1 DEF DataInv, AverageOfModels
  <1> QED BY <1>1, <1>2, <1>6, <1>8, <1>9 DEF DataInv

LEMMA DataEnd ==
  ASSUME DataInv, NEW w \in Worker, NEW m \in Moves, NEW n \in Examples, EndTask(w, m, n)
  PROVE  DataInv'
  <1> DEFINE t == task[w]
             trained == Trained(w, m)
             u == [round |-> t.round, client |-> t.client, slices |-> t.slices,
                   delta |-> Delta(t, trained), examples |-> n,
                   trained |-> trained, base |-> t.base]
  <1>1. UNCHANGED <<round, leased, global, before, counted>>
        BY DEF EndTask
  <1>2. /\ t # None
        /\ model' = [model EXCEPT ![w] = trained]
        /\ task' = [task EXCEPT ![w] = None]
        /\ pending' \in {pending, pending \cup {u}}
        BY DEF EndTask
  <1>3. t.base \in Adapter /\ t.client \in Client /\ t.params \subseteq Param /\ model[w] \in Adapter
        BY <1>2 DEF DataInv
  <1>4. trained \in Adapter
    <2>1. \A p \in Param : model[w][p] \in Int /\ model[w][p] + m \in Int
          BY <1>3, ValueAssumption DEF Adapter
    <2> QED BY <2>1, StoredType DEF Trained, Adapter
  <1>5. Sent(u)
    <2> HIDE DEF trained, t
    <2>1. /\ u.examples = n /\ u.client = t.client /\ u.trained = trained /\ u.base = t.base
          /\ u.delta = [p \in t.params |-> trained[p] - t.base[p]]
          BY DEF Delta
    <2> HIDE DEF u
    <2> QED BY <1>3, <1>4, <2>1 DEF Sent, Progress
  <1> HIDE DEF u, trained, t
  <1>6. IsFiniteSet(pending')
        BY <1>2, FS_AddElement DEF DataInv
  <1>7. \A v \in pending' \cup counted' : Sent(v)
        BY <1>1, <1>2, <1>5 DEF DataInv
  <1>8. model' \in [Worker -> Adapter] /\ DOMAIN task' = Worker
        BY <1>2, <1>4 DEF DataInv
  <1>9. \A v \in Worker : task'[v] # None =>
          task'[v].base \in Adapter /\ task'[v].client \in Client /\ task'[v].params \subseteq Param
    <2>1. \A v \in Worker : task'[v] # None => task'[v] = task[v]
          BY <1>2 DEF DataInv
    <2> QED BY <2>1 DEF DataInv
  <1>10. AverageOfModels'
         BY <1>1 DEF DataInv, AverageOfModels
  <1> QED BY <1>1, <1>6, <1>7, <1>8, <1>9, <1>10 DEF DataInv

LEMMA DataAggregate ==
  ASSUME DataInv, NEW U \in SUBSET pending, Aggregate(U)
  PROVE  DataInv'
  <1>1. /\ round' = round + 1 /\ round < NumRounds
        /\ global' = Averaged(U) /\ before' = global /\ counted' = U
        /\ pending' = {} /\ leased' = {}
        /\ UNCHANGED <<model, task>>
        BY DEF Aggregate
  <1>2. IsFiniteSet(U) /\ IsFiniteSet({})
        BY FS_Subset, FS_EmptySet DEF DataInv
  <1>3. \A u \in U : Sent(u)
        BY DEF DataInv
  <1>4. global \in Adapter
        BY DEF DataInv
  <1>5. Averaged(U) \in Adapter
    <2>1. \A p \in Param : Averaged(U)[p] \in Int
          BY <1>2, <1>3, <1>4, AveragedBetween
    <2>2. Averaged(U) = [p \in Param |-> Averaged(U)[p]]
          BY DEF Averaged
    <2> QED BY <2>1, <2>2 DEF Adapter
  <1>6. AverageOfModels'
    <2> SUFFICES ASSUME NEW p \in Param
                 PROVE  LET moves == {global[p] + Progress(u, p) : u \in Touching(U, p)}
                        IN  IF moves = {} THEN Averaged(U)[p] = global[p]
                            ELSE Min(moves) <= Averaged(U)[p] /\ Averaged(U)[p] <= Max(moves)
        BY <1>1 DEF AverageOfModels, Touching, Progress
    <2> QED BY <1>2, <1>3, <1>4, AveragedBetween
  <1>7. round' \in 0 .. NumRounds
        BY <1>1, ValueAssumption DEF DataInv
  <1> QED BY <1>1, <1>2, <1>3, <1>4, <1>5, <1>6, <1>7 DEF DataInv

LEMMA DataInductive ==
  ASSUME DataInv, FeedbackInv, [Next]_vars
  PROVE  DataInv'
  <1>1. CASE UNCHANGED vars
    <2>1. UNCHANGED <<round, leased, global, model, task, pending, before, counted>>
          BY <1>1 DEF vars
    <2>2. AverageOfModels'
          BY <2>1 DEF DataInv, AverageOfModels
    <2> QED BY <2>1, <2>2 DEF DataInv
  <1> QED BY <1>1, DataBegin, DataEnd, DataAggregate DEF Next

LEMMA DataInit ==
  ASSUME Init
  PROVE  DataInv /\ FeedbackInv
  <1>1. FeedbackInv
        BY DEF Init, FeedbackInv, Tables
  <1>2. Zero \in Adapter /\ IsFiniteSet({}) /\ 0 \in 0 .. NumRounds
        BY ValueAssumption, FS_EmptySet DEF Zero, Adapter
  <1>3. AverageOfModels
    <2>1. \A p : Touching({}, p) = {}
          BY DEF Touching
    <2> QED BY <2>1 DEF Init, AverageOfModels
  <1> QED BY <1>1, <1>2, <1>3 DEF Init, DataInv

\* Whatever was sent, and however many rounds late, a parameter ends between the
\* least and the greatest value that the clients have trained, and stays where
\* nobody has sent it: the weights of the average are those of the clients that
\* have sent this parameter, and no other (aggregation.py:41-57).
THEOREM AggregationAverageOfModels == Spec => []AverageOfModels
  <1>1. DataInv => AverageOfModels
        BY DEF DataInv
  <1> QED BY <1>1, DataInit, DataInductive, FeedbackInductive, PTL DEF Spec

\* Every variable has its type: no average leaves the numbers, and what FeedbackState
\* is told are slices of the registry and clients (coordinator.py:416-425).
THEOREM AggregationTypes == Spec => []TypeOK
  <1>1. ASSUME DataInv, FeedbackInv PROVE TypeOK
    <2>1. told \subseteq Slice \X Client
      <3>1. \A u \in counted : u.slices \subseteq Slice /\ u.client \in Client
            BY <1>1 DEF DataInv, FeedbackInv, Sent, Named
      <3> QED BY <1>1, <3>1 DEF FeedbackInv
    <2>2. \A u \in pending \cup counted : DOMAIN u.delta \subseteq Param /\ u.examples \in Examples
          BY <1>1 DEF DataInv, Sent
    <2>3. Partition
          BY <1>1, PartitionHolds DEF FeedbackInv
    <2> QED BY <1>1, <2>1, <2>2, <2>3 DEF DataInv, FeedbackInv, TypeOK
  <1> QED BY <1>1, DataInit, DataInductive, FeedbackInductive, PTL DEF Spec
=============================================================================
