-------------------------- MODULE CommunityProofs ---------------------------
(***************************************************************************)
(* Proofs about the community results.                                     *)
(***************************************************************************)
EXTENDS CommunityStore, SumTheorems

(***************************************************************************)
(* Numbers.                                                                *)
(***************************************************************************)
LEMMA Division ==
    ASSUME NEW a \in Nat, NEW n \in Nat, n > 0
    PROVE  a \div n \in Nat /\ n * (a \div n) <= a
OBVIOUS

\* A share of the whole is at most 1000 thousandths.
LEMMA Share ==
    ASSUME NEW a \in Nat, NEW n \in Nat, n > 0
    PROVE  Thousandths(a, n) \in Nat /\ (a <= n => Thousandths(a, n) <= 1000)
<1> DEFINE q == Thousandths(a, n)
<1>1. q \in Nat /\ n * q <= 1000 * a
  BY Division DEF Thousandths
<1> HIDE DEF q
<1>2. ASSUME a <= n, q > 1000 PROVE FALSE
  <2>1. n * q >= n * 1001
    BY <1>1, <1>2
  <2> QED
    BY <1>1, <1>2, <2>1
<1> QED
  BY <1>1, <1>2 DEF q

\* Every number below 1001 * 1001 has an integer root.
LEMMA Root ==
    ASSUME NEW n \in Nat, n < 1001 * 1001
    PROVE  IntegerRoot(n) \in Nat
<1> DEFINE B == {k \in Nat : n < (k + 1) * (k + 1)}
<1>1. 1000 \in B
  OBVIOUS
<1>2. PICK k \in B : \A m \in B : k <= m
  <2>1. B \subseteq Nat /\ B # {}
    BY <1>1
  <2> HIDE DEF B
  <2> QED
    BY <2>1, LeastNumber, ZenonT(60)
<1>3. k \in Nat /\ k <= 1000 /\ n < (k + 1) * (k + 1)
  BY <1>1, <1>2
<1>4. k * k <= n
  <2>1. CASE k = 0
    BY <2>1
  <2>2. CASE k # 0
    <3>1. k - 1 \in Nat /\ ~(k <= k - 1)
      BY <1>3, <2>2
    <3>2. k - 1 \notin B
      BY <1>2, <3>1
    <3>3. ~(n < (k - 1 + 1) * (k - 1 + 1))
      BY <3>1, <3>2
    <3>4. k - 1 + 1 = k
      BY <1>3
    <3> QED
      BY <1>3, <3>3, <3>4
  <2> QED
    BY <2>1, <2>2
<1> DEFINE D == 0..1000
           P(j) == j * j <= n /\ n < (j + 1) * (j + 1)
<1>5. \E j \in D : P(j)
  BY <1>3, <1>4
<1>6. IntegerRoot(n) = CHOOSE j \in D : P(j)
  BY DEF IntegerRoot
<1>7. \A j \in D : j \in Nat
  OBVIOUS
<1> HIDE DEF D, P
<1>8. IntegerRoot(n) \in D
  BY <1>5, <1>6
<1> QED
  BY <1>7, <1>8

\* The larger of two numbers.
LEMMA MaxOfTwo ==
    ASSUME NEW a \in Int, NEW b \in Int
    PROVE  Max({a, b}) \in Int /\ Max({a, b}) >= a /\ Max({a, b}) >= b
<1>1. \E m \in {a, b} : \A x \in {a, b} : m >= x
  OBVIOUS
<1>2. Max({a, b}) \in {a, b} /\ \A x \in {a, b} : Max({a, b}) >= x
  BY <1>1, Zenon DEF Max
<1> QED
  BY <1>2

\* The smaller of two numbers.
LEMMA MinOfTwo ==
    ASSUME NEW a \in Int, NEW b \in Int
    PROVE  Min({a, b}) \in Int
<1>1. \E m \in {a, b} : \A x \in {a, b} : m <= x
  OBVIOUS
<1>2. Min({a, b}) \in {a, b}
  BY <1>1, Zenon DEF Min
<1> QED
  BY <1>2

\* The sum of the second components.
LEMMA SumOfPairs ==
    ASSUME NEW pairs, IsFiniteSet(pairs), \A x \in pairs : x[2] \in Nat
    PROVE  /\ SumOf(pairs) = Sigma(FieldOf(pairs, 2), pairs)
           /\ SumOf(pairs) \in Nat
<1>1. SumOf(pairs) = Sigma(FieldOf(pairs, 2), pairs)
  BY SumOfField DEF SumOf
<1>2. \A x \in pairs : FieldOf(pairs, 2)[x] \in Nat
  BY DEF FieldOf
<1>3. Sigma(FieldOf(pairs, 2), pairs) \in Nat
  BY <1>2, SigmaNat
<1> QED
  BY <1>1, <1>3

\* The mean of n rates.
LEMMA MeanRate ==
    ASSUME NEW rates, IsFiniteSet(rates), \A x \in rates : x[2] \in Nat /\ x[2] <= 1000,
           Cardinality(rates) > 0
    PROVE  SumOf(rates) \div Cardinality(rates) \in Nat /\ SumOf(rates) \div Cardinality(rates) <= 1000
<1> DEFINE w == FieldOf(rates, 2)
           n == Cardinality(rates)
           t == SumOf(rates)
<1>1. n \in Nat
  BY FS_CardinalityType
<1>2. t = Sigma(w, rates) /\ t \in Nat
  BY SumOfPairs
<1>3. \A x \in rates : w[x] \in Nat /\ w[x] <= 1000
  BY DEF FieldOf
<1> HIDE DEF w, t
<1>4. Sigma(w, rates) <= 1000 * n
  BY <1>3, SigmaOfRates
<1> DEFINE e == t \div n
<1>5. n > 0
  OBVIOUS
<1> HIDE DEF n
<1>6. e \in Nat /\ n * e <= t
  BY <1>1, <1>2, <1>5, Division
<1> HIDE DEF e
<1>7. e <= 1000
  <2> SUFFICES ASSUME e >= 1001 PROVE FALSE
    BY <1>6
  <2>1. n * e >= n * 1001
    BY <1>1, <1>6
  <2> QED
    BY <1>1, <1>2, <1>4, <1>5, <1>6, <2>1
<1> QED
  BY <1>6, <1>7 DEF e, t, n

\* The variance under the root of the interval is small enough to have a root.
Under(e, n) == (e * (1000 - e)) \div n + 960400 \div (n * n)

\* The root taken by cluster_interval is a natural number.
LEMMA Spread ==
    ASSUME NEW e \in Nat, e <= 1000, NEW n \in Nat, n >= 5
    PROVE  IntegerRoot(Under(e, n)) \in Nat
<1> DEFINE v == e * (1000 - e)
           r == v \div n
           u == n * n
           s == 960400 \div u
<1>1. v \in Nat /\ v <= 1000 * 1000
  BY SMT
<1>2. u \in Nat /\ u >= 25
  OBVIOUS
<1> HIDE DEF v, u
<1>3. r \in Nat /\ n * r <= v
  BY <1>1, Division
<1>4. s \in Nat /\ u * s <= 960400
  BY <1>2, Division, SMT
<1> HIDE DEF r, s
<1>5. r <= 200000
  <2>1. 5 * r <= n * r
    BY <1>3
  <2> QED
    BY <1>1, <1>3, <2>1, SMT
<1>6. s <= 38416
  <2>1. 25 * s <= u * s
    BY <1>2, <1>4, SMT
  <2> QED
    BY <1>2, <1>4, <2>1, SMT
<1>7. r + s \in Nat /\ r + s < 1001 * 1001
  BY <1>3, <1>4, <1>5, <1>6, SMT
<1>8. IntegerRoot(r + s) \in Nat
  BY <1>7, Root, SMT
<1> QED
  BY <1>8, SMT DEF r, s, u, v, Under

\* A Wilson interval is withheld below five rates, and is one otherwise.
LEMMA IntervalIsReal ==
    ASSUME NEW rates, IsFiniteSet(rates), \A x \in rates : x[2] \in Nat /\ x[2] <= 1000
    PROVE  /\ Cardinality(rates) \in Nat
           /\ Cardinality(rates) < 5 => cluster_interval(rates) = None
           /\ Cardinality(rates) >= 5 =>
                cluster_interval(rates) # None /\ cluster_interval(rates).low \in Int
<1> DEFINE n == Cardinality(rates)
           e == SumOf(rates) \div n
           d == 1000 + 3842 \div n
           center == ((e + 1921 \div n) * 1000) \div d
           k == IntegerRoot(Under(e, n))
           margin == (1960 * k) \div d
           low == Max({0, center - margin})
           high == Min({1000, center + margin})
           I == [estimate |-> e, low |-> low, high |-> high, observed |-> n]
<1>1. n \in Nat
  BY FS_CardinalityType
<1>2. cluster_interval(rates) = IF n < 5 THEN None ELSE I
  BY SMT DEF cluster_interval, Under, MIN_BASELINE_SUBMISSIONS
<1>3. n >= 5 => I \in [estimate : Int, low : Int, high : Int, observed : Int] /\ I.low \in Int
  <2> SUFFICES ASSUME n >= 5
               PROVE  I \in [estimate : Int, low : Int, high : Int, observed : Int] /\ I.low \in Int
    OBVIOUS
  <2>1. e \in Nat /\ e <= 1000
    BY <1>1, MeanRate
  <2> HIDE DEF n, e
  <2>2. 3842 \div n \in Nat /\ 1921 \div n \in Nat
    BY <1>1, Division, SMT
  <2>3. d \in Nat /\ d > 0 /\ (e + 1921 \div n) * 1000 \in Nat
    BY <2>1, <2>2, SMT
  <2>4. k \in Nat
    BY <1>1, <2>1, Spread, SMT
  <2> HIDE DEF d, k
  <2>5. center \in Nat /\ margin \in Nat
    BY <2>3, <2>4, Division, SMT
  <2> HIDE DEF center, margin
  <2>6. low \in Int /\ high \in Int
    <3>1. 0 \in Int /\ 1000 \in Int /\ center - margin \in Int /\ center + margin \in Int
      BY <2>5
    <3>2. Max({0, center - margin}) \in Int
      BY <3>1, MaxOfTwo, ZenonT(60)
    <3>3. Min({1000, center + margin}) \in Int
      BY <3>1, MinOfTwo
    <3> QED
      BY <3>2, <3>3
  <2> HIDE DEF low, high
  <2> QED
    BY <1>1, <2>1, <2>6
<1> HIDE DEF I, n
<1>4. n >= 5 => ~(n < 5)
  BY <1>1
<1>5. n >= 5 => I # None
  BY <1>3, NoneAssumption
<1> QED
  BY <1>1, <1>2, <1>3, <1>4, <1>5 DEF n

\* The values of the pairs are a finite set of numbers.
LEMMA ValuesOf ==
    ASSUME NEW pairs, IsFiniteSet(pairs), \A x \in pairs : x[2] \in Nat
    PROVE  IsFiniteSet({x[2] : x \in pairs}) /\ {x[2] : x \in pairs} \subseteq Int
<1> DEFINE f == [x \in pairs |-> x[2]]
<1>1. IsFiniteSet({f[x] : x \in pairs})
  <2> HIDE DEF f
  <2> QED
    BY ImageFinite
<1>2. {f[x] : x \in pairs} = {x[2] : x \in pairs}
  OBVIOUS
<1>3. {x[2] : x \in pairs} \subseteq Int
  OBVIOUS
<1> QED
  BY <1>1, <1>2, <1>3

\* The rank that _percentile looks for is one of 1..n.
LEMMA RankInRange ==
    ASSUME NEW n \in Nat, n > 0, NEW p \in Nat, p <= 100
    PROVE  LET k == Max({1, (p * n + 99) \div 100}) IN k \in Nat /\ 1 <= k /\ k <= n
<1> DEFINE q == (p * n + 99) \div 100
           k == Max({1, q})
<1>1. p * n \in Nat /\ p * n <= 100 * n
  OBVIOUS
<1>2. p * n + 99 \in Nat
  BY <1>1
<1>3. q \in Nat /\ 100 * q <= p * n + 99
  BY <1>2, Division
<1>4. q <= n
  <2> HIDE DEF q
  <2> QED
    BY <1>1, <1>3
<1> HIDE DEF q
<1>5. \E m \in {1, q} : \A x \in {1, q} : m >= x
  BY <1>3
<1>6. k \in {1, q} /\ \A x \in {1, q} : k >= x
  BY <1>5, Zenon DEF Max
<1> QED
  BY <1>3, <1>4, <1>6 DEF q

\* _percentile returns one of the values it is given: the least one that k of them do
\* not exceed is exceeded by fewer than k.
LEMMA PercentileIsValue ==
    ASSUME NEW pairs, NEW p \in Nat, IsFiniteSet(pairs), \A x \in pairs : x[2] \in Nat,
           p <= 100, pairs # {}
    PROVE  percentile(pairs, p) \in {x[2] : x \in pairs}
<1> DEFINE n == Cardinality(pairs)
           k == Max({1, (p * n + 99) \div 100})
           V == {x[2] : x \in pairs}
           Upto(v) == {x \in pairs : x[2] <= v}
           Below(v) == {x \in pairs : x[2] < v}
           B == {v \in V : Cardinality(Upto(v)) >= k}
           P(v) == Cardinality(Below(v)) < k /\ Cardinality(Upto(v)) >= k
<1>1. n \in Nat /\ n > 0
  <2>1. n \in Nat /\ (n = 0 <=> pairs = {})
    BY FS_CardinalityType, FS_EmptySet
  <2> QED
    BY <2>1
<1>2. k \in Nat /\ 1 <= k /\ k <= n
  <2> HIDE DEF n
  <2> QED
    BY <1>1, RankInRange
<1>3. V \subseteq Nat /\ V # {} /\ IsFiniteSet(V) /\ V \subseteq Int
  BY ValuesOf
<1>4. percentile(pairs, p) = CHOOSE v \in V : P(v)
  <2>1. n # 0
    BY <1>1
  <2> QED
    BY <2>1, Zenon DEF percentile
<1> HIDE DEF k
<1>5. \A v : /\ IsFiniteSet(Upto(v)) /\ Cardinality(Upto(v)) \in Nat
             /\ IsFiniteSet(Below(v)) /\ Cardinality(Below(v)) \in Nat
  <2> TAKE v
  <2>1. Upto(v) \subseteq pairs /\ Below(v) \subseteq pairs
    OBVIOUS
  <2> HIDE DEF Upto, Below
  <2> QED
    BY <2>1, FS_Subset, FS_CardinalityType
<1>6. Max(V) \in B
  <2>1. Max(V) \in V /\ \A x \in V : x <= Max(V)
    <3> HIDE DEF V
    <3> QED
      BY <1>3, Greatest
  <2> DEFINE m == Max(V)
  <2> HIDE DEF m
  <2>2. m \in V /\ \A x \in pairs : x[2] <= m
    BY <2>1 DEF m
  <2>3. Upto(m) = pairs
    BY <2>2
  <2>4. m \in B
    BY <1>2, <2>2, <2>3
  <2> QED
    BY <2>4 DEF m
<1>7. PICK v \in B : \A u \in B : v <= u
  <2>1. B \subseteq Nat /\ B # {}
    BY <1>3, <1>6
  <2> HIDE DEF B
  <2> QED
    BY <2>1, LeastNumber
<1>8. Cardinality(Below(v)) < k
  <2> SUFFICES ASSUME Cardinality(Below(v)) >= k PROVE FALSE
    <3>1. Cardinality(Below(v)) \in Nat
      BY <1>5
    <3> HIDE DEF Below
    <3> QED
      BY <1>2, <3>1
  <2>1. Below(v) # {}
    <3>1. Cardinality({}) = 0
      BY FS_EmptySet
    <3> QED
      BY <1>2, <3>1
  <2> DEFINE W == {x[2] : x \in Below(v)}
             u == Max(W)
  <2>2. IsFiniteSet(W) /\ W \subseteq Int /\ W # {}
    <3>1. \A x \in Below(v) : x[2] \in Nat
      OBVIOUS
    <3>2. IsFiniteSet(Below(v)) /\ Below(v) # {}
      BY <1>5, <2>1
    <3> HIDE DEF Below
    <3> QED
      BY <3>1, <3>2, ValuesOf
  <2>3. u \in W /\ \A x \in W : x <= u
    <3> HIDE DEF W
    <3> QED
      BY <2>2, Greatest
  <2> HIDE DEF u
  <2>4. u \in V /\ u < v
    BY <2>3
  <2>5. Upto(u) = Below(v)
    <3>1. \A x \in pairs : x[2] < v => x[2] <= u
      BY <2>3
    <3>2. \A x \in pairs : x[2] <= u => x[2] < v
      BY <1>3, <1>7, <2>4
    <3> QED
      BY <3>1, <3>2
  <2>6. u \in B
    BY <2>4, <2>5
  <2>7. v \in Nat /\ u \in Nat
    BY <1>3, <1>7, <2>4
  <2>8. v <= u
    <3> HIDE DEF B
    <3> QED
      BY <1>7, <2>6
  <2> QED
    BY <2>4, <2>7, <2>8
<1>9. \E w \in V : P(w)
  BY <1>7, <1>8
<1> HIDE DEF V, P
<1>10. (CHOOSE w \in V : P(w)) \in V
  BY <1>9, Zenon
<1> QED
  BY <1>4, <1>10 DEF V

(***************************************************************************)
(* What one bundle adds to a group.                                        *)
(***************************************************************************)
CountedRun(r) ==
    /\ r.passed \in Nat /\ r.total \in Nat /\ r.passed <= r.total
    /\ r.incomplete \in Nat /\ r.manual_review \in Nat /\ r.infrastructure_errors \in Nat

TimedItem(x) == x.wall \in Nat \cup {None} /\ x.tokens \in Nat \cup {None}

IsLocal(l) ==
    /\ CountedRun(l)
    /\ l.wall \in Nat \cup {None} /\ l.rate \in Nat \cup {None}

\* The items with a time, and their speeds.
Walls(items) == {x \in items : x.wall # None}
Speeds(items) == {<<x, Thousandths(x.tokens, x.wall)>>
                    : x \in {y \in Walls(items) : y.wall > 0 /\ y.tokens # None}}

\* The fields of the aggregate of one bundle and model.
LEMMA LocalFields ==
    ASSUME NEW bundle, NEW runs, NEW items
    PROVE  Local(bundle, runs, items) =
             [bundle |-> bundle, runs |-> Cardinality(runs),
              passed |-> MapThenSumSet(LAMBDA x : x["passed"], runs),
              total |-> MapThenSumSet(LAMBDA x : x["total"], runs),
              incomplete |-> MapThenSumSet(LAMBDA x : x["incomplete"], runs),
              manual_review |-> MapThenSumSet(LAMBDA x : x["manual_review"], runs),
              infrastructure_errors |-> MapThenSumSet(LAMBDA x : x["infrastructure_errors"], runs),
              wall |-> IF Walls(items) = {} THEN None
                       ELSE Thousandths(MapThenSumSet(LAMBDA x : x.wall, Walls(items)),
                                        Cardinality(Walls(items))),
              rate |-> IF Speeds(items) = {} THEN None
                       ELSE SumOf(Speeds(items)) \div Cardinality(Speeds(items))]
BY DEF Local, Walls, Speeds

\* The number of elements of a set that is not empty is positive.
LEMMA Positive ==
    ASSUME NEW S, IsFiniteSet(S), S # {}
    PROVE  Cardinality(S) \in Nat /\ Cardinality(S) > 0
<1>1. Cardinality(S) \in Nat /\ (Cardinality(S) = 0 <=> S = {})
  BY FS_CardinalityType, FS_EmptySet
<1> QED
  BY <1>1

\* Times and token rates of timed items are finitely many natural numbers.
LEMMA SpeedsAreRates ==
    ASSUME NEW items, IsFiniteSet(items), \A x \in items : TimedItem(x)
    PROVE  /\ IsFiniteSet(Walls(items)) /\ \A x \in Walls(items) : x.wall \in Nat
           /\ IsFiniteSet(Speeds(items)) /\ \A x \in Speeds(items) : x[2] \in Nat
<1>1. IsFiniteSet(Walls(items)) /\ \A x \in Walls(items) : x.wall \in Nat
  <2>1. Walls(items) \subseteq items
    BY DEF Walls
  <2> QED
    BY <2>1, FS_Subset DEF Walls, TimedItem
<1> DEFINE R == {y \in Walls(items) : y.wall > 0 /\ y.tokens # None}
           f == [x \in R |-> <<x, Thousandths(x.tokens, x.wall)>>]
<1>2. IsFiniteSet(R)
  <2>1. R \subseteq Walls(items)
    OBVIOUS
  <2> HIDE DEF R
  <2> QED
    BY <1>1, <2>1, FS_Subset
<1>3. {f[x] : x \in R} = Speeds(items)
  BY DEF Speeds
<1>4. IsFiniteSet(Speeds(items))
  <2> HIDE DEF R, f
  <2> QED
    BY <1>2, <1>3, ImageFinite
<1>5. ASSUME NEW x \in R PROVE Thousandths(x.tokens, x.wall) \in Nat
  <2>1. x.tokens \in Nat /\ x.wall \in Nat /\ x.wall > 0
    BY DEF Walls, TimedItem
  <2> QED
    BY <2>1, Share
<1>6. \A y \in Speeds(items) : y[2] \in Nat
  <2> HIDE DEF R, f
  <2> TAKE y \in Speeds(items)
  <2>1. PICK x \in R : y = <<x, Thousandths(x.tokens, x.wall)>>
    BY DEF Speeds, R
  <2> QED
    BY <1>5, <2>1
<1> QED
  BY <1>1, <1>4, <1>6

\* The aggregate of counted runs and timed items consists of counts.
LEMMA LocalIsCounted ==
    ASSUME NEW bundle, NEW runs, NEW items, IsFiniteSet(runs), IsFiniteSet(items),
           \A r \in runs : CountedRun(r), \A x \in items : TimedItem(x)
    PROVE  IsLocal(Local(bundle, runs, items))
<1> DEFINE l == Local(bundle, runs, items)
           T(field) == MapThenSumSet(LAMBDA x : x[field], runs)
           W == Walls(items)
           R == Speeds(items)
<1>1. \A r \in runs : /\ r["passed"] \in Nat /\ r["total"] \in Nat /\ r["incomplete"] \in Nat
                      /\ r["manual_review"] \in Nat /\ r["infrastructure_errors"] \in Nat
                      /\ r["passed"] <= r["total"]
  BY DEF CountedRun
<1>2. ASSUME NEW field \in {"passed", "total", "incomplete", "manual_review",
                            "infrastructure_errors"}
      PROVE  T(field) = Sigma(FieldOf(runs, field), runs) /\ T(field) \in Nat
  <2>1. \A r \in runs : r[field] \in Nat
    BY <1>1
  <2>2. \A r \in runs : FieldOf(runs, field)[r] \in Nat
    BY <2>1 DEF FieldOf
  <2>3. T(field) = Sigma(FieldOf(runs, field), runs)
    BY <2>1, SumOfField
  <2>4. Sigma(FieldOf(runs, field), runs) \in Nat
    BY <2>2, SigmaNat
  <2> QED
    BY <2>3, <2>4
<1>3. T("passed") <= T("total")
  <2>1. \A r \in runs : /\ FieldOf(runs, "passed")[r] \in Nat /\ FieldOf(runs, "total")[r] \in Nat
                        /\ FieldOf(runs, "passed")[r] <= FieldOf(runs, "total")[r]
    BY <1>1 DEF FieldOf
  <2>2. Sigma(FieldOf(runs, "passed"), runs) <= Sigma(FieldOf(runs, "total"), runs)
    BY <2>1, SigmaMonotone
  <2> QED
    BY <1>2, <2>2
<1>4. W # {} => Thousandths(MapThenSumSet(LAMBDA x : x.wall, W), Cardinality(W)) \in Nat
  <2> SUFFICES ASSUME W # {}
               PROVE  Thousandths(MapThenSumSet(LAMBDA x : x.wall, W), Cardinality(W)) \in Nat
    OBVIOUS
  <2>1. IsFiniteSet(W) /\ \A x \in W : x["wall"] \in Nat
    BY SpeedsAreRates
  <2> HIDE DEF W
  <2>2. MapThenSumSet(LAMBDA x : x.wall, W) = Sigma(FieldOf(W, "wall"), W)
    BY <2>1, SumOfField
  <2>3. \A x \in W : FieldOf(W, "wall")[x] \in Nat
    BY <2>1 DEF FieldOf
  <2>4. Sigma(FieldOf(W, "wall"), W) \in Nat
    BY <2>1, <2>3, SigmaNat
  <2>5. Cardinality(W) \in Nat /\ Cardinality(W) > 0
    BY <2>1, Positive
  <2> QED
    BY <2>2, <2>4, <2>5, Share
<1>5. R # {} => SumOf(R) \div Cardinality(R) \in Nat
  <2> SUFFICES ASSUME R # {} PROVE SumOf(R) \div Cardinality(R) \in Nat
    OBVIOUS
  <2>1. IsFiniteSet(R) /\ \A x \in R : x[2] \in Nat
    BY SpeedsAreRates
  <2> HIDE DEF R
  <2>2. SumOf(R) \in Nat
    BY <2>1, SumOfPairs
  <2>3. Cardinality(R) \in Nat /\ Cardinality(R) > 0
    BY <2>1, Positive
  <2> QED
    BY <2>2, <2>3, Division
<1>6. /\ l.passed = T("passed") /\ l.total = T("total") /\ l.incomplete = T("incomplete")
      /\ l.manual_review = T("manual_review")
      /\ l.infrastructure_errors = T("infrastructure_errors")
      /\ l.wall = IF W = {} THEN None
                  ELSE Thousandths(MapThenSumSet(LAMBDA x : x.wall, W), Cardinality(W))
      /\ l.rate = IF R = {} THEN None ELSE SumOf(R) \div Cardinality(R)
  BY LocalFields
<1> HIDE DEF l, T, W, R
<1>7. CountedRun(l)
  BY <1>2, <1>3, <1>6 DEF CountedRun
<1>8. l.wall \in Nat \cup {None} /\ l.rate \in Nat \cup {None}
  BY <1>4, <1>5, <1>6
<1>9. IsLocal(l)
  BY <1>7, <1>8 DEF IsLocal
<1> QED
  BY <1>9 DEF l

(***************************************************************************)
(* The row of one group.                                                   *)
(***************************************************************************)
IsRow(row) ==
    /\ \A o \in RECOMMENDATION_OBJECTIVES :
         /\ row.observed[o] \in Nat
         /\ candidate_metrics(row)[o] \in Int \cup {None}
         /\ row.observed[o] >= 5 => candidate_metrics(row)[o] # None
    /\ row.pass_interval # None <=> row.observed.accuracy >= 5
    /\ row.pass_interval # None <=> candidate_metrics(row).accuracy # None

\* The values a row is computed from.
PassRates(locals) == {<<l.bundle, Thousandths(l.passed, l.total)>> : l \in {x \in locals : x.total > 0}}
CompletionRates(locals) == {<<l.bundle, Thousandths(l.total, attempted(l))>>
                              : l \in {x \in locals : attempted(x) > 0}}
WallTimes(locals) == {<<l.bundle, l.wall>> : l \in {x \in locals : x.wall # None}}
TokenRates(locals) == {<<l.bundle, l.rate>> : l \in {x \in locals : x.rate # None}}

\* The fields of a row of the community table.
LEMMA RowFields ==
    ASSUME NEW key, NEW locals
    PROVE  LET row == GroupRow(key, locals)
           IN /\ row.round = key[1] /\ row.pack = key[2] /\ row.configuration = key[3]
              /\ row.observed = [accuracy |-> Cardinality(PassRates(locals)),
                                 completion |-> Cardinality(CompletionRates(locals)),
                                 latency |-> Cardinality(WallTimes(locals)),
                                 throughput |-> Cardinality(TokenRates(locals))]
              /\ row.pass_interval = cluster_interval(PassRates(locals))
              /\ row.completion_interval = cluster_interval(CompletionRates(locals))
              /\ row.wall90 = percentile(WallTimes(locals), 90)
              /\ row.speed50 = percentile(TokenRates(locals), 50)
BY DEF GroupRow, PassRates, CompletionRates, WallTimes, TokenRates

\* Each set of values is finite, the shares are at most 1000 thousandths and the others
\* are counts.
LEMMA PassRatesAreRates ==
    ASSUME NEW locals, IsFiniteSet(locals), \A l \in locals : IsLocal(l)
    PROVE  IsFiniteSet(PassRates(locals)) /\ \A x \in PassRates(locals) : x[2] \in Nat /\ x[2] <= 1000
<1> DEFINE L == {x \in locals : x.total > 0}
           f == [l \in L |-> <<l.bundle, Thousandths(l.passed, l.total)>>]
<1>1. L \subseteq locals /\ {f[l] : l \in L} = PassRates(locals)
  BY DEF PassRates
<1>2. ASSUME NEW l \in L PROVE Thousandths(l.passed, l.total) \in Nat /\ Thousandths(l.passed, l.total) <= 1000
  <2>1. l.passed \in Nat /\ l.total \in Nat /\ l.total > 0 /\ l.passed <= l.total
    BY DEF IsLocal, CountedRun
  <2> QED
    BY <2>1, Share
<1>3. \A x \in PassRates(locals) : \E l \in L : x = <<l.bundle, Thousandths(l.passed, l.total)>>
  BY DEF PassRates
<1> HIDE DEF L, f
<1>4. IsFiniteSet(L)
  BY <1>1, FS_Subset
<1>5. IsFiniteSet({f[l] : l \in L})
  BY <1>4, ImageFinite
<1>6. \A x \in PassRates(locals) : x[2] \in Nat /\ x[2] <= 1000
  BY <1>2, <1>3
<1> QED
  BY <1>1, <1>5, <1>6

\* Completion rates lie between 0 and 1000 thousandths.
LEMMA CompletionRatesAreRates ==
    ASSUME NEW locals, IsFiniteSet(locals), \A l \in locals : IsLocal(l)
    PROVE  /\ IsFiniteSet(CompletionRates(locals))
           /\ \A x \in CompletionRates(locals) : x[2] \in Nat /\ x[2] <= 1000
<1> DEFINE L == {x \in locals : attempted(x) > 0}
           f == [l \in L |-> <<l.bundle, Thousandths(l.total, attempted(l))>>]
<1>1. L \subseteq locals /\ {f[l] : l \in L} = CompletionRates(locals)
  BY DEF CompletionRates
<1>2. ASSUME NEW l \in L
      PROVE  Thousandths(l.total, attempted(l)) \in Nat /\ Thousandths(l.total, attempted(l)) <= 1000
  <2>1. /\ l.total \in Nat /\ l.incomplete \in Nat /\ l.manual_review \in Nat
        /\ l.infrastructure_errors \in Nat
    BY DEF IsLocal, CountedRun
  <2>2. attempted(l) \in Nat /\ attempted(l) > 0 /\ l.total <= attempted(l)
    BY <2>1 DEF attempted
  <2> QED
    BY <2>1, <2>2, Share
<1>3. \A x \in CompletionRates(locals) : \E l \in L : x = <<l.bundle, Thousandths(l.total, attempted(l))>>
  BY DEF CompletionRates
<1> HIDE DEF L, f
<1>4. IsFiniteSet(L)
  BY <1>1, FS_Subset
<1>5. IsFiniteSet({f[l] : l \in L})
  BY <1>4, ImageFinite
<1>6. \A x \in CompletionRates(locals) : x[2] \in Nat /\ x[2] <= 1000
  BY <1>2, <1>3
<1> QED
  BY <1>1, <1>5, <1>6

\* Wall times and token rates of aggregates are natural numbers.
LEMMA TimesAreCounts ==
    ASSUME NEW locals, IsFiniteSet(locals), \A l \in locals : IsLocal(l)
    PROVE  /\ IsFiniteSet(WallTimes(locals)) /\ \A x \in WallTimes(locals) : x[2] \in Nat
           /\ IsFiniteSet(TokenRates(locals)) /\ \A x \in TokenRates(locals) : x[2] \in Nat
<1> DEFINE L == {x \in locals : x.wall # None}
           M == {x \in locals : x.rate # None}
           f == [l \in L |-> <<l.bundle, l.wall>>]
           g == [l \in M |-> <<l.bundle, l.rate>>]
<1>1. /\ L \subseteq locals /\ {f[l] : l \in L} = WallTimes(locals)
      /\ M \subseteq locals /\ {g[l] : l \in M} = TokenRates(locals)
  BY DEF WallTimes, TokenRates
<1>2. \A x \in WallTimes(locals) : x[2] \in Nat
  BY DEF WallTimes, IsLocal
<1>3. \A x \in TokenRates(locals) : x[2] \in Nat
  BY DEF TokenRates, IsLocal
<1> HIDE DEF L, M, f, g
<1>4. IsFiniteSet(L) /\ IsFiniteSet(M)
  BY <1>1, FS_Subset
<1>5. IsFiniteSet({f[l] : l \in L}) /\ IsFiniteSet({g[l] : l \in M})
  BY <1>4, ImageFinite
<1> QED
  BY <1>1, <1>2, <1>3, <1>5

\* A percentile of five values or more is a number.
LEMMA PercentileIsNumber ==
    ASSUME NEW pairs, NEW p \in Nat, IsFiniteSet(pairs), \A x \in pairs : x[2] \in Nat, p <= 100
    PROVE  /\ percentile(pairs, p) \in Int \cup {None}
           /\ Cardinality(pairs) >= 5 => percentile(pairs, p) \in Int
<1>1. Cardinality(pairs) \in Nat /\ (Cardinality(pairs) = 0 <=> pairs = {})
  BY FS_CardinalityType, FS_EmptySet
<1>2. pairs = {} => percentile(pairs, p) = None
  BY <1>1, Zenon DEF percentile
<1>3. pairs # {} => percentile(pairs, p) \in Int
  <2>1. pairs # {} => percentile(pairs, p) \in {x[2] : x \in pairs}
    BY PercentileIsValue
  <2> QED
    BY <2>1
<1>4. Cardinality(pairs) >= 5 => pairs # {}
  BY <1>1
<1> QED
  BY <1>2, <1>3, <1>4

\* A row built from aggregates of counts has rates, counts and intervals in range.
LEMMA RowIsReal ==
    ASSUME NEW key, NEW locals, IsFiniteSet(locals), \A l \in locals : IsLocal(l)
    PROVE  IsRow(GroupRow(key, locals))
<1> DEFINE row == GroupRow(key, locals)
           A == PassRates(locals)
           C == CompletionRates(locals)
           W == WallTimes(locals)
           T == TokenRates(locals)
<1>1. /\ row.observed = [accuracy |-> Cardinality(A), completion |-> Cardinality(C),
                         latency |-> Cardinality(W), throughput |-> Cardinality(T)]
      /\ row.pass_interval = cluster_interval(A) /\ row.completion_interval = cluster_interval(C)
      /\ row.wall90 = percentile(W, 90) /\ row.speed50 = percentile(T, 50)
  BY RowFields
<1>2. IsFiniteSet(A) /\ \A x \in A : x[2] \in Nat /\ x[2] <= 1000
  BY PassRatesAreRates
<1>3. IsFiniteSet(C) /\ \A x \in C : x[2] \in Nat /\ x[2] <= 1000
  BY CompletionRatesAreRates
<1>4. /\ IsFiniteSet(W) /\ \A x \in W : x[2] \in Nat
      /\ IsFiniteSet(T) /\ \A x \in T : x[2] \in Nat
  BY TimesAreCounts
<1> HIDE DEF row, A, C, W, T
<1>5. /\ Cardinality(A) \in Nat
      /\ Cardinality(A) < 5 => cluster_interval(A) = None
      /\ Cardinality(A) >= 5 => cluster_interval(A) # None /\ cluster_interval(A).low \in Int
  BY <1>2, IntervalIsReal
<1>6. /\ Cardinality(C) \in Nat
      /\ Cardinality(C) < 5 => cluster_interval(C) = None
      /\ Cardinality(C) >= 5 => cluster_interval(C) # None /\ cluster_interval(C).low \in Int
  BY <1>3, IntervalIsReal
<1>7. /\ Cardinality(W) \in Nat
      /\ percentile(W, 90) \in Int \cup {None}
      /\ Cardinality(W) >= 5 => percentile(W, 90) \in Int
  BY <1>4, PercentileIsNumber, FS_CardinalityType
<1>8. /\ Cardinality(T) \in Nat
      /\ percentile(T, 50) \in Int \cup {None}
      /\ Cardinality(T) >= 5 => percentile(T, 50) \in Int
  BY <1>4, PercentileIsNumber, FS_CardinalityType
<1>9. /\ candidate_metrics(row).accuracy = IF row.pass_interval = None THEN None ELSE row.pass_interval.low
      /\ candidate_metrics(row).completion = IF row.completion_interval = None THEN None
                                             ELSE row.completion_interval.low
      /\ candidate_metrics(row).latency = IF row.observed.latency >= 5 THEN row.wall90 ELSE None
      /\ candidate_metrics(row).throughput = IF row.observed.throughput >= 5 THEN row.speed50 ELSE None
  BY DEF candidate_metrics, MIN_BASELINE_SUBMISSIONS
<1> DEFINE m == candidate_metrics(row)
<1> HIDE DEF m
<1>10. None \notin Int
  BY NoneAssumption
<1>11. /\ row.observed.accuracy \in Nat /\ m.accuracy \in Int \cup {None}
       /\ row.observed.accuracy >= 5 => m.accuracy # None
       /\ row.pass_interval # None <=> row.observed.accuracy >= 5
       /\ row.pass_interval # None <=> m.accuracy # None
  BY <1>1, <1>5, <1>9, <1>10 DEF m
<1>12. /\ row.observed.completion \in Nat /\ m.completion \in Int \cup {None}
       /\ row.observed.completion >= 5 => m.completion # None
  BY <1>1, <1>6, <1>9, <1>10 DEF m
<1>13. /\ row.observed.latency \in Nat /\ m.latency \in Int \cup {None}
       /\ row.observed.latency >= 5 => m.latency # None
  BY <1>1, <1>7, <1>9, <1>10 DEF m
<1>14. /\ row.observed.throughput \in Nat /\ m.throughput \in Int \cup {None}
       /\ row.observed.throughput >= 5 => m.throughput # None
  BY <1>1, <1>8, <1>9, <1>10 DEF m
<1>15. IsRow(row)
  BY <1>11, <1>12, <1>13, <1>14 DEF IsRow, RECOMMENDATION_OBJECTIVES, m
<1> QED
  BY <1>15 DEF row

(***************************************************************************)
(* The rows of a finite set of accepted bundles.                           *)
(***************************************************************************)
WellFormed(b) ==
    /\ IsFiniteSet(DOMAIN b.models)
    /\ \A i \in DOMAIN b.models : \A r \in DOMAIN b.models[i].rounds :
         /\ r \in 1..4 /\ b.packs[r] # None
         /\ CountedRun(ModelTotals(b, i, r))
         /\ IsFiniteSet(b.models[i].rounds[r].items)
         /\ \A x \in b.models[i].rounds[r].items : TimedItem(x)

\* Every bundle a contributor can submit is well formed.
LEMMA BundleIsWellFormed ==
    ASSUME NEW x, x[1] \in Kinds
    PROVE  WellFormed(Bundle(x))
<1> DEFINE b == Bundle(x)
           B == Body[x[1]]
<1>1. b.models = B.models /\ b.packs = B.packs /\ b.schema = B.schema
  BY DEF Bundle
<1>2. validate_public_result(B)
  BY BodiesAreValid
<1>3. IsFiniteSet(DOMAIN B.models)
  BY BodiesAreCounted
<1>4. ASSUME NEW i \in DOMAIN B.models, NEW r \in DOMAIN B.models[i].rounds
      PROVE  /\ r \in 1..4 /\ b.packs[r] # None
             /\ CountedRun(ModelTotals(b, i, r))
             /\ IsFiniteSet(B.models[i].rounds[r].items)
             /\ \A y \in B.models[i].rounds[r].items : TimedItem(y)
  <2> DEFINE m == B.models[i].rounds[r]
  <2>1. ValidModel(B, B.models[i])
    BY <1>2 DEF validate_public_result
  <2>2. r \in DOMAIN B.packs /\ r \in 1..4
    BY <1>2, <2>1 DEF ValidModel, validate_public_result
  <2>3. B.packs[r] # None
    BY <2>2, BodiesAreCounted
  <2>4. /\ IsFiniteSet(m.items)
        /\ m.incomplete \in Nat /\ m.manual_review \in Nat /\ m.infrastructure_errors \in Nat
        /\ IF r = 4 THEN m.attempts \in Nat /\ m.release_ready \in 0..m.attempts
           ELSE m.total \in Nat /\ m.passed \in 0..m.total
    BY BodiesAreCounted
  <2>5. ModelTotals(b, i, r) = [ordinal |-> i,
                                passed |-> IF r = 4 THEN m.release_ready ELSE m.passed,
                                total |-> IF r = 4 THEN m.attempts ELSE m.total,
                                incomplete |-> m.incomplete, manual_review |-> m.manual_review,
                                infrastructure_errors |-> m.infrastructure_errors]
    BY <1>1 DEF ModelTotals
  <2>6. m.items = {} \/ ValidRound(r, m)
    BY <2>1 DEF ValidModel
  <2> HIDE DEF m
  <2>7. CountedRun(ModelTotals(b, i, r))
    BY <2>4, <2>5 DEF CountedRun
  <2>8. \A y \in m.items : TimedItem(y)
    BY <2>6 DEF ValidRound, TimedItem
  <2> QED
    BY <1>1, <2>2, <2>3, <2>4, <2>7, <2>8 DEF m
<1>5. WellFormed(b)
  BY <1>1, <1>3, <1>4 DEF WellFormed
<1> QED
  BY <1>5

\* What aggregate_submissions adds up of one bundle.
ModelRuns(b, key) == {ModelTotals(b, i, key[1]) : i \in GroupModels(b, key)}
ModelItems(b, key) ==
    UNION {{[ordinal |-> i, item |-> x.item, attempt |-> x.attempt,
             wall |-> x.wall, tokens |-> x.tokens] : x \in b.models[i].rounds[key[1]].items}
             : i \in GroupModels(b, key)}

\* The runs and items of one model of a well-formed bundle are counted and timed.
LEMMA ModelPartsAreCounted ==
    ASSUME NEW b, NEW key, WellFormed(b)
    PROVE  /\ BundleLocal(b, key) = Local(b.id, ModelRuns(b, key), ModelItems(b, key))
           /\ IsFiniteSet(ModelRuns(b, key)) /\ \A x \in ModelRuns(b, key) : CountedRun(x)
           /\ IsFiniteSet(ModelItems(b, key)) /\ \A x \in ModelItems(b, key) : TimedItem(x)
<1> DEFINE r == key[1]
           I == GroupModels(b, key)
           f == [i \in I |-> ModelTotals(b, i, r)]
           Timed(i) == {[ordinal |-> i, item |-> x.item, attempt |-> x.attempt,
                         wall |-> x.wall, tokens |-> x.tokens]
                           : x \in b.models[i].rounds[r].items}
           h == [i \in I |-> Timed(i)]
           runs == {ModelTotals(b, i, r) : i \in I}
           items == UNION {Timed(i) : i \in I}
<1>1. I \subseteq DOMAIN b.models /\ \A i \in I : r \in DOMAIN b.models[i].rounds
  BY DEF GroupModels
<1>2. IsFiniteSet(I)
  BY <1>1, FS_Subset DEF WellFormed
<1>3. \A i \in I : /\ CountedRun(ModelTotals(b, i, r))
                   /\ IsFiniteSet(b.models[i].rounds[r].items)
                   /\ \A x \in b.models[i].rounds[r].items : TimedItem(x)
  BY <1>1 DEF WellFormed
<1>4. BundleLocal(b, key) = Local(b.id, runs, items)
  BY DEF BundleLocal
<1>5. \A x \in runs : CountedRun(x)
  BY <1>3
<1>6. \A x \in items : TimedItem(x)
  BY <1>3 DEF TimedItem
<1>7. \A i \in I : IsFiniteSet(Timed(i))
  <2> TAKE i \in I
  <2> DEFINE D == b.models[i].rounds[r].items
             g == [x \in D |-> [ordinal |-> i, item |-> x.item, attempt |-> x.attempt,
                                wall |-> x.wall, tokens |-> x.tokens]]
  <2>1. IsFiniteSet(D)
    BY <1>3
  <2>2. {g[x] : x \in D} = Timed(i)
    OBVIOUS
  <2>3. IsFiniteSet({g[x] : x \in D})
    <3> HIDE DEF g, D
    <3> QED
      BY <2>1, ImageFinite
  <2> QED
    BY <2>2, <2>3
<1>8. IsFiniteSet(runs)
  <2>1. {f[i] : i \in I} = runs
    OBVIOUS
  <2>2. IsFiniteSet({f[i] : i \in I})
    <3> HIDE DEF f, I
    <3> QED
      BY <1>2, ImageFinite
  <2> QED
    BY <2>1, <2>2
<1>9. IsFiniteSet(items)
  <2>1. {h[i] : i \in I} = {Timed(i) : i \in I}
    OBVIOUS
  <2>2. IsFiniteSet({h[i] : i \in I})
    <3> HIDE DEF h, I
    <3> QED
      BY <1>2, ImageFinite
  <2> DEFINE U == {Timed(i) : i \in I}
  <2>3. IsFiniteSet(U) /\ \A u \in U : IsFiniteSet(u)
    BY <1>7, <2>1, <2>2
  <2> HIDE DEF U
  <2>4. IsFiniteSet(UNION U)
    BY <2>3, FS_UNION
  <2> QED
    BY <2>4 DEF U
<1>10. runs = ModelRuns(b, key) /\ items = ModelItems(b, key)
  BY DEF ModelRuns, ModelItems
<1> HIDE DEF runs, items
<1> QED
  BY <1>4, <1>5, <1>6, <1>8, <1>9, <1>10

\* A bundle adds counts to a group.
LEMMA BundleLocalIsCounted ==
    ASSUME NEW b, NEW key, WellFormed(b)
    PROVE  IsLocal(BundleLocal(b, key))
BY ModelPartsAreCounted, LocalIsCounted

\* The groups are finitely many, and each is a round, a pack and a configuration.
LEMMA KeysAreFinite ==
    ASSUME NEW S, IsFiniteSet(S), \A b \in S : WellFormed(b)
    PROVE  /\ IsFiniteSet(GroupKeys(S))
           /\ \A key \in GroupKeys(S) :
                key = <<key[1], key[2], key[3]>> /\ key[1] \in 1..4 /\ key[2] # None
<1> DEFINE Keys(b) == {<<x[2], b.packs[x[2]], ConfigurationOf(b, x[1])>> : x \in RunsOf(b)}
           h == [b \in S |-> Keys(b)]
<1>1. \A b \in S : IsFiniteSet(Keys(b))
  <2> TAKE b \in S
  <2> DEFINE R == RunsOf(b)
             g == [x \in R |-> <<x[2], b.packs[x[2]], ConfigurationOf(b, x[1])>>]
  <2>1. IsFiniteSet(DOMAIN b.models) /\ IsFiniteSet(1..4)
    <3>1. IsFiniteSet(DOMAIN b.models)
      BY DEF WellFormed
    <3>2. IsFiniteSet(1..4)
      <4>1. 1 \in Int /\ 4 \in Int
        OBVIOUS
      <4> QED
        BY <4>1, FS_Interval, Zenon
    <3> QED
      BY <3>1, <3>2
  <2>2. IsFiniteSet((DOMAIN b.models) \X (1..4))
    BY <2>1, FS_Product
  <2>3. R \subseteq (DOMAIN b.models) \X (1..4)
    BY DEF RunsOf
  <2>4. IsFiniteSet(R)
    BY <2>2, <2>3, FS_Subset
  <2>5. {g[x] : x \in R} = Keys(b)
    OBVIOUS
  <2>6. IsFiniteSet({g[x] : x \in R})
    <3> HIDE DEF g, R
    <3> QED
      BY <2>4, ImageFinite
  <2> QED
    BY <2>5, <2>6
<1>2. GroupKeys(S) = UNION {Keys(b) : b \in S}
  BY DEF GroupKeys
<1>3. IsFiniteSet(GroupKeys(S))
  <2>1. {h[b] : b \in S} = {Keys(b) : b \in S}
    OBVIOUS
  <2>2. IsFiniteSet({h[b] : b \in S})
    <3> HIDE DEF h
    <3> QED
      BY ImageFinite
  <2> DEFINE U == {Keys(b) : b \in S}
  <2>3. IsFiniteSet(U) /\ \A u \in U : IsFiniteSet(u)
    BY <1>1, <2>1, <2>2
  <2> HIDE DEF U
  <2>4. IsFiniteSet(UNION U)
    BY <2>3, FS_UNION
  <2> QED
    BY <1>2, <2>4 DEF U
<1>4. ASSUME NEW b \in S, NEW x \in RunsOf(b)
      PROVE  x[2] \in 1..4 /\ b.packs[x[2]] # None
  BY DEF RunsOf, WellFormed
<1>5. ASSUME NEW key \in GroupKeys(S)
      PROVE  key = <<key[1], key[2], key[3]>> /\ key[1] \in 1..4 /\ key[2] # None
  <2>1. PICK b \in S : \E x \in RunsOf(b) : key = <<x[2], b.packs[x[2]], ConfigurationOf(b, x[1])>>
    BY DEF GroupKeys
  <2>2. PICK x \in RunsOf(b) : key = <<x[2], b.packs[x[2]], ConfigurationOf(b, x[1])>>
    BY <2>1
  <2> QED
    BY <1>4, <2>2
<1> QED
  BY <1>3, <1>5

\* The bundles of a group, as locals.
LocalsOf(S, key) == {BundleLocal(b, key) : b \in {x \in S : GroupModels(x, key) # {}}}

\* The aggregates of a set of well-formed bundles consist of counts.
LEMMA LocalsAreCounted ==
    ASSUME NEW S, NEW key, IsFiniteSet(S), \A b \in S : WellFormed(b)
    PROVE  IsFiniteSet(LocalsOf(S, key)) /\ \A l \in LocalsOf(S, key) : IsLocal(l)
<1> DEFINE D == {x \in S : GroupModels(x, key) # {}}
           f == [b \in D |-> BundleLocal(b, key)]
<1>1. D \subseteq S /\ {f[b] : b \in D} = LocalsOf(S, key)
  BY DEF LocalsOf
<1>2. \A b \in D : IsLocal(BundleLocal(b, key))
  BY BundleLocalIsCounted
<1>3. \A l \in LocalsOf(S, key) : IsLocal(l)
  BY <1>2 DEF LocalsOf
<1> HIDE DEF f, D
<1>4. IsFiniteSet({f[b] : b \in D})
  BY <1>1, FS_Subset, ImageFinite
<1> QED
  BY <1>1, <1>3, <1>4

\* The rows are finitely many, one for each group, and each is real.
LEMMA RowsAreReal ==
    ASSUME NEW S, IsFiniteSet(S), \A b \in S : WellFormed(b)
    PROVE  /\ IsFiniteSet(aggregate_submissions(S))
           /\ \A x \in aggregate_submissions(S) :
                IsRow(x) /\ x.round \in 1..4 /\ x.pack # None
           /\ \A x, y \in aggregate_submissions(S) :
                x.round = y.round /\ x.pack = y.pack /\ x.configuration = y.configuration => x = y
<1> DEFINE K == GroupKeys(S)
           R(key) == GroupRow(key, LocalsOf(S, key))
           f == [key \in K |-> R(key)]
<1>1. aggregate_submissions(S) = {R(key) : key \in K}
  BY DEF aggregate_submissions, LocalsOf
<1>2. IsFiniteSet(K) /\ \A key \in K : key = <<key[1], key[2], key[3]>> /\ key[1] \in 1..4 /\ key[2] # None
  BY KeysAreFinite
<1>3. \A key \in K : IsRow(R(key))
  <2> TAKE key \in K
  <2>1. IsFiniteSet(LocalsOf(S, key)) /\ \A l \in LocalsOf(S, key) : IsLocal(l)
    BY LocalsAreCounted
  <2> QED
    BY <2>1, RowIsReal
<1>4. \A key \in K : R(key).round = key[1] /\ R(key).pack = key[2] /\ R(key).configuration = key[3]
  BY RowFields, ZenonT(60)
<1> HIDE DEF K, R
<1>5. IsFiniteSet({f[key] : key \in K})
  <2> HIDE DEF f
  <2> QED
    BY <1>2, ImageFinite
<1>6. {f[key] : key \in K} = aggregate_submissions(S)
  BY <1>1
<1>7. ASSUME NEW x \in aggregate_submissions(S), NEW y \in aggregate_submissions(S),
             x.round = y.round, x.pack = y.pack, x.configuration = y.configuration
      PROVE  x = y
  <2>1. PICK k \in K : x = R(k)
    BY <1>1
  <2>2. PICK l \in K : y = R(l)
    BY <1>1
  <2>3. k[1] = l[1] /\ k[2] = l[2] /\ k[3] = l[3]
    BY <1>4, <1>7, <2>1, <2>2
  <2>4. k = l
    BY <1>2, <2>3
  <2> QED
    BY <2>1, <2>2, <2>4
<1>8. \A x \in aggregate_submissions(S) : IsRow(x) /\ x.round \in 1..4 /\ x.pack # None
  BY <1>1, <1>2, <1>3, <1>4
<1> QED
  BY <1>5, <1>6, <1>7, <1>8

(***************************************************************************)
(* The inductive invariant: the rows every query starts from are those of  *)
(* the directory, which holds finitely many valid bundles.                 *)
(***************************************************************************)
DirectoryIsFinite == IsFiniteSet(directory) /\ directory \subseteq Kinds \X Nat
RowsAreCurrent == rows = aggregate_submissions(Submissions)

RowsInv == DirectoryIsFinite /\ RowsAreCurrent

\* There are no rows before the first bundle.
LEMMA RowsInvInit == Init => RowsInv
<1> SUFFICES ASSUME Init PROVE RowsInv
  OBVIOUS
<1>1. directory = {} /\ rows = {}
  BY DEF Init
<1>2. DirectoryIsFinite
  BY <1>1, FS_EmptySet DEF DirectoryIsFinite
<1>3. Submissions = {}
  BY <1>1 DEF Submissions, Bundles
<1>4. GroupKeys({}) = {}
  BY DEF GroupKeys
<1>5. aggregate_submissions({}) = {}
  BY <1>4 DEF aggregate_submissions
<1> QED
  BY <1>1, <1>2, <1>3, <1>5 DEF RowsInv, RowsAreCurrent

\* Accepting a bundle keeps the rows those of the accepted bundles.
LEMMA RowsInvAccept ==
    ASSUME RowsInv, NEW k \in Kinds, Accept(k)
    PROVE  RowsInv'
<1> DEFINE D == {x \in directory : x[1] = k}
           n == Cardinality(D)
<1>1. IsFiniteSet(directory) /\ directory \subseteq Kinds \X Nat
  BY DEF RowsInv, DirectoryIsFinite
<1>2. n \in Nat
  <2>1. D \subseteq directory
    OBVIOUS
  <2> HIDE DEF D
  <2> QED
    BY <1>1, <2>1, FS_Subset, FS_CardinalityType
<1>3. /\ directory' = directory \cup {<<k, n + 1>>}
      /\ rows' = aggregate_submissions(Bundles(directory'))
  BY DEF Accept
<1> HIDE DEF n
<1>4. IsFiniteSet(directory')
  BY <1>1, <1>3, FS_AddElement
<1>5. directory' \subseteq Kinds \X Nat
  BY <1>1, <1>2, <1>3
<1> QED
  BY <1>3, <1>4, <1>5 DEF RowsInv, DirectoryIsFinite, RowsAreCurrent, Submissions

\* Every step keeps the rows those of the accepted bundles.
LEMMA RowsInvNext == RowsInv /\ [Next]_vars => RowsInv'
<1> SUFFICES ASSUME RowsInv, [Next]_vars PROVE RowsInv'
  OBVIOUS
<1>1. CASE \E k \in Kinds : Accept(k)
  BY <1>1, RowsInvAccept
<1>2. CASE UNCHANGED <<directory, rows>>
  BY <1>2 DEF RowsInv, DirectoryIsFinite, RowsAreCurrent, Submissions, Bundles
<1>3. (\E k \in Kinds : Accept(k)) \/ UNCHANGED <<directory, rows>>
  BY DEF Next, vars, RenderIndex, OpenIndex, WriteIndex, NormalizeSubmissions, FillTemporary,
         ValidateTemporary, ReplaceOutput, Abort
<1> QED
  BY <1>1, <1>2, <1>3

\* The rows are always those of the accepted bundles.
LEMMA RowsInvAlways == Spec => []RowsInv
BY RowsInvInit, RowsInvNext, PTL DEF Spec

\* The bundles of the directory are well formed.
LEMMA SubmissionsAreWellFormed ==
    ASSUME NEW ids, IsFiniteSet(ids), ids \subseteq Kinds \X Nat
    PROVE  IsFiniteSet(Bundles(ids)) /\ \A b \in Bundles(ids) : WellFormed(b)
<1> DEFINE f == [x \in ids |-> Bundle(x)]
<1>1. {f[x] : x \in ids} = Bundles(ids)
  BY DEF Bundles
<1>2. IsFiniteSet({f[x] : x \in ids})
  <2> HIDE DEF f
  <2> QED
    BY ImageFinite
<1>3. \A x \in ids : WellFormed(Bundle(x))
  <2>1. \A x \in ids : x[1] \in Kinds
    OBVIOUS
  <2> QED
    BY <2>1, BundleIsWellFormed
<1>4. \A b \in Bundles(ids) : WellFormed(b)
  BY <1>3 DEF Bundles
<1> QED
  BY <1>1, <1>2, <1>4

\* The rows are finitely many, in range, and one for each group.
LEMMA RowsFacts ==
    ASSUME RowsInv
    PROVE  /\ IsFiniteSet(rows)
           /\ \A x \in rows : IsRow(x) /\ x.round \in 1..4 /\ x.pack # None
           /\ \A x, y \in rows :
                x.round = y.round /\ x.pack = y.pack /\ x.configuration = y.configuration => x = y
<1>1. IsFiniteSet(Submissions) /\ \A b \in Submissions : WellFormed(b)
  BY SubmissionsAreWellFormed DEF RowsInv, DirectoryIsFinite, Submissions
<1>2. rows = aggregate_submissions(Submissions)
  BY DEF RowsInv, RowsAreCurrent
<1> QED
  BY <1>1, <1>2, RowsAreReal

(***************************************************************************)
(* The shortlist.                                                          *)
(***************************************************************************)
LEMMA DominanceIsTransitive ==
    ASSUME NEW x, NEW y, NEW z, NEW objectives,
           \A o \in objectives : /\ candidate_metrics(x)[o] \in Int /\ candidate_metrics(y)[o] \in Int
                                 /\ candidate_metrics(z)[o] \in Int,
           dominates(x, y, objectives), dominates(y, z, objectives)
    PROVE  dominates(x, z, objectives)
<1> DEFINE l == candidate_metrics(x)
           m == candidate_metrics(y)
           r == candidate_metrics(z)
<1>1. /\ \A o \in objectives : l[o] # None /\ m[o] # None /\ AtLeast(o, l[o], m[o])
      /\ \E o \in objectives : l[o] # m[o]
      /\ \A o \in objectives : m[o] # None /\ r[o] # None /\ AtLeast(o, m[o], r[o])
  BY DEF dominates
<1>2. \A o \in objectives : l[o] \in Int /\ m[o] \in Int /\ r[o] \in Int
  OBVIOUS
<1> HIDE DEF l, m, r
<1>3. \A o \in objectives : l[o] # None /\ r[o] # None /\ AtLeast(o, l[o], r[o])
  BY <1>1, <1>2 DEF AtLeast
<1>4. \E o \in objectives : l[o] # r[o]
  <2>1. PICK o \in objectives : l[o] # m[o]
    BY <1>1
  <2>2. l[o] # r[o]
    BY <1>1, <1>2, <2>1 DEF AtLeast
  <2> QED
    BY <2>2
<1>5. dominates(x, z, objectives)
  BY <1>3, <1>4 DEF dominates, l, r
<1> QED
  BY <1>5

\* Among the rows that dominate x, one that fewest rows dominate is dominated by none.
LEMMA Undominated ==
    ASSUME NEW E, NEW objectives, IsFiniteSet(E),
           \A x \in E : \A o \in objectives : candidate_metrics(x)[o] \in Int,
           NEW x \in E, NEW y \in E, dominates(y, x, objectives)
    PROVE  \E z \in E : dominates(z, x, objectives) /\ \A u \in E : ~dominates(u, z, objectives)
<1> DEFINE Up(z) == {u \in E : dominates(u, z, objectives)}
           B == {n \in Nat : \E z \in Up(x) : Cardinality(Up(z)) = n}
<1>1. \A z : IsFiniteSet(Up(z)) /\ Cardinality(Up(z)) \in Nat
  <2> TAKE z
  <2>1. Up(z) \subseteq E
    OBVIOUS
  <2> HIDE DEF Up
  <2> QED
    BY <2>1, FS_Subset, FS_CardinalityType
<1>2. B \subseteq Nat /\ B # {}
  <2>1. y \in Up(x)
    OBVIOUS
  <2> HIDE DEF Up
  <2> QED
    BY <1>1, <2>1
<1>3. PICK n \in B : \A m \in B : n <= m
  <2> HIDE DEF B
  <2> QED
    BY <1>2, LeastNumber
<1>4. PICK z \in Up(x) : Cardinality(Up(z)) = n
  BY <1>3
<1>5. ASSUME NEW u \in E, dominates(u, z, objectives)
      PROVE  FALSE
  <2>1. z \in E /\ dominates(z, x, objectives) /\ u \in Up(z)
    BY <1>5
  <2>2. dominates(u, x, objectives)
    BY <1>5, <2>1, DominanceIsTransitive
  <2>3. u \in Up(x)
    BY <2>2
  <2>4. Up(u) \subseteq Up(z)
    <3> SUFFICES ASSUME NEW v \in E, dominates(v, u, objectives) PROVE dominates(v, z, objectives)
      OBVIOUS
    <3> QED
      BY <1>5, <2>1, DominanceIsTransitive
  <2>5. u \notin Up(u)
    BY DEF dominates
  <2> HIDE DEF Up
  <2>6. Cardinality(Up(u)) <= Cardinality(Up(z)) /\ Cardinality(Up(u)) # Cardinality(Up(z))
    BY <1>1, <2>1, <2>4, <2>5, FS_Subset
  <2>7. Cardinality(Up(u)) \in B
    BY <1>1, <2>3
  <2>8. n <= Cardinality(Up(u))
    <3> HIDE DEF B
    <3> QED
      BY <1>3, <2>7
  <2>9. Cardinality(Up(u)) \in Nat /\ Cardinality(Up(z)) \in Nat
    BY <1>1
  <2> QED
    BY <1>4, <2>6, <2>8, <2>9
<1>6. z \in E /\ dominates(z, x, objectives)
  OBVIOUS
<1> QED
  BY <1>5, <1>6

\* What recommend answers from is a part of what it matched.
LEMMA AnswerOf ==
    ASSUME NEW table, NEW q
    PROVE  /\ recommend(table, q).eligible \subseteq Eligible(table, q)
           /\ recommend(table, q).candidates =
                {x \in recommend(table, q).eligible :
                   \A y \in recommend(table, q).eligible \ {x} : ~dominates(y, x, q.objectives)}
           /\ \/ recommend(table, q).status \in {"PACK_REQUIRED", "INSUFFICIENT_EVIDENCE"}
                 /\ recommend(table, q).eligible = {} /\ recommend(table, q).matched = {}
              \/ recommend(table, q).eligible = Eligible(table, q)
                 /\ recommend(table, q).matched = Matched(table, q)
<1> DEFINE E == Eligible(table, q)
           M == Matched(table, q)
<1>1. CASE q.pack = None /\ Cardinality(PacksOf(table, q.round)) > 1
  BY <1>1, Zenon DEF recommend
<1>2. CASE /\ ~(q.pack = None /\ Cardinality(PacksOf(table, q.round)) > 1)
           /\ SelectedPack(PacksOf(table, q.round), q.pack) \notin PacksOf(table, q.round)
  BY <1>2, Zenon DEF recommend
<1>3. CASE /\ ~(q.pack = None /\ Cardinality(PacksOf(table, q.round)) > 1)
           /\ SelectedPack(PacksOf(table, q.round), q.pack) \in PacksOf(table, q.round)
  <2> DEFINE C == {x \in E : \A y \in E \ {x} : ~dominates(y, x, q.objectives)}
  <2>1. /\ recommend(table, q).eligible = E /\ recommend(table, q).matched = M
        /\ recommend(table, q).candidates = C
    BY <1>3 DEF recommend
  <2> QED
    BY <2>1
<1> QED
  BY <1>1, <1>2, <1>3

\* A shortlist over such rows covers every eligible configuration.
LEMMA ShortlistStep == RowsInv => ShortlistCovers
<1> SUFFICES ASSUME RowsInv, NEW q \in Queries,
                    NEW x \in recommend(rows, q).eligible \ recommend(rows, q).candidates
             PROVE  \E y \in recommend(rows, q).candidates : dominates(y, x, q.objectives)
  BY DEF ShortlistCovers
<1> DEFINE E == recommend(rows, q).eligible
           C == recommend(rows, q).candidates
<1>1. E \subseteq Eligible(rows, q) /\ C = {u \in E : \A v \in E \ {u} : ~dominates(v, u, q.objectives)}
  BY AnswerOf
<1>2. E \subseteq rows /\ \A u \in E : \A o \in q.objectives : candidate_metrics(u)[o] # None
  BY <1>1 DEF Eligible, Matched
<1>3. IsFiniteSet(E)
  BY <1>2, RowsFacts, FS_Subset
<1>4. q.objectives \subseteq RECOMMENDATION_OBJECTIVES
  BY QueriesAreValid DEF ValidQuery
<1>5. \A u \in E : \A o \in q.objectives : candidate_metrics(u)[o] \in Int
  BY <1>2, <1>4, RowsFacts DEF IsRow
<1>6. x \in E /\ x \notin C
  OBVIOUS
<1> HIDE DEF E, C
<1>7. PICK y \in E : dominates(y, x, q.objectives)
  BY <1>1, <1>6
<1>8. PICK z \in E : dominates(z, x, q.objectives) /\ \A u \in E : ~dominates(u, z, q.objectives)
  BY <1>3, <1>5, <1>6, <1>7, Undominated
<1>9. z \in C
  BY <1>1, <1>8
<1> QED
  BY <1>8, <1>9 DEF C

\* _recommend_aggregate_rows: whatever is left out as dominated is dominated by a member
\* of the shortlist, for every set of accepted bundles.
THEOREM ShortlistAlwaysCovers == Spec => []ShortlistCovers
BY RowsInvAlways, ShortlistStep, PTL

(***************************************************************************)
(* Readiness: the plan, the recommender and the catalog.                   *)
(***************************************************************************)
\* A query as the recommender gets it for objectives without a floor.
FreeQuery(q, objectives) ==
    [round |-> q.round, pack |-> q.pack, objectives |-> objectives,
     max_memory |-> q.max_memory, floor |-> None]

\* What a plan counts.
LEMMA AdditionalIsGreatest ==
    ASSUME NEW row, NEW objectives, IsRow(row), objectives \subseteq RECOMMENDATION_OBJECTIVES
    PROVE  LET S == {0, 5 - row.observed.accuracy} \cup {Target - row.observed[o] : o \in objectives}
           IN /\ Additional(row, objectives, Target) = Max(S)
              /\ S \subseteq Int
              /\ Max(S) \in S /\ \A x \in S : x <= Max(S)
<1> DEFINE f == [o \in objectives |-> Target - row.observed[o]]
           T == {Target - row.observed[o] : o \in objectives}
           S == {0, 5 - row.observed.accuracy} \cup T
<1>1. Target \in Int
  BY QueriesAreValid DEF MIN_BASELINE_SUBMISSIONS
<1>2. \A o \in RECOMMENDATION_OBJECTIVES : row.observed[o] \in Nat
  BY DEF IsRow
<1>3. row.observed.accuracy \in Nat
  BY <1>2 DEF RECOMMENDATION_OBJECTIVES
<1>4. T \subseteq Int
  BY <1>1, <1>2
<1>5. S \subseteq Int /\ S # {}
  BY <1>3, <1>4
<1>6. IsFiniteSet(objectives)
  <2>1. IsFiniteSet({"accuracy", "completion", "latency", "throughput"})
    <3> DEFINE A == {"accuracy"} \cup {"completion"}
               B == {"latency"} \cup {"throughput"}
    <3>1. {"accuracy", "completion", "latency", "throughput"} = A \cup B
      OBVIOUS
    <3>2. \A s : IsFiniteSet({s})
      BY FS_Singleton
    <3>3. IsFiniteSet(A)
      BY <3>2, FS_AddElement
    <3>4. IsFiniteSet(B)
      BY <3>2, FS_AddElement
    <3> HIDE DEF A, B
    <3>5. IsFiniteSet(A \cup B)
      BY <3>3, <3>4, FS_Union
    <3> QED
      BY <3>1, <3>5
  <2> QED
    BY <2>1, FS_Subset DEF RECOMMENDATION_OBJECTIVES
<1>7. IsFiniteSet(T)
  <2>1. {f[o] : o \in objectives} = T
    OBVIOUS
  <2>2. IsFiniteSet({f[o] : o \in objectives})
    <3> HIDE DEF f
    <3> QED
      BY <1>6, ImageFinite
  <2> QED
    BY <2>1, <2>2
<1>8. IsFiniteSet(S)
  <2> DEFINE c == 5 - row.observed.accuracy
  <2>1. IsFiniteSet({0})
    BY FS_Singleton
  <2>2. IsFiniteSet({0} \cup {c})
    <3> HIDE DEF c
    <3> QED
      BY <2>1, FS_AddElement
  <2>3. IsFiniteSet(({0} \cup {c}) \cup T)
    <3> HIDE DEF c, T
    <3> QED
      BY <1>7, <2>2, FS_Union
  <2>4. ({0} \cup {c}) \cup T = S
    OBVIOUS
  <2> QED
    BY <2>3, <2>4
<1>9. Max(S) \in S /\ \A x \in S : x <= Max(S)
  <2> HIDE DEF S
  <2> QED
    BY <1>5, <1>8, Greatest
<1>10. Additional(row, objectives, Target) = Max(S)
  BY DEF Additional, MIN_BASELINE_SUBMISSIONS
<1> QED
  BY <1>5, <1>9, <1>10

\* A configuration that such rows make ready is eligible.
LEMMA ReadyStep == RowsInv => ReadyIsEligible
<1> SUFFICES ASSUME RowsInv, NEW q \in Queries
             PROVE  /\ build_collection_plan(rows, q, Target).status = "TARGET_MET" =>
                         recommend(rows, FreeQuery(q, q.objectives)).eligible
                           = recommend(rows, FreeQuery(q, q.objectives)).matched
                    /\ \A x \in Matched(rows, q) : \A o \in RECOMMENDATION_OBJECTIVES :
                         \A entry \in build_catalog(rows, q.round, x.pack).configurations[x.configuration] :
                           entry.readiness[o] <=> x \in Eligible(rows, FreeQuery(q, {o}))
  BY DEF ReadyIsEligible, FreeQuery
<1>1. /\ q.objectives # {} /\ q.objectives \subseteq RECOMMENDATION_OBJECTIVES
      /\ q.round \in 1..4
  BY QueriesAreValid DEF ValidQuery
<1>2. Target \in Int /\ Target >= 5
  BY QueriesAreValid DEF MIN_BASELINE_SUBMISSIONS
<1>3. \A objectives : /\ Matched(rows, FreeQuery(q, objectives)) = Matched(rows, q)
                      /\ Eligible(rows, FreeQuery(q, objectives)) =
                           {x \in Matched(rows, q) :
                              /\ x.pass_interval # None
                              /\ \A o \in objectives : candidate_metrics(x)[o] # None}
  BY DEF FreeQuery, Matched, Eligible
<1>4. \A x \in Matched(rows, q) : x \in rows /\ IsRow(x) /\ x.round = q.round /\ x.pack # None
  BY RowsFacts DEF Matched
<1>5. ASSUME build_collection_plan(rows, q, Target).status = "TARGET_MET"
      PROVE  recommend(rows, FreeQuery(q, q.objectives)).eligible
               = recommend(rows, FreeQuery(q, q.objectives)).matched
  <2> DEFINE need == {<<x.configuration, Additional(x, q.objectives, Target)>> : x \in Matched(rows, q)}
             free == FreeQuery(q, q.objectives)
  <2>1. \A x \in need : x[2] = 0
    <3> DEFINE A == recommend(rows, q).status = "PACK_REQUIRED"
               B == SelectedPack(PacksOf(rows, q.round), q.pack) \notin PacksOf(rows, q.round)
               Z == \A x \in need : x[2] = 0
    <3> HIDE DEF need
    <3>1. build_collection_plan(rows, q, Target).status =
            IF A THEN "PACK_REQUIRED" ELSE IF B THEN "NO_OBSERVATIONS"
            ELSE IF need = {} THEN "NO_MATCH" ELSE IF Z THEN "TARGET_MET" ELSE "COLLECTION_NEEDED"
      BY DEF build_collection_plan, need
    <3> HIDE DEF A, B, Z
    <3>2. Z
      BY <1>5, <3>1
    <3> QED
      BY <3>2 DEF Z
  <2>2. ASSUME NEW x \in Matched(rows, q)
        PROVE  x \in Eligible(rows, free)
    <3>1. Additional(x, q.objectives, Target) = 0
      <4>1. <<x.configuration, Additional(x, q.objectives, Target)>> \in need
        OBVIOUS
      <4> QED
        BY <2>1, <4>1
    <3>2. \A o \in RECOMMENDATION_OBJECTIVES : x.observed[o] \in Nat
      BY <1>4, <2>2 DEF IsRow
    <3> DEFINE S == {0, 5 - x.observed.accuracy} \cup {Target - x.observed[o] : o \in q.objectives}
    <3>3. \A y \in S : y <= 0
      <4>1. /\ Additional(x, q.objectives, Target) = Max(S)
            /\ \A y \in S : y <= Max(S)
        BY <1>1, <1>4, <2>2, AdditionalIsGreatest
      <4> HIDE DEF S
      <4> QED
        BY <3>1, <4>1
    <3>4. x.observed.accuracy >= 5
      <4>1. x.observed.accuracy \in Nat
        BY <3>2 DEF RECOMMENDATION_OBJECTIVES
      <4>2. 5 - x.observed.accuracy <= 0
        BY <3>3
      <4> QED
        BY <4>1, <4>2
    <3>5. \A o \in q.objectives : x.observed[o] >= 5
      <4> TAKE o \in q.objectives
      <4>1. x.observed[o] \in Nat
        BY <1>1, <3>2
      <4>2. Target - x.observed[o] <= 0
        BY <3>3
      <4> QED
        BY <1>2, <4>1, <4>2
    <3>6. x.pass_interval # None
      BY <1>4, <2>2, <3>4 DEF IsRow
    <3>7. \A o \in q.objectives : candidate_metrics(x)[o] # None
      BY <1>1, <1>4, <2>2, <3>5 DEF IsRow
    <3> QED
      BY <1>3, <2>2, <3>6, <3>7
  <2>3. Eligible(rows, free) = Matched(rows, free)
    <3>1. Matched(rows, free) = Matched(rows, q)
      BY <1>3
    <3>2. Eligible(rows, free) \subseteq Matched(rows, free)
      BY DEF Eligible
    <3> HIDE DEF free
    <3> QED
      BY <2>2, <3>1, <3>2
  <2> QED
    BY <2>3, AnswerOf
<1>6. ASSUME NEW x \in Matched(rows, q), NEW o \in RECOMMENDATION_OBJECTIVES,
             NEW entry \in build_catalog(rows, q.round, x.pack).configurations[x.configuration]
      PROVE  entry.readiness[o] <=> x \in Eligible(rows, FreeQuery(q, {o}))
  <2> DEFINE selected == {y \in rows : (q.round = None \/ y.round = q.round)
                                       /\ (x.pack = None \/ y.pack = x.pack)}
             Observation(y) == [round |-> y.round, pack |-> y.pack,
                                independent_bundles |-> y.observed.accuracy,
                                readiness |-> readiness(y)]
             C == [c \in {y.configuration : y \in selected} |->
                     {Observation(y) : y \in {z \in selected : z.configuration = c}}]
  <2>1. build_catalog(rows, q.round, x.pack).configurations = C
    BY DEF build_catalog
  <2>2. q.round # None /\ x.pack # None /\ x \in rows /\ x.round = q.round
    BY <1>1, <1>4, NoneAssumption
  <2>3. x \in selected
    BY <2>2
  <2>4. C[x.configuration] = {Observation(y) : y \in {z \in selected : z.configuration = x.configuration}}
    BY <2>3
  <2>5. PICK y \in selected : y.configuration = x.configuration /\ entry = Observation(y)
    BY <2>1, <2>4
  <2>6. y \in rows /\ y.round = x.round /\ y.pack = x.pack
    BY <2>2
  <2>7. y = x
    BY <2>2, <2>5, <2>6, RowsFacts
  <2>8. entry.readiness = readiness(x)
    BY <2>5, <2>7
  <2>9. entry.readiness[o] <=> candidate_metrics(x).accuracy # None /\ candidate_metrics(x)[o] # None
    BY <2>8 DEF readiness
  <2>10. x.pass_interval # None <=> candidate_metrics(x).accuracy # None
    BY <1>4 DEF IsRow
  <2> QED
    BY <1>3, <2>9, <2>10
<1> QED
  BY <1>5, <1>6

\* What the plan calls met the recommender accepts, and the catalog calls ready exactly
\* what the recommender accepts, for every set of accepted bundles.
THEOREM ReadinessIsOne == Spec => []ReadyIsEligible
BY RowsInvAlways, ReadyStep, PTL

(***************************************************************************)
(* The collection plan: what one more bundle changes.                      *)
(***************************************************************************)
LEMMA RowOfKey ==
    ASSUME NEW S, IsFiniteSet(S), \A b \in S : WellFormed(b), NEW x \in aggregate_submissions(S)
    PROVE  /\ <<x.round, x.pack, x.configuration>> \in GroupKeys(S)
           /\ x = GroupRow(<<x.round, x.pack, x.configuration>>,
                           LocalsOf(S, <<x.round, x.pack, x.configuration>>))
<1>1. PICK key \in GroupKeys(S) : x = GroupRow(key, LocalsOf(S, key))
  BY DEF aggregate_submissions, LocalsOf
<1>2. x.round = key[1] /\ x.pack = key[2] /\ x.configuration = key[3]
  BY <1>1, RowFields, ZenonT(60)
<1>3. key = <<key[1], key[2], key[3]>>
  BY KeysAreFinite
<1>4. key = <<x.round, x.pack, x.configuration>>
  BY <1>2, <1>3
<1> QED
  BY <1>1, <1>4

\* A selection that is possible before and after more rows arrive selects the same pack.
LEMMA SamePack ==
    ASSUME NEW P, NEW R, NEW pack, IsFiniteSet(P), IsFiniteSet(R), P \subseteq R,
           SelectedPack(P, pack) # None, SelectedPack(R, pack) # None
    PROVE  SelectedPack(P, pack) = SelectedPack(R, pack)
<1>1. CASE pack # None
  BY <1>1 DEF SelectedPack
<1>2. CASE pack = None
  <2>1. Cardinality(P) = 1 /\ Cardinality(R) = 1
    BY <1>2 DEF SelectedPack
  <2>2. (\E x : P = {x}) /\ (\E x : R = {x})
    BY <2>1, FS_Singleton
  <2>3. P = R
    BY <2>2
  <2> QED
    BY <2>3
<1> QED
  BY <1>1, <1>2

Grows(before, after) ==
    before \in Nat /\ after \in Nat /\ (after = before \/ after = before + 1)

\* A set that gains one element at most counts one more at most.
LEMMA OneMore ==
    ASSUME NEW A, NEW B, NEW e, IsFiniteSet(A), A \subseteq B, B \subseteq A \cup {e}
    PROVE  Grows(Cardinality(A), Cardinality(B))
<1>1. Cardinality(A) \in Nat
  BY FS_CardinalityType
<1>2. B = A \/ (B = A \cup {e} /\ e \notin A)
  OBVIOUS
<1>3. e \notin A => Cardinality(A \cup {e}) = Cardinality(A) + 1
  BY FS_AddElement
<1> QED
  BY <1>1, <1>2, <1>3 DEF Grows

\* One more bundle in a group raises each of its counts by one at most.
LEMMA CountsGrow ==
    ASSUME NEW key, NEW L, NEW M, NEW o \in RECOMMENDATION_OBJECTIVES,
           IsFiniteSet(L), \A x \in L : IsLocal(x), L \subseteq M, \E l : M \subseteq L \cup {l}
    PROVE  Grows(GroupRow(key, L).observed[o], GroupRow(key, M).observed[o])
<1>0. PICK l : M \subseteq L \cup {l}
  OBVIOUS
<1>1. /\ PassRates(L) \subseteq PassRates(M)
      /\ PassRates(M) \subseteq PassRates(L) \cup {<<l.bundle, Thousandths(l.passed, l.total)>>}
  BY <1>0 DEF PassRates
<1>2. /\ CompletionRates(L) \subseteq CompletionRates(M)
      /\ CompletionRates(M) \subseteq CompletionRates(L)
                                       \cup {<<l.bundle, Thousandths(l.total, attempted(l))>>}
  BY <1>0 DEF CompletionRates
<1>3. /\ WallTimes(L) \subseteq WallTimes(M)
      /\ WallTimes(M) \subseteq WallTimes(L) \cup {<<l.bundle, l.wall>>}
  BY <1>0 DEF WallTimes
<1>4. /\ TokenRates(L) \subseteq TokenRates(M)
      /\ TokenRates(M) \subseteq TokenRates(L) \cup {<<l.bundle, l.rate>>}
  BY <1>0 DEF TokenRates
<1>5. /\ IsFiniteSet(PassRates(L)) /\ IsFiniteSet(CompletionRates(L))
      /\ IsFiniteSet(WallTimes(L)) /\ IsFiniteSet(TokenRates(L))
  BY PassRatesAreRates, CompletionRatesAreRates, TimesAreCounts
<1> DEFINE Observed(X) == [accuracy |-> Cardinality(PassRates(X)),
                           completion |-> Cardinality(CompletionRates(X)),
                           latency |-> Cardinality(WallTimes(X)),
                           throughput |-> Cardinality(TokenRates(X))]
           p == GroupRow(key, L).observed
           s == GroupRow(key, M).observed
<1>6. p = Observed(L) /\ s = Observed(M)
  BY RowFields
<1> HIDE DEF p, s
<1>7. CASE o = "accuracy"
  <2>1. p[o] = Cardinality(PassRates(L)) /\ s[o] = Cardinality(PassRates(M))
    BY <1>7, <1>6
  <2>2. Grows(Cardinality(PassRates(L)), Cardinality(PassRates(M)))
    BY <1>1, <1>5, OneMore
  <2> QED
    BY <2>1, <2>2 DEF p, s
<1>8. CASE o = "completion"
  <2>1. p[o] = Cardinality(CompletionRates(L)) /\ s[o] = Cardinality(CompletionRates(M))
    BY <1>8, <1>6
  <2>2. Grows(Cardinality(CompletionRates(L)), Cardinality(CompletionRates(M)))
    BY <1>2, <1>5, OneMore
  <2> QED
    BY <2>1, <2>2 DEF p, s
<1>9. CASE o = "latency"
  <2>1. p[o] = Cardinality(WallTimes(L)) /\ s[o] = Cardinality(WallTimes(M))
    BY <1>9, <1>6
  <2>2. Grows(Cardinality(WallTimes(L)), Cardinality(WallTimes(M)))
    BY <1>3, <1>5, OneMore
  <2> QED
    BY <2>1, <2>2 DEF p, s
<1>10. CASE o = "throughput"
  <2>1. p[o] = Cardinality(TokenRates(L)) /\ s[o] = Cardinality(TokenRates(M))
    BY <1>10, <1>6
  <2>2. Grows(Cardinality(TokenRates(L)), Cardinality(TokenRates(M)))
    BY <1>4, <1>5, OneMore
  <2> QED
    BY <2>1, <2>2 DEF p, s
<1> QED
  BY <1>7, <1>8, <1>9, <1>10 DEF RECOMMENDATION_OBJECTIVES

\* Counts that grow by one at most lower what is needed by one at most.
LEMMA NeedFalls ==
    ASSUME NEW x, NEW y, NEW objectives, IsRow(x), IsRow(y),
           objectives \subseteq RECOMMENDATION_OBJECTIVES,
           \A o \in RECOMMENDATION_OBJECTIVES :
             y.observed[o] = x.observed[o] \/ y.observed[o] = x.observed[o] + 1
    PROVE  /\ Additional(x, objectives, Target) - 1 <= Additional(y, objectives, Target)
           /\ Additional(y, objectives, Target) <= Additional(x, objectives, Target)
<1> DEFINE S == {0, 5 - x.observed.accuracy} \cup {Target - x.observed[o] : o \in objectives}
           T == {0, 5 - y.observed.accuracy} \cup {Target - y.observed[o] : o \in objectives}
           s == Max(S)
           t == Max(T)
<1>1. /\ Additional(x, objectives, Target) = s /\ S \subseteq Int
      /\ s \in S /\ \A v \in S : v <= s
  BY AdditionalIsGreatest
<1>2. /\ Additional(y, objectives, Target) = t /\ T \subseteq Int
      /\ t \in T /\ \A v \in T : v <= t
  BY AdditionalIsGreatest
<1>3. s \in Int /\ t \in Int
  BY <1>1, <1>2
<1> HIDE DEF s, t
<1>4. Target \in Int
  BY QueriesAreValid DEF MIN_BASELINE_SUBMISSIONS
<1>5. \A o \in RECOMMENDATION_OBJECTIVES : x.observed[o] \in Nat /\ y.observed[o] \in Nat
  BY DEF IsRow
<1>6. "accuracy" \in RECOMMENDATION_OBJECTIVES
  BY DEF RECOMMENDATION_OBJECTIVES
<1>7. \A v \in T : \E u \in S : v <= u
  <2>1. ASSUME NEW o \in objectives
        PROVE  \E u \in S : Target - y.observed[o] <= u
    <3>1. Target - y.observed[o] <= Target - x.observed[o]
      BY <1>4, <1>5
    <3>2. Target - x.observed[o] \in S
      OBVIOUS
    <3> QED
      BY <3>1, <3>2
  <2>2. \E u \in S : 5 - y.observed.accuracy <= u
    <3>1. 5 - y.observed.accuracy <= 5 - x.observed.accuracy
      BY <1>5, <1>6
    <3>2. 5 - x.observed.accuracy \in S
      OBVIOUS
    <3> QED
      BY <3>1, <3>2
  <2>3. \E u \in S : 0 <= u
    <3>1. 0 \in S /\ 0 <= 0
      OBVIOUS
    <3> QED
      BY <3>1
  <2> QED
    BY <2>1, <2>2, <2>3
<1>8. \A u \in S : \E v \in T : u - 1 <= v
  <2>1. ASSUME NEW o \in objectives
        PROVE  \E v \in T : Target - x.observed[o] - 1 <= v
    <3>1. Target - x.observed[o] - 1 <= Target - y.observed[o]
      BY <1>4, <1>5
    <3>2. Target - y.observed[o] \in T
      OBVIOUS
    <3> QED
      BY <3>1, <3>2
  <2>2. \E v \in T : 5 - x.observed.accuracy - 1 <= v
    <3>1. 5 - x.observed.accuracy - 1 <= 5 - y.observed.accuracy
      BY <1>5, <1>6
    <3>2. 5 - y.observed.accuracy \in T
      OBVIOUS
    <3> QED
      BY <3>1, <3>2
  <2>3. \E v \in T : 0 - 1 <= v
    <3>1. 0 \in T /\ 0 - 1 <= 0
      OBVIOUS
    <3> QED
      BY <3>1
  <2> QED
    BY <2>1, <2>2, <2>3
<1> HIDE DEF S, T
<1>9. t <= s
  <2>1. PICK u \in S : t <= u
    BY <1>2, <1>7
  <2>2. u <= s /\ u \in Int
    BY <1>1
  <2> QED
    BY <1>3, <2>1, <2>2
<1>10. s - 1 <= t
  <2>1. PICK v \in T : s - 1 <= v
    BY <1>1, <1>8
  <2>2. v <= t /\ v \in Int
    BY <1>2
  <2> QED
    BY <1>3, <2>1, <2>2
<1> QED
  BY <1>1, <1>2, <1>9, <1>10

\* One more bundle adds one local at most to a group, and loses no group.
LEMMA GroupGrows ==
    ASSUME NEW S, NEW b, NEW key
    PROVE  /\ LocalsOf(S, key) \subseteq LocalsOf(S \cup {b}, key)
           /\ LocalsOf(S \cup {b}, key) \subseteq LocalsOf(S, key) \cup {BundleLocal(b, key)}
BY DEF LocalsOf

\* One more bundle brings a configuration at most one observation nearer to the target
\* of an objective, and never takes it further away.
LEMMA RowsGrow ==
    ASSUME NEW S, NEW b, IsFiniteSet(S), WellFormed(b), \A c \in S : WellFormed(c), NEW q \in Queries,
           NEW x \in Matched(aggregate_submissions(S), q),
           NEW y \in Matched(aggregate_submissions(S \cup {b}), q),
           x.configuration = y.configuration
    PROVE  /\ Additional(x, q.objectives, Target) - 1 <= Additional(y, q.objectives, Target)
           /\ Additional(y, q.objectives, Target) <= Additional(x, q.objectives, Target)
<1> DEFINE T == S \cup {b}
           P == PacksOf(aggregate_submissions(S), q.round)
           R == PacksOf(aggregate_submissions(T), q.round)
<1>1. IsFiniteSet(T) /\ \A c \in T : WellFormed(c)
  BY FS_AddElement
<1>2. /\ IsFiniteSet(aggregate_submissions(S))
      /\ \A z \in aggregate_submissions(S) : IsRow(z) /\ z.pack # None
  BY RowsAreReal
<1>3. /\ IsFiniteSet(aggregate_submissions(T))
      /\ \A z \in aggregate_submissions(T) : IsRow(z) /\ z.pack # None
  <2> HIDE DEF T
  <2> QED
    BY <1>1, RowsAreReal
<1>4. /\ x \in aggregate_submissions(S) /\ x.round = q.round /\ x.pack = SelectedPack(P, q.pack)
      /\ y \in aggregate_submissions(T) /\ y.round = q.round /\ y.pack = SelectedPack(R, q.pack)
  BY DEF Matched
<1>5. P \subseteq R
  <2> SUFFICES ASSUME NEW z \in aggregate_submissions(S), z.round = q.round
               PROVE  \E u \in aggregate_submissions(T) : u.round = q.round /\ u.pack = z.pack
    BY DEF PacksOf
  <2> DEFINE key == <<z.round, z.pack, z.configuration>>
             u == GroupRow(key, LocalsOf(T, key))
  <2>1. key \in GroupKeys(S)
    BY RowOfKey
  <2>2. key \in GroupKeys(T)
    BY <2>1 DEF GroupKeys
  <2>3. u \in aggregate_submissions(T)
    <3> HIDE DEF key
    <3> QED
      BY <2>2 DEF aggregate_submissions, LocalsOf
  <2>4. u.round = z.round /\ u.pack = z.pack
    <3>1. u.round = key[1] /\ u.pack = key[2]
      <4> HIDE DEF key
      <4> QED
        BY RowFields, ZenonT(60)
    <3> QED
      BY <3>1
  <2> QED
    BY <2>3, <2>4
<1>6. IsFiniteSet(P) /\ IsFiniteSet(R)
  <2>1. ASSUME NEW table, IsFiniteSet(table)
        PROVE  IsFiniteSet(PacksOf(table, q.round))
    <3> DEFINE D == {z \in table : z.round = q.round}
               f == [z \in D |-> z.pack]
    <3>1. D \subseteq table /\ {f[z] : z \in D} = PacksOf(table, q.round)
      BY DEF PacksOf
    <3> HIDE DEF D, f
    <3>2. IsFiniteSet(D)
      BY <2>1, <3>1, FS_Subset
    <3>3. IsFiniteSet({f[z] : z \in D})
      BY <3>2, ImageFinite
    <3> QED
      BY <3>1, <3>3
  <2> HIDE DEF T
  <2> QED
    BY <1>2, <1>3, <2>1
<1>7. x.pack = y.pack
  <2>1. SelectedPack(P, q.pack) # None /\ SelectedPack(R, q.pack) # None
    BY <1>2, <1>3, <1>4
  <2> HIDE DEF P, R
  <2>2. SelectedPack(P, q.pack) = SelectedPack(R, q.pack)
    BY <1>5, <1>6, <2>1, SamePack
  <2> QED
    BY <1>4, <2>2
<1> DEFINE key == <<x.round, x.pack, x.configuration>>
           L == LocalsOf(S, key)
           M == LocalsOf(T, key)
<1>8. key = <<y.round, y.pack, y.configuration>>
  BY <1>4, <1>7
<1>9. x = GroupRow(key, L)
  BY <1>4, RowOfKey
<1>10. y = GroupRow(key, M)
  <2> HIDE DEF T
  <2> QED
    BY <1>1, <1>4, <1>8, RowOfKey
<1>11. IsFiniteSet(L) /\ \A l \in L : IsLocal(l)
  <2> HIDE DEF key
  <2> QED
    BY LocalsAreCounted
<1>12. L \subseteq M /\ M \subseteq L \cup {BundleLocal(b, key)}
  <2> HIDE DEF key
  <2> QED
    BY GroupGrows
<1> HIDE DEF key, L, M
<1>13. \A o \in RECOMMENDATION_OBJECTIVES :
          y.observed[o] = x.observed[o] \/ y.observed[o] = x.observed[o] + 1
  <2> TAKE o \in RECOMMENDATION_OBJECTIVES
  <2>1. \/ GroupRow(key, M).observed[o] = GroupRow(key, L).observed[o]
        \/ GroupRow(key, M).observed[o] = GroupRow(key, L).observed[o] + 1
    <3>1. L \subseteq M /\ \E l : M \subseteq L \cup {l}
      BY <1>12
    <3>2. Grows(GroupRow(key, L).observed[o], GroupRow(key, M).observed[o])
      BY <1>11, <3>1, CountsGrow
    <3> QED
      BY <3>2 DEF Grows
  <2> QED
    BY <1>9, <1>10, <2>1
<1>14. q.objectives \subseteq RECOMMENDATION_OBJECTIVES
  BY QueriesAreValid DEF ValidQuery
<1>15. IsRow(x) /\ IsRow(y)
  BY <1>2, <1>3, <1>4
<1> QED
  BY <1>13, <1>14, <1>15, NeedFalls

PlanStep ==
    \A q \in Queries :
      \A x \in Matched(rows, q) : \A y \in Matched(rows', q) :
        x.configuration = y.configuration =>
          LET before == Additional(x, q.objectives, Target)
              after  == Additional(y, q.objectives, Target)
          IN before - 1 <= after /\ after <= before

\* No step raises the number of observations a configuration still needs, and none
\* lowers it by more than one.
LEMMA PlanOfStep == RowsInv /\ [Next]_vars => PlanStep
<1> SUFFICES ASSUME RowsInv, [Next]_vars, NEW q \in Queries, NEW x \in Matched(rows, q),
                    NEW y \in Matched(rows', q), x.configuration = y.configuration
             PROVE  /\ Additional(x, q.objectives, Target) - 1 <= Additional(y, q.objectives, Target)
                    /\ Additional(y, q.objectives, Target) <= Additional(x, q.objectives, Target)
  BY DEF PlanStep
<1>1. IsFiniteSet(Submissions) /\ \A b \in Submissions : WellFormed(b)
  BY SubmissionsAreWellFormed DEF RowsInv, DirectoryIsFinite, Submissions
<1>2. rows = aggregate_submissions(Submissions)
  BY DEF RowsInv, RowsAreCurrent
<1>3. (\E k \in Kinds : Accept(k)) \/ UNCHANGED rows
  BY DEF Next, vars, RenderIndex, OpenIndex, WriteIndex, NormalizeSubmissions, FillTemporary,
         ValidateTemporary, ReplaceOutput, Abort
<1>4. CASE \E k \in Kinds : Accept(k)
  <2>1. PICK k \in Kinds : Accept(k)
    BY <1>4
  <2> DEFINE e == <<k, Cardinality({z \in directory : z[1] = k}) + 1>>
             b == Bundle(e)
  <2>2. /\ directory' = directory \cup {e}
        /\ rows' = aggregate_submissions(Bundles(directory'))
    BY <2>1 DEF Accept
  <2>3. Bundles(directory') = Submissions \cup {b}
    <3> HIDE DEF e
    <3> QED
      BY <2>2 DEF Bundles, Submissions
  <2>4. e[1] \in Kinds
    OBVIOUS
  <2> HIDE DEF e
  <2>5. WellFormed(b)
    BY <2>4, BundleIsWellFormed
  <2> HIDE DEF b
  <2>6. /\ x \in Matched(aggregate_submissions(Submissions), q)
        /\ y \in Matched(aggregate_submissions(Submissions \cup {b}), q)
    BY <1>2, <2>2, <2>3
  <2> QED
    BY <1>1, <2>5, <2>6, RowsGrow
<1>5. CASE UNCHANGED rows
  <2>1. x \in Matched(rows, q) /\ y \in Matched(rows, q)
    BY <1>5
  <2>2. x \in rows /\ y \in rows /\ x.round = y.round /\ x.pack = y.pack
    BY <2>1 DEF Matched
  <2>3. y = x /\ IsRow(x)
    BY <2>2, RowsFacts
  <2>4. q.objectives \subseteq RECOMMENDATION_OBJECTIVES
    BY QueriesAreValid DEF ValidQuery
  <2>5. Additional(x, q.objectives, Target) \in Int
    BY <2>3, <2>4, AdditionalIsGreatest
  <2> QED
    BY <2>3, <2>5
<1> QED
  BY <1>3, <1>4, <1>5

\* collection_plan: one accepted bundle lowers what any configuration still needs by one
\* at most and never raises it, for every directory, query and target.
THEOREM PlanNeverOvercounts == Spec => PlanIsLowerBound
<1>1. RowsInv /\ [Next]_vars => [PlanStep]_vars
  BY PlanOfStep
<1>2. Spec => [][PlanStep]_vars
  BY <1>1, RowsInvAlways, PTL DEF Spec
<1>3. PlanIsLowerBound <=> [][PlanStep]_vars
  BY DEF PlanIsLowerBound, PlanStep
<1> QED
  BY <1>2, <1>3

(***************************************************************************)
(* What a bundle adds does not depend on how its runs and its outcomes are *)
(* written down: a database row is not the record of the JSON document.    *)
(***************************************************************************)
LEMMA SumCarried ==
    ASSUME NEW S, NEW T, NEW field, IsFiniteSet(S), IsFiniteSet(T),
           \A x \in S : x[field] \in Nat, \A x \in T : x[field] \in Nat,
           \E f \in Bijection(S, T) : \A x \in S : f[x][field] = x[field]
    PROVE  Sigma(FieldOf(S, field), S) = Sigma(FieldOf(T, field), T)
<1> DEFINE w == FieldOf(S, field)
           v == FieldOf(T, field)
<1>1. PICK f \in Bijection(S, T) : \A x \in S : f[x][field] = x[field]
  OBVIOUS
<1>2. f \in [S -> T]
  BY DEF Bijection, Injection
<1>3. (\A x \in S : w[x] \in Int) /\ (\A x \in T : v[x] \in Int) /\ \A x \in S : w[x] = v[f[x]]
  BY <1>1, <1>2 DEF FieldOf
<1> HIDE DEF w, v
<1>4. Sigma(w, S) = Sigma(v, T)
  BY <1>1, <1>3, SigmaCarried
<1> QED
  BY <1>4 DEF w, v

\* A bijection carries the size of a set.
LEMMA SizeCarried ==
    ASSUME NEW S, NEW T, IsFiniteSet(S), \E f : f \in Bijection(S, T)
    PROVE  Cardinality(S) = Cardinality(T) /\ (S = {} <=> T = {})
<1>1. ExistsBijection(S, T)
  BY DEF ExistsBijection
<1>2. IsFiniteSet(T) /\ Cardinality(T) = Cardinality(S)
  BY <1>1, FS_Bijection
<1> QED
  BY <1>2, FS_EmptySet

\* Two sets of outcomes with the same times have the same walls and the same speeds.
LEMMA TimesCarried ==
    ASSUME NEW S, NEW T, IsFiniteSet(S), IsFiniteSet(T),
           \A x \in S : TimedItem(x), \A x \in T : TimedItem(x),
           \E g \in Bijection(S, T) : \A x \in S : g[x].wall = x.wall /\ g[x].tokens = x.tokens
    PROVE  /\ \E g \in Bijection(Walls(S), Walls(T)) : \A x \in Walls(S) : g[x]["wall"] = x["wall"]
           /\ \E g \in Bijection(Speeds(S), Speeds(T)) : \A x \in Speeds(S) : g[x][2] = x[2]
<1>1. PICK g \in Bijection(S, T) : \A x \in S : g[x].wall = x.wall /\ g[x].tokens = x.tokens
  OBVIOUS
<1>2. /\ g \in [S -> T]
      /\ \A x, y \in S : g[x] = g[y] => x = y
      /\ \A y \in T : \E x \in S : g[x] = y
  BY DEF Bijection, Injection, Surjection, IsInjective
<1> DEFINE h == [x \in Walls(S) |-> g[x]]
<1>3. h \in Bijection(Walls(S), Walls(T)) /\ \A x \in Walls(S) : h[x]["wall"] = x["wall"]
  <2>1. h \in [Walls(S) -> Walls(T)]
    BY <1>1, <1>2 DEF Walls
  <2>2. \A x, y \in Walls(S) : h[x] = h[y] => x = y
    BY <1>2 DEF Walls
  <2>3. ASSUME NEW y \in Walls(T) PROVE \E x \in Walls(S) : h[x] = y
    <3>1. y \in T /\ y.wall # None
      BY DEF Walls
    <3>2. PICK x \in S : g[x] = y
      BY <1>2, <3>1
    <3>3. x \in Walls(S)
      BY <1>1, <3>1, <3>2 DEF Walls
    <3> QED
      BY <3>2, <3>3
  <2>4. \A x \in Walls(S) : h[x]["wall"] = x["wall"]
    BY <1>1 DEF Walls
  <2> HIDE DEF h
  <2> QED
    BY <2>1, <2>2, <2>3, <2>4 DEF Bijection, Injection, Surjection, IsInjective
<1> DEFINE R(X) == {y \in Walls(X) : y.wall > 0 /\ y.tokens # None}
           Sp(x) == <<x, Thousandths(x.tokens, x.wall)>>
           k == [s \in Speeds(S) |-> <<g[s[1]], s[2]>>]
<1>4. Speeds(S) = {Sp(x) : x \in R(S)} /\ Speeds(T) = {Sp(x) : x \in R(T)}
  BY DEF Speeds
<1>5. /\ R(S) \subseteq S /\ R(T) \subseteq T
      /\ \A x \in S : x \in R(S) <=> g[x] \in R(T)
      /\ \A x \in S : g[x].wall = x.wall /\ g[x].tokens = x.tokens
  BY <1>1, <1>2 DEF Walls
<1>6. \A x : Sp(x)[1] = x /\ Sp(x)[2] = Thousandths(x.tokens, x.wall)
  OBVIOUS
<1>7. \A x \in S : Sp(g[x]) = <<g[x], Sp(x)[2]>>
  BY <1>5
<1> HIDE DEF R, Sp
<1>8. ASSUME NEW s \in Speeds(S)
      PROVE  k[s] \in Speeds(T) /\ k[s][2] = s[2]
  <2>1. PICK x \in R(S) : s = Sp(x)
    BY <1>4
  <2>2. s[1] = x /\ k[s] = <<g[x], Sp(x)[2]>>
    BY <1>6, <2>1
  <2>3. k[s] = Sp(g[x])
    BY <1>5, <1>7, <2>2
  <2>4. g[x] \in R(T)
    BY <1>5
  <2> QED
    BY <1>4, <2>1, <2>2, <2>3, <2>4
<1>9. k \in [Speeds(S) -> Speeds(T)]
  BY <1>8
<1>10. ASSUME NEW s \in Speeds(S), NEW t \in Speeds(S), k[s] = k[t] PROVE s = t
  <2>1. PICK x \in R(S) : s = Sp(x)
    BY <1>4
  <2>2. PICK y \in R(S) : t = Sp(y)
    BY <1>4
  <2>3. k[s] = <<g[x], Sp(x)[2]>> /\ k[t] = <<g[y], Sp(y)[2]>>
    BY <1>6, <2>1, <2>2
  <2>4. g[x] = g[y]
    BY <1>10, <2>3
  <2> QED
    BY <1>2, <1>5, <2>1, <2>2, <2>4
<1>11. ASSUME NEW t \in Speeds(T) PROVE \E s \in Speeds(S) : k[s] = t
  <2>1. PICK y \in R(T) : t = Sp(y)
    BY <1>4
  <2>2. PICK x \in S : g[x] = y
    BY <1>2, <1>5
  <2>3. x \in R(S) /\ Sp(x) \in Speeds(S)
    BY <1>4, <1>5, <2>2
  <2>4. k[Sp(x)] = <<g[x], Sp(x)[2]>>
    BY <1>6, <2>3
  <2>5. k[Sp(x)] = t
    BY <1>7, <2>1, <2>2, <2>4
  <2> QED
    BY <2>3, <2>5
<1>12. k \in Bijection(Speeds(S), Speeds(T)) /\ \A s \in Speeds(S) : k[s][2] = s[2]
  <2>1. \A s \in Speeds(S) : k[s][2] = s[2]
    BY <1>8
  <2> HIDE DEF k
  <2> QED
    BY <1>9, <1>10, <1>11, <2>1 DEF Bijection, Injection, Surjection, IsInjective
<1> HIDE DEF h, k
<1> QED
  BY <1>3, <1>12

\* A bijection that keeps the counters of the runs and the times of the items keeps
\* the aggregate built from them.
LEMMA LocalCarried ==
    ASSUME NEW bundle, NEW runs, NEW items, NEW runs2, NEW items2,
           IsFiniteSet(runs), IsFiniteSet(runs2), IsFiniteSet(items), IsFiniteSet(items2),
           \A r \in runs : CountedRun(r), \A r \in runs2 : CountedRun(r),
           \A x \in items : TimedItem(x), \A x \in items2 : TimedItem(x),
           \E f \in Bijection(runs, runs2) : \A r \in runs :
             /\ f[r].passed = r.passed /\ f[r].total = r.total /\ f[r].incomplete = r.incomplete
             /\ f[r].manual_review = r.manual_review
             /\ f[r].infrastructure_errors = r.infrastructure_errors,
           \E g \in Bijection(items, items2) : \A x \in items :
             g[x].wall = x.wall /\ g[x].tokens = x.tokens
    PROVE  Local(bundle, runs, items) = Local(bundle, runs2, items2)
<1> DEFINE Fields == {"passed", "total", "incomplete", "manual_review", "infrastructure_errors"}
           Total(X, field) == MapThenSumSet(LAMBDA x : x[field], X)
           Wall(X) == MapThenSumSet(LAMBDA x : x.wall, X)
<1>1. PICK f \in Bijection(runs, runs2) : \A r \in runs :
             /\ f[r].passed = r.passed /\ f[r].total = r.total /\ f[r].incomplete = r.incomplete
             /\ f[r].manual_review = r.manual_review
             /\ f[r].infrastructure_errors = r.infrastructure_errors
  OBVIOUS
<1>2. \A field \in Fields :
        /\ \A r \in runs : r[field] \in Nat /\ f[r][field] = r[field]
        /\ \A r \in runs2 : r[field] \in Nat
  BY <1>1 DEF CountedRun
<1>3. ASSUME NEW field \in Fields
      PROVE  Total(runs, field) = Total(runs2, field)
  <2>1. (\A r \in runs : r[field] \in Nat) /\ \A r \in runs2 : r[field] \in Nat
    BY <1>2
  <2>2. \E p \in Bijection(runs, runs2) : \A r \in runs : p[r][field] = r[field]
    BY <1>2
  <2>3. Sigma(FieldOf(runs, field), runs) = Sigma(FieldOf(runs2, field), runs2)
    BY <2>1, <2>2, SumCarried
  <2>4. Total(runs, field) = Sigma(FieldOf(runs, field), runs)
    BY <2>1, SumOfField
  <2>5. Total(runs2, field) = Sigma(FieldOf(runs2, field), runs2)
    BY <2>1, SumOfField
  <2> QED
    BY <2>3, <2>4, <2>5
<1>4. Cardinality(runs) = Cardinality(runs2)
  BY <1>1, SizeCarried
<1> DEFINE W == Walls(items)
           X == Walls(items2)
           R == Speeds(items)
           Q == Speeds(items2)
<1>5. /\ IsFiniteSet(W) /\ (\A x \in W : x["wall"] \in Nat)
      /\ IsFiniteSet(R) /\ \A x \in R : x[2] \in Nat
  BY SpeedsAreRates
<1>6. /\ IsFiniteSet(X) /\ (\A x \in X : x["wall"] \in Nat)
      /\ IsFiniteSet(Q) /\ \A x \in Q : x[2] \in Nat
  BY SpeedsAreRates
<1>7. /\ \E g \in Bijection(W, X) : \A x \in W : g[x]["wall"] = x["wall"]
      /\ \E g \in Bijection(R, Q) : \A x \in R : g[x][2] = x[2]
  BY TimesCarried
<1> HIDE DEF W, X, R, Q
<1>8. Wall(W) = Wall(X) /\ Cardinality(W) = Cardinality(X) /\ (W = {} <=> X = {})
  <2>1. Sigma(FieldOf(W, "wall"), W) = Sigma(FieldOf(X, "wall"), X)
    BY <1>5, <1>6, <1>7, SumCarried
  <2>2. Wall(W) = Sigma(FieldOf(W, "wall"), W)
    BY <1>5, SumOfField
  <2>3. Wall(X) = Sigma(FieldOf(X, "wall"), X)
    BY <1>6, SumOfField
  <2>4. Cardinality(W) = Cardinality(X) /\ (W = {} <=> X = {})
    BY <1>5, <1>7, SizeCarried
  <2> QED
    BY <2>1, <2>2, <2>3, <2>4
<1>9. SumOf(R) = SumOf(Q) /\ Cardinality(R) = Cardinality(Q) /\ (R = {} <=> Q = {})
  <2>1. Sigma(FieldOf(R, 2), R) = Sigma(FieldOf(Q, 2), Q)
    BY <1>5, <1>6, <1>7, SumCarried
  <2>2. SumOf(R) = Sigma(FieldOf(R, 2), R)
    BY <1>5, SumOfPairs
  <2>3. SumOf(Q) = Sigma(FieldOf(Q, 2), Q)
    BY <1>6, SumOfPairs
  <2>4. Cardinality(R) = Cardinality(Q) /\ (R = {} <=> Q = {})
    BY <1>5, <1>7, SizeCarried
  <2> QED
    BY <2>1, <2>2, <2>3, <2>4
<1>10. /\ Total(runs, "passed") = Total(runs2, "passed")
       /\ Total(runs, "total") = Total(runs2, "total")
       /\ Total(runs, "incomplete") = Total(runs2, "incomplete")
       /\ Total(runs, "manual_review") = Total(runs2, "manual_review")
       /\ Total(runs, "infrastructure_errors") = Total(runs2, "infrastructure_errors")
  BY <1>3
<1> DEFINE Rec(n, a, b, c, d, e, wall, rate) ==
             [bundle |-> bundle, runs |-> n, passed |-> a, total |-> b, incomplete |-> c,
              manual_review |-> d, infrastructure_errors |-> e, wall |-> wall, rate |-> rate]
           Mean(s, n) == IF s = {} THEN None ELSE Thousandths(n, Cardinality(s))
           Rate(s, n) == IF s = {} THEN None ELSE n \div Cardinality(s)
<1>11. Local(bundle, runs, items) =
         Rec(Cardinality(runs), Total(runs, "passed"), Total(runs, "total"),
             Total(runs, "incomplete"), Total(runs, "manual_review"),
             Total(runs, "infrastructure_errors"), Mean(W, Wall(W)), Rate(R, SumOf(R)))
  BY LocalFields DEF W, R
<1>12. Local(bundle, runs2, items2) =
         Rec(Cardinality(runs2), Total(runs2, "passed"), Total(runs2, "total"),
             Total(runs2, "incomplete"), Total(runs2, "manual_review"),
             Total(runs2, "infrastructure_errors"), Mean(X, Wall(X)), Rate(Q, SumOf(Q)))
  BY LocalFields DEF X, Q
<1>13. Mean(W, Wall(W)) = Mean(X, Wall(X)) /\ Rate(R, SumOf(R)) = Rate(Q, SumOf(Q))
  <2> HIDE DEF Wall
  <2> QED
    BY <1>8, <1>9
<1> HIDE DEF Rec, Mean, Rate, Total, Wall
<1> QED
  BY <1>4, <1>10, <1>11, <1>12, <1>13

(***************************************************************************)
(* The database: what its rows say of a directory of accepted bundles.     *)
(***************************************************************************)
Stored(b) ==
    /\ WellFormed(b)
    /\ b.schema \in 1..4
    /\ \A i \in DOMAIN b.models :
         /\ ValidScaffold(normalized_execution_scaffold(b.schema, b.models[i]))
         /\ ValidServing(normalized_serving_environment(b.schema, b.models[i]), b.env)
         /\ \A r \in DOMAIN b.models[i].rounds :
              /\ \A x, y \in b.models[i].rounds[r].items :
                   x.item = y.item /\ x.attempt = y.attempt => x = y
              /\ \A x \in b.models[i].rounds[r].items :
                   x.attempt >= 1 /\ x.status \in PUBLIC_ITEM_STATUSES
              /\ \A k \in DOMAIN b.models[i].rounds[r].tasks : ValidTask(b.models[i].rounds[r].tasks[k])

\* Accepted bundles that differ have different identifiers.
Distinct(S) == \A b, c \in S : b.id = c.id => b = c

\* Every bundle a contributor can submit can be stored as rows.
LEMMA BundleIsStored ==
    ASSUME NEW x, x[1] \in Kinds
    PROVE  Stored(Bundle(x))
<1> DEFINE b == Bundle(x)
           B == Body[x[1]]
<1>1. b.models = B.models /\ b.packs = B.packs /\ b.schema = B.schema /\ b.env = B.env
  BY DEF Bundle
<1>2. validate_public_result(B)
  BY BodiesAreValid
<1>3. B.schema \in 1..4 /\ \A i \in DOMAIN B.models : ValidModel(B, B.models[i])
  BY <1>2 DEF validate_public_result, PUBLIC_SCHEMA_VERSION
<1>4. WellFormed(b)
  BY BundleIsWellFormed
<1> HIDE DEF b
<1>5. ASSUME NEW i \in DOMAIN B.models
      PROVE  /\ ValidScaffold(normalized_execution_scaffold(B.schema, B.models[i]))
             /\ ValidServing(normalized_serving_environment(B.schema, B.models[i]), B.env)
  <2>1. /\ B.schema >= 4 => ValidScaffold(B.models[i].scaffold)
        /\ B.schema >= 3 => ValidServing(B.models[i].serving, B.env)
    BY <1>3 DEF ValidModel
  <2>2. ValidScaffold(LegacyScaffold)
    BY DEF ValidScaffold, LegacyScaffold
  <2>3. ValidServing(Unreported, B.env)
    BY DEF ValidServing, Unreported
  <2>4. ValidScaffold(normalized_execution_scaffold(B.schema, B.models[i]))
    BY <2>1, <2>2 DEF normalized_execution_scaffold
  <2>5. ValidServing(normalized_serving_environment(B.schema, B.models[i]), B.env)
    BY <2>1, <2>3 DEF normalized_serving_environment
  <2> QED
    BY <2>4, <2>5
<1>6. ASSUME NEW i \in DOMAIN B.models, NEW r \in DOMAIN B.models[i].rounds
      PROVE  /\ \A y, z \in B.models[i].rounds[r].items :
                   y.item = z.item /\ y.attempt = z.attempt => y = z
             /\ \A y \in B.models[i].rounds[r].items :
                   y.attempt >= 1 /\ y.status \in PUBLIC_ITEM_STATUSES
             /\ \A k \in DOMAIN B.models[i].rounds[r].tasks : ValidTask(B.models[i].rounds[r].tasks[k])
  <2>1. B.models[i].rounds[r].items = {} \/ ValidRound(r, B.models[i].rounds[r])
    BY <1>3 DEF ValidModel
  <2>2. \A k \in DOMAIN B.models[i].rounds[r].tasks : ValidTask(B.models[i].rounds[r].tasks[k])
    <3>1. \/ \A k \in DOMAIN B.models[i].rounds[r].tasks : ValidTask(B.models[i].rounds[r].tasks[k])
          \/ B.models[i].rounds[r].tasks = <<>>
      BY <1>3 DEF ValidModel
    <3>2. DOMAIN <<>> = {}
      OBVIOUS
    <3> QED
      BY <3>1, <3>2
  <2> QED
    BY <2>1, <2>2 DEF ValidRound
<1>7. Stored(b)
  BY <1>1, <1>3, <1>4, <1>5, <1>6 DEF Stored
<1> QED
  BY <1>7 DEF b

\* The runs of a bundle are its pairs of a model and one of its rounds.
LEMMA RunsOfPairs ==
    ASSUME NEW b, WellFormed(b)
    PROVE  /\ \A i \in DOMAIN b.models : \A r \in DOMAIN b.models[i].rounds : <<i, r>> \in RunsOf(b)
           /\ \A x \in RunsOf(b) : x[1] \in DOMAIN b.models /\ x[2] \in DOMAIN b.models[x[1]].rounds
<1>1. \A i \in DOMAIN b.models : \A r \in DOMAIN b.models[i].rounds : r \in 1..4
  BY DEF WellFormed
<1> QED
  BY <1>1 DEF RunsOf

\* The rows of a bundle.
LEMMA RowsOfSubmissions ==
    ASSUME NEW S, \A b \in S : WellFormed(b)
    PROVE  /\ \A r \in normalize_submissions(S).runs : \E b \in S : \E i \in DOMAIN b.models :
                \E q \in DOMAIN b.models[i].rounds : r = BenchmarkRun(b, i, q)
           /\ \A b \in S : \A i \in DOMAIN b.models : \A q \in DOMAIN b.models[i].rounds :
                BenchmarkRun(b, i, q) \in normalize_submissions(S).runs
           /\ \A y \in normalize_submissions(S).items : \E b \in S : \E i \in DOMAIN b.models :
                \E q \in DOMAIN b.models[i].rounds : y \in ItemObservations(b, i, q)
           /\ \A b \in S : \A i \in DOMAIN b.models : \A q \in DOMAIN b.models[i].rounds :
                ItemObservations(b, i, q) \subseteq normalize_submissions(S).items
           /\ \A t \in normalize_submissions(S).tasks : \E b \in S : \E i \in DOMAIN b.models :
                \E q \in DOMAIN b.models[i].rounds : t \in TaskObservations(b, i, q)
           /\ \A b \in S : \A i \in DOMAIN b.models : \A q \in DOMAIN b.models[i].rounds :
                TaskObservations(b, i, q) \subseteq normalize_submissions(S).tasks
<1> DEFINE Runs == UNION {{BenchmarkRun(b, x[1], x[2]) : x \in RunsOf(b)} : b \in S}
           Items == UNION {UNION {ItemObservations(b, x[1], x[2]) : x \in RunsOf(b)} : b \in S}
           TaskRows == UNION {UNION {TaskObservations(b, x[1], x[2]) : x \in RunsOf(b)} : b \in S}
<1>1. /\ normalize_submissions(S).runs = Runs /\ normalize_submissions(S).items = Items
      /\ normalize_submissions(S).tasks = TaskRows
  BY DEF normalize_submissions
<1>2. \A b \in S : /\ \A i \in DOMAIN b.models : \A r \in DOMAIN b.models[i].rounds : <<i, r>> \in RunsOf(b)
                   /\ \A x \in RunsOf(b) : x[1] \in DOMAIN b.models
                                           /\ x[2] \in DOMAIN b.models[x[1]].rounds
  BY RunsOfPairs
<1>3. ASSUME NEW r \in Runs
      PROVE  \E b \in S : \E i \in DOMAIN b.models : \E q \in DOMAIN b.models[i].rounds :
               r = BenchmarkRun(b, i, q)
  <2>1. PICK b \in S : \E x \in RunsOf(b) : r = BenchmarkRun(b, x[1], x[2])
    OBVIOUS
  <2>2. PICK x \in RunsOf(b) : r = BenchmarkRun(b, x[1], x[2])
    BY <2>1
  <2> QED
    BY <1>2, <2>2
<1>4. ASSUME NEW y \in Items
      PROVE  \E b \in S : \E i \in DOMAIN b.models : \E q \in DOMAIN b.models[i].rounds :
               y \in ItemObservations(b, i, q)
  <2>1. PICK b \in S : \E x \in RunsOf(b) : y \in ItemObservations(b, x[1], x[2])
    OBVIOUS
  <2>2. PICK x \in RunsOf(b) : y \in ItemObservations(b, x[1], x[2])
    BY <2>1
  <2> QED
    BY <1>2, <2>2
<1>6. ASSUME NEW t \in TaskRows
      PROVE  \E b \in S : \E i \in DOMAIN b.models : \E q \in DOMAIN b.models[i].rounds :
               t \in TaskObservations(b, i, q)
  <2>1. PICK b \in S : \E x \in RunsOf(b) : t \in TaskObservations(b, x[1], x[2])
    OBVIOUS
  <2>2. PICK x \in RunsOf(b) : t \in TaskObservations(b, x[1], x[2])
    BY <2>1
  <2> QED
    BY <1>2, <2>2
<1>5. ASSUME NEW b \in S, NEW i \in DOMAIN b.models, NEW q \in DOMAIN b.models[i].rounds
      PROVE  /\ BenchmarkRun(b, i, q) \in Runs /\ ItemObservations(b, i, q) \subseteq Items
             /\ TaskObservations(b, i, q) \subseteq TaskRows
  <2> DEFINE x == <<i, q>>
  <2>1. x \in RunsOf(b) /\ x[1] = i /\ x[2] = q
    BY <1>2
  <2> HIDE DEF x
  <2>2. BenchmarkRun(b, x[1], x[2]) \in Runs
    BY <2>1
  <2>3. ItemObservations(b, x[1], x[2]) \subseteq Items
    BY <2>1
  <2>4. TaskObservations(b, x[1], x[2]) \subseteq TaskRows
    BY <2>1
  <2> QED
    BY <2>1, <2>2, <2>3, <2>4
<1> HIDE DEF Runs, Items, TaskRows
<1> QED
  BY <1>1, <1>3, <1>4, <1>5, <1>6

\* What a row of a run or of an outcome identifies.
LEMMA RunFields ==
    ASSUME NEW b, NEW i, NEW r
    PROVE  LET x == BenchmarkRun(b, i, r)
           IN /\ x.bundle = b.id /\ x.ordinal = i /\ x.round = r /\ x.pack = b.packs[r]
              /\ x.configuration = ConfigurationOf(b, i)
              /\ x.run_id = <<b.id, ConfigurationOf(b, i), i, r, b.packs[r]>>
              /\ x.passed = ModelTotals(b, i, r).passed /\ x.total = ModelTotals(b, i, r).total
              /\ x.incomplete = ModelTotals(b, i, r).incomplete
              /\ x.manual_review = ModelTotals(b, i, r).manual_review
              /\ x.infrastructure_errors = ModelTotals(b, i, r).infrastructure_errors
BY DEF BenchmarkRun, ModelTotals, RunId

\* A stored outcome carries the run it belongs to and the fields of its item.
LEMMA OutcomeFields ==
    ASSUME NEW b, NEW i, NEW r, NEW y \in ItemObservations(b, i, r)
    PROVE  /\ y.run_id = <<b.id, ConfigurationOf(b, i), i, r, b.packs[r]>>
           /\ \E x \in b.models[i].rounds[r].items :
                y = [run_id |-> <<b.id, ConfigurationOf(b, i), i, r, b.packs[r]>>, item |-> x.item,
                     attempt |-> x.attempt, status |-> x.status, wall |-> x.wall, tokens |-> x.tokens]
BY DEF ItemObservations, RunId

\* The k-th task row of a run.
TaskRowOf(b, i, r, k) ==
    LET u == b.models[i].rounds[r].tasks[k]
        run == <<b.id, ConfigurationOf(b, i), i, r, b.packs[r]>>
    IN [observation_id |-> <<run, k, u.task, u.attempt>>, run_id |-> run, ordinal |-> k,
        task |-> u.task, attempt |-> u.attempt, tokens |-> u.tokens, score |-> u.score,
        ready |-> OptionalBoolean(u.ready)]

\* A stored task row is that of its ordinal: it carries the run it belongs to, and the
\* fields of its task.
LEMMA TaskFields ==
    ASSUME NEW b, NEW i, NEW r, NEW t \in TaskObservations(b, i, r)
    PROVE  /\ t.ordinal \in DOMAIN b.models[i].rounds[r].tasks
           /\ t = TaskRowOf(b, i, r, t.ordinal)
           /\ t.run_id = <<b.id, ConfigurationOf(b, i), i, r, b.packs[r]>>
           /\ t.observation_id = <<t.run_id, t.ordinal, t.task, t.attempt>>
           /\ LET u == b.models[i].rounds[r].tasks[t.ordinal]
              IN /\ t.attempt = u.attempt /\ t.tokens = u.tokens /\ t.score = u.score
                 /\ t.ready = OptionalBoolean(u.ready)
<1>1. TaskObservations(b, i, r) = {TaskRowOf(b, i, r, k) : k \in DOMAIN b.models[i].rounds[r].tasks}
  BY DEF TaskObservations, RunId, TaskRowOf
<1>2. PICK k \in DOMAIN b.models[i].rounds[r].tasks : t = TaskRowOf(b, i, r, k)
  BY <1>1
<1>3. t.ordinal = k
  BY <1>2 DEF TaskRowOf
<1>4. t = TaskRowOf(b, i, r, t.ordinal)
  BY <1>2, <1>3
<1>5. /\ t.run_id = <<b.id, ConfigurationOf(b, i), i, r, b.packs[r]>>
      /\ t.observation_id = <<t.run_id, t.ordinal, t.task, t.attempt>>
  BY <1>2 DEF TaskRowOf
<1>6. LET u == b.models[i].rounds[r].tasks[t.ordinal]
      IN /\ t.attempt = u.attempt /\ t.tokens = u.tokens /\ t.score = u.score
         /\ t.ready = OptionalBoolean(u.ready)
  BY <1>2, <1>3 DEF TaskRowOf
<1> QED
  BY <1>2, <1>3, <1>4, <1>5, <1>6

RunsIn(table, key, bundle) ==
    {r \in table.runs : r.bundle = bundle /\ <<r.round, r.pack, r.configuration>> = key}
ItemsIn(table, runs) == {x \in table.items : \E r \in runs : r.run_id = x.run_id}

GroupRuns(b, key) == {BenchmarkRun(b, i, key[1]) : i \in GroupModels(b, key)}
GroupItems(b, key) == UNION {ItemObservations(b, i, key[1]) : i \in GroupModels(b, key)}

\* The stored runs of a group and bundle are the runs of the JSON document.
LEMMA RunsOfGroup ==
    ASSUME NEW S, NEW b \in S, NEW key, Distinct(S), \A c \in S : WellFormed(c),
           key = <<key[1], key[2], key[3]>>
    PROVE  RunsIn(normalize_submissions(S), key, b.id) = GroupRuns(b, key)
<1> DEFINE table == normalize_submissions(S)
<1>1. ASSUME NEW x \in RunsIn(table, key, b.id) PROVE x \in GroupRuns(b, key)
  <2>1. x \in table.runs /\ x.bundle = b.id /\ <<x.round, x.pack, x.configuration>> = key
    BY DEF RunsIn
  <2>2. PICK c \in S : \E i \in DOMAIN c.models : \E q \in DOMAIN c.models[i].rounds :
               x = BenchmarkRun(c, i, q)
    BY <2>1, RowsOfSubmissions
  <2>3. PICK i \in DOMAIN c.models : \E q \in DOMAIN c.models[i].rounds : x = BenchmarkRun(c, i, q)
    BY <2>2
  <2>4. PICK q \in DOMAIN c.models[i].rounds : x = BenchmarkRun(c, i, q)
    BY <2>3
  <2>5. x.bundle = c.id /\ x.round = q /\ x.pack = c.packs[q] /\ x.configuration = ConfigurationOf(c, i)
    BY <2>4, RunFields
  <2>6. c = b
    BY <2>1, <2>5 DEF Distinct
  <2>7. key[1] = q /\ key[2] = b.packs[q] /\ key[3] = ConfigurationOf(b, i)
    BY <2>1, <2>5, <2>6
  <2>8. i \in GroupModels(b, key)
    BY <2>6, <2>7 DEF GroupModels
  <2> QED
    BY <2>4, <2>6, <2>7, <2>8 DEF GroupRuns
<1>2. ASSUME NEW x \in GroupRuns(b, key) PROVE x \in RunsIn(table, key, b.id)
  <2>1. PICK i \in GroupModels(b, key) : x = BenchmarkRun(b, i, key[1])
    BY DEF GroupRuns
  <2>2. /\ i \in DOMAIN b.models /\ key[1] \in DOMAIN b.models[i].rounds
        /\ b.packs[key[1]] = key[2] /\ ConfigurationOf(b, i) = key[3]
    BY DEF GroupModels
  <2>3. x \in table.runs
    BY <2>1, <2>2, RowsOfSubmissions
  <2>4. x.bundle = b.id /\ x.round = key[1] /\ x.pack = key[2] /\ x.configuration = key[3]
    BY <2>1, <2>2, RunFields
  <2> QED
    BY <2>3, <2>4 DEF RunsIn
<1> QED
  BY <1>1, <1>2

\* The stored items of a group and bundle are the items of the JSON document.
LEMMA ItemsOfGroup ==
    ASSUME NEW S, NEW b \in S, NEW key, Distinct(S), \A c \in S : WellFormed(c)
    PROVE  ItemsIn(normalize_submissions(S), GroupRuns(b, key)) = GroupItems(b, key)
<1> DEFINE table == normalize_submissions(S)
           r == key[1]
<1>1. ASSUME NEW y \in ItemsIn(table, GroupRuns(b, key)) PROVE y \in GroupItems(b, key)
  <2>1. PICK x \in GroupRuns(b, key) : x.run_id = y.run_id
    BY DEF ItemsIn
  <2>2. PICK i \in GroupModels(b, key) : x = BenchmarkRun(b, i, r)
    BY DEF GroupRuns
  <2>3. y.run_id = <<b.id, ConfigurationOf(b, i), i, r, b.packs[r]>>
    BY <2>1, <2>2, RunFields
  <2>4. y \in table.items
    BY DEF ItemsIn
  <2>5. PICK c \in S : \E j \in DOMAIN c.models : \E q \in DOMAIN c.models[j].rounds :
               y \in ItemObservations(c, j, q)
    BY <2>4, RowsOfSubmissions
  <2>6. PICK j \in DOMAIN c.models : \E q \in DOMAIN c.models[j].rounds : y \in ItemObservations(c, j, q)
    BY <2>5
  <2>7. PICK q \in DOMAIN c.models[j].rounds : y \in ItemObservations(c, j, q)
    BY <2>6
  <2>8. y.run_id = <<c.id, ConfigurationOf(c, j), j, q, c.packs[q]>>
    BY <2>7, OutcomeFields
  <2>9. c.id = b.id /\ j = i /\ q = r
    BY <2>3, <2>8
  <2>10. y \in ItemObservations(b, i, r)
    BY <2>7, <2>9 DEF Distinct
  <2> QED
    BY <2>10 DEF GroupItems
<1>2. ASSUME NEW y \in GroupItems(b, key) PROVE y \in ItemsIn(table, GroupRuns(b, key))
  <2>1. PICK i \in GroupModels(b, key) : y \in ItemObservations(b, i, r)
    BY DEF GroupItems
  <2>2. i \in DOMAIN b.models /\ r \in DOMAIN b.models[i].rounds
    BY DEF GroupModels
  <2>3. y \in table.items
    BY <2>1, <2>2, RowsOfSubmissions
  <2>4. y.run_id = BenchmarkRun(b, i, r).run_id
    BY <2>1, OutcomeFields, RunFields
  <2>5. BenchmarkRun(b, i, r) \in GroupRuns(b, key)
    BY DEF GroupRuns
  <2> QED
    BY <2>3, <2>4, <2>5 DEF ItemsIn
<1> QED
  BY <1>1, <1>2

\* A bundle adds to a group what its rows of the database add: the rows of the runs
\* correspond to the models of the bundle, and the rows of the outcomes to the outcomes,
\* because one item has one outcome per attempt.
LEMMA DatabaseLocal ==
    ASSUME NEW b, NEW key, Stored(b)
    PROVE  Local(b.id, GroupRuns(b, key), GroupItems(b, key)) = BundleLocal(b, key)
<1> DEFINE r == key[1]
           I == GroupModels(b, key)
           R == GroupRuns(b, key)
           M == ModelRuns(b, key)
           Y == GroupItems(b, key)
           T == ModelItems(b, key)
           Timed(i, x) == [ordinal |-> i, item |-> x.item, attempt |-> x.attempt,
                           wall |-> x.wall, tokens |-> x.tokens]
           Row(i, x) == [run_id |-> <<b.id, ConfigurationOf(b, i), i, r, b.packs[r]>>, item |-> x.item,
                         attempt |-> x.attempt, status |-> x.status, wall |-> x.wall, tokens |-> x.tokens]
           Items(i) == b.models[i].rounds[r].items
<1>0. WellFormed(b)
  BY DEF Stored
<1>1. /\ BundleLocal(b, key) = Local(b.id, M, T)
      /\ IsFiniteSet(M) /\ \A x \in M : CountedRun(x)
      /\ IsFiniteSet(T) /\ \A x \in T : TimedItem(x)
  BY <1>0, ModelPartsAreCounted
<1>2. \A i \in I : i \in DOMAIN b.models /\ r \in DOMAIN b.models[i].rounds
  BY DEF GroupModels
<1>3. \A i \in I : \A x, y \in Items(i) : x.item = y.item /\ x.attempt = y.attempt => x = y
  BY <1>2 DEF Stored
<1>4. \A i \in I : CountedRun(ModelTotals(b, i, r)) /\ \A x \in Items(i) : TimedItem(x)
  BY <1>0, <1>2 DEF WellFormed
<1>5. /\ R = {BenchmarkRun(b, i, r) : i \in I}
      /\ M = {ModelTotals(b, i, r) : i \in I}
      /\ T = UNION {{Timed(i, x) : x \in Items(i)} : i \in I}
      /\ Y = UNION {ItemObservations(b, i, r) : i \in I}
  BY DEF GroupRuns, ModelRuns, GroupItems, ModelItems
<1>6. \A i \in I : ItemObservations(b, i, r) = {Row(i, x) : x \in Items(i)}
  BY DEF ItemObservations, RunId
<1>7. /\ \A i, x : /\ Timed(i, x).ordinal = i /\ Timed(i, x).item = x.item
                   /\ Timed(i, x).attempt = x.attempt /\ Timed(i, x).wall = x.wall
                   /\ Timed(i, x).tokens = x.tokens
      /\ \A i, x : /\ Row(i, x).run_id[3] = i /\ Row(i, x).item = x.item
                   /\ Row(i, x).attempt = x.attempt /\ Row(i, x).wall = x.wall
                   /\ Row(i, x).tokens = x.tokens
  OBVIOUS
<1> DEFINE Back(y) == [ordinal |-> y.run_id[3], item |-> y.item, attempt |-> y.attempt,
                       wall |-> y.wall, tokens |-> y.tokens]
           f == [x \in R |-> ModelTotals(b, x.ordinal, r)]
           g == [y \in Y |-> Back(y)]
<1>8. \A i, x : Back(Row(i, x)) = Timed(i, x)
  BY <1>7
<1>9. \A i : ModelTotals(b, i, r).ordinal = i
  BY DEF ModelTotals
<1>10. \A i : BenchmarkRun(b, i, r).ordinal = i
  BY RunFields
<1> HIDE DEF I, R, M, Y, T, Timed, Row, Items, Back
<1>11. /\ \A i \in I : f[BenchmarkRun(b, i, r)] = ModelTotals(b, i, r)
       /\ \A x \in R : \E i \in I : x = BenchmarkRun(b, i, r)
       /\ \A x \in M : \E i \in I : x = ModelTotals(b, i, r)
       /\ \A i \in I : BenchmarkRun(b, i, r) \in R /\ ModelTotals(b, i, r) \in M
  BY <1>5, <1>10
<1>12. f \in Bijection(R, M)
  <2>1. f \in [R -> M]
    BY <1>11, <1>10
  <2> HIDE DEF f
  <2>2. ASSUME NEW x \in R, NEW y \in R, f[x] = f[y] PROVE x = y
    <3>1. PICK i \in I : x = BenchmarkRun(b, i, r)
      BY <1>11
    <3>2. PICK j \in I : y = BenchmarkRun(b, j, r)
      BY <1>11
    <3>3. ModelTotals(b, i, r) = ModelTotals(b, j, r)
      BY <1>11, <2>2, <3>1, <3>2
    <3>4. i = j
      BY <1>9, <3>3
    <3> QED
      BY <3>1, <3>2, <3>4
  <2>3. ASSUME NEW m \in M PROVE \E x \in R : f[x] = m
    <3>1. PICK i \in I : m = ModelTotals(b, i, r)
      BY <1>11
    <3> QED
      BY <1>11, <3>1
  <2> QED
    BY <2>1, <2>2, <2>3 DEF Bijection, Injection, Surjection, IsInjective
<1>13. \A x \in R : /\ f[x].passed = x.passed /\ f[x].total = x.total /\ f[x].incomplete = x.incomplete
                    /\ f[x].manual_review = x.manual_review
                    /\ f[x].infrastructure_errors = x.infrastructure_errors
  <2> TAKE x \in R
  <2>1. PICK i \in I : x = BenchmarkRun(b, i, r)
    BY <1>11
  <2>2. f[x] = ModelTotals(b, i, r)
    BY <1>11, <2>1
  <2> HIDE DEF f
  <2> QED
    BY <2>1, <2>2, RunFields
<1>14. \A x \in R : CountedRun(x)
  <2> TAKE x \in R
  <2>1. PICK i \in I : x = BenchmarkRun(b, i, r)
    BY <1>11
  <2>2. CountedRun(ModelTotals(b, i, r))
    BY <1>4
  <2> QED
    BY <2>1, <2>2, RunFields DEF CountedRun
<1>15. /\ \A y \in Y : \E i \in I : \E x \in Items(i) : y = Row(i, x)
       /\ \A t \in T : \E i \in I : \E x \in Items(i) : t = Timed(i, x)
       /\ \A i \in I : \A x \in Items(i) : Row(i, x) \in Y /\ Timed(i, x) \in T
  BY <1>5, <1>6
<1>16. \A i \in I : \A x \in Items(i) : g[Row(i, x)] = Timed(i, x)
  BY <1>8, <1>15
<1>17. g \in Bijection(Y, T)
  <2>1. ASSUME NEW y \in Y PROVE g[y] \in T
    <3> HIDE DEF g
    <3>1. PICK i \in I : \E x \in Items(i) : y = Row(i, x)
      BY <1>15
    <3>2. PICK x \in Items(i) : y = Row(i, x)
      BY <3>1
    <3> QED
      BY <1>15, <1>16, <3>2
  <2>2. g \in [Y -> T]
    BY <2>1
  <2>3. ASSUME NEW y \in Y, NEW z \in Y, g[y] = g[z] PROVE y = z
    <3>1. PICK i \in I : \E x \in Items(i) : y = Row(i, x)
      BY <1>15
    <3>2. PICK u \in Items(i) : y = Row(i, u)
      BY <3>1
    <3>3. PICK j \in I : \E x \in Items(j) : z = Row(j, x)
      BY <1>15
    <3>4. PICK v \in Items(j) : z = Row(j, v)
      BY <3>3
    <3>5. Timed(i, u) = Timed(j, v)
      BY <1>16, <2>3, <3>2, <3>4
    <3>6. i = j /\ u.item = v.item /\ u.attempt = v.attempt
      BY <1>7, <3>5
    <3>7. u = v
      BY <1>3, <3>6
    <3> QED
      BY <3>2, <3>4, <3>6, <3>7
  <2> HIDE DEF g
  <2>4. ASSUME NEW t \in T PROVE \E y \in Y : g[y] = t
    <3>1. PICK i \in I : \E x \in Items(i) : t = Timed(i, x)
      BY <1>15
    <3>2. PICK x \in Items(i) : t = Timed(i, x)
      BY <3>1
    <3> QED
      BY <1>15, <1>16, <3>2
  <2> QED
    BY <2>2, <2>3, <2>4 DEF Bijection, Injection, Surjection, IsInjective
<1>18. \A y \in Y : g[y].wall = y.wall /\ g[y].tokens = y.tokens /\ TimedItem(y)
  <2> TAKE y \in Y
  <2>1. PICK i \in I : \E x \in Items(i) : y = Row(i, x)
    BY <1>15
  <2>2. PICK x \in Items(i) : y = Row(i, x)
    BY <2>1
  <2>3. g[y] = Timed(i, x) /\ TimedItem(x)
    BY <1>4, <1>16, <2>2
  <2> HIDE DEF g
  <2> QED
    BY <1>7, <2>2, <2>3 DEF TimedItem
<1> HIDE DEF f, g
<1>19. IsFiniteSet(R) /\ IsFiniteSet(Y)
  <2>1. f \in Injection(R, M) /\ g \in Injection(Y, T)
    BY <1>12, <1>17 DEF Bijection
  <2> QED
    BY <1>1, <2>1, FS_Injection
<1>20. Local(b.id, R, Y) = Local(b.id, M, T)
  <2>1. \E p \in Bijection(R, M) : \A x \in R :
             /\ p[x].passed = x.passed /\ p[x].total = x.total /\ p[x].incomplete = x.incomplete
             /\ p[x].manual_review = x.manual_review
             /\ p[x].infrastructure_errors = x.infrastructure_errors
    BY <1>12, <1>13
  <2>2. \E p \in Bijection(Y, T) : \A y \in Y : p[y].wall = y.wall /\ p[y].tokens = y.tokens
    BY <1>17, <1>18
  <2>3. \A y \in Y : TimedItem(y)
    BY <1>18
  <2> QED
    BY <1>1, <1>14, <1>19, <2>1, <2>2, <2>3, LocalCarried
<1> QED
  BY <1>1, <1>20 DEF R, Y

\* The groups, by the runs of the bundles.
LEMMA KeysOfRuns ==
    ASSUME NEW S, \A b \in S : WellFormed(b)
    PROVE  /\ \A key \in GroupKeys(S) : \E b \in S : \E i \in DOMAIN b.models :
                \E q \in DOMAIN b.models[i].rounds : key = <<q, b.packs[q], ConfigurationOf(b, i)>>
           /\ \A b \in S : \A i \in DOMAIN b.models : \A q \in DOMAIN b.models[i].rounds :
                <<q, b.packs[q], ConfigurationOf(b, i)>> \in GroupKeys(S)
<1>1. ASSUME NEW key \in GroupKeys(S)
      PROVE  \E b \in S : \E i \in DOMAIN b.models : \E q \in DOMAIN b.models[i].rounds :
               key = <<q, b.packs[q], ConfigurationOf(b, i)>>
  <2>1. PICK b \in S : \E x \in RunsOf(b) : key = <<x[2], b.packs[x[2]], ConfigurationOf(b, x[1])>>
    BY DEF GroupKeys
  <2>2. PICK x \in RunsOf(b) : key = <<x[2], b.packs[x[2]], ConfigurationOf(b, x[1])>>
    BY <2>1
  <2>3. x[1] \in DOMAIN b.models /\ x[2] \in DOMAIN b.models[x[1]].rounds
    BY RunsOfPairs
  <2> QED
    BY <2>2, <2>3
<1>2. ASSUME NEW b \in S, NEW i \in DOMAIN b.models, NEW q \in DOMAIN b.models[i].rounds
      PROVE  <<q, b.packs[q], ConfigurationOf(b, i)>> \in GroupKeys(S)
  <2> DEFINE x == <<i, q>>
  <2>1. x \in RunsOf(b) /\ x[1] = i /\ x[2] = q
    BY RunsOfPairs
  <2> HIDE DEF x
  <2>2. <<x[2], b.packs[x[2]], ConfigurationOf(b, x[1])>> \in GroupKeys(S)
    BY <2>1 DEF GroupKeys
  <2> QED
    BY <2>1, <2>2
<1> QED
  BY <1>1, <1>2

\* aggregate_database answers from the rows what aggregate_submissions answers from the
\* bundles.
LEMMA AggregatesAgree ==
    ASSUME NEW S, IsFiniteSet(S), Distinct(S), \A b \in S : Stored(b)
    PROVE  aggregate_database(normalize_submissions(S)) = aggregate_submissions(S)
<1> DEFINE table == normalize_submissions(S)
           Keys == {<<r.round, r.pack, r.configuration>> : r \in table.runs}
           BundlesIn(key) == {u \in {r.bundle : r \in table.runs} : RunsIn(table, key, u) # {}}
           L(key, u) == Local(u, RunsIn(table, key, u), ItemsIn(table, RunsIn(table, key, u)))
           D(key) == {L(key, u) : u \in BundlesIn(key)}
<1>1. \A b \in S : WellFormed(b)
  BY DEF Stored
<1>2. aggregate_database(table) = {GroupRow(key, D(key)) : key \in Keys}
  BY DEF aggregate_database, RunsIn, ItemsIn
<1>3. aggregate_submissions(S) = {GroupRow(key, LocalsOf(S, key)) : key \in GroupKeys(S)}
  BY DEF aggregate_submissions, LocalsOf
<1>4. /\ \A r \in table.runs : \E b \in S : \E i \in DOMAIN b.models :
           \E q \in DOMAIN b.models[i].rounds : r = BenchmarkRun(b, i, q)
      /\ \A b \in S : \A i \in DOMAIN b.models : \A q \in DOMAIN b.models[i].rounds :
           BenchmarkRun(b, i, q) \in table.runs
  BY <1>1, RowsOfSubmissions
<1>5. Keys = GroupKeys(S)
  <2>1. ASSUME NEW key \in Keys PROVE key \in GroupKeys(S)
    <3>1. PICK r \in table.runs : key = <<r.round, r.pack, r.configuration>>
      OBVIOUS
    <3>2. PICK b \in S : \E i \in DOMAIN b.models : \E q \in DOMAIN b.models[i].rounds :
                 r = BenchmarkRun(b, i, q)
      BY <1>4
    <3>3. PICK i \in DOMAIN b.models : \E q \in DOMAIN b.models[i].rounds : r = BenchmarkRun(b, i, q)
      BY <3>2
    <3>4. PICK q \in DOMAIN b.models[i].rounds : r = BenchmarkRun(b, i, q)
      BY <3>3
    <3>5. r.round = q /\ r.pack = b.packs[q] /\ r.configuration = ConfigurationOf(b, i)
      BY <3>4, RunFields
    <3>6. <<q, b.packs[q], ConfigurationOf(b, i)>> \in GroupKeys(S)
      BY <1>1, KeysOfRuns
    <3> QED
      BY <3>1, <3>5, <3>6
  <2>2. ASSUME NEW key \in GroupKeys(S) PROVE key \in Keys
    <3>1. PICK b \in S : \E i \in DOMAIN b.models : \E q \in DOMAIN b.models[i].rounds :
                 key = <<q, b.packs[q], ConfigurationOf(b, i)>>
      BY <1>1, KeysOfRuns
    <3>2. PICK i \in DOMAIN b.models : \E q \in DOMAIN b.models[i].rounds :
                 key = <<q, b.packs[q], ConfigurationOf(b, i)>>
      BY <3>1
    <3>3. PICK q \in DOMAIN b.models[i].rounds : key = <<q, b.packs[q], ConfigurationOf(b, i)>>
      BY <3>2
    <3> DEFINE r == BenchmarkRun(b, i, q)
    <3>4. r \in table.runs
      BY <1>4
    <3>5. r.round = q /\ r.pack = b.packs[q] /\ r.configuration = ConfigurationOf(b, i)
      BY RunFields
    <3> HIDE DEF r
    <3> QED
      BY <3>3, <3>4, <3>5
  <2> HIDE DEF Keys
  <2> QED
    BY <2>1, <2>2
<1>6. ASSUME NEW key \in GroupKeys(S), NEW b \in S
      PROVE  RunsIn(table, key, b.id) = GroupRuns(b, key) /\ L(key, b.id) = BundleLocal(b, key)
  <2>1. key = <<key[1], key[2], key[3]>>
    BY <1>1, KeysAreFinite
  <2>2. RunsIn(table, key, b.id) = GroupRuns(b, key)
    BY <1>1, <2>1, RunsOfGroup
  <2>3. ItemsIn(table, GroupRuns(b, key)) = GroupItems(b, key)
    BY <1>1, ItemsOfGroup
  <2>4. Local(b.id, GroupRuns(b, key), GroupItems(b, key)) = BundleLocal(b, key)
    BY DatabaseLocal
  <2> HIDE DEF table
  <2> QED
    BY <2>2, <2>3, <2>4
<1>7. ASSUME NEW key \in GroupKeys(S)
      PROVE  D(key) = LocalsOf(S, key)
  <2>1. \A b \in S : GroupRuns(b, key) # {} <=> GroupModels(b, key) # {}
    BY DEF GroupRuns
  <2>2. ASSUME NEW u \in BundlesIn(key) PROVE L(key, u) \in LocalsOf(S, key)
    <3>1. PICK r \in table.runs : u = r.bundle
      OBVIOUS
    <3>2. PICK b \in S : \E i \in DOMAIN b.models : \E q \in DOMAIN b.models[i].rounds :
                 r = BenchmarkRun(b, i, q)
      BY <1>4
    <3>3. r.bundle = b.id
      BY <3>2, RunFields
    <3>4. RunsIn(table, key, b.id) # {}
      BY <3>1, <3>3
    <3> HIDE DEF table, L
    <3>5. GroupModels(b, key) # {}
      BY <1>6, <2>1, <3>4
    <3> QED
      BY <1>6, <3>1, <3>3, <3>5 DEF LocalsOf
  <2>3. ASSUME NEW b \in S, GroupModels(b, key) # {} PROVE BundleLocal(b, key) \in D(key)
    <3>1. RunsIn(table, key, b.id) # {}
      BY <1>6, <2>1, <2>3
    <3>2. PICK r \in table.runs : r.bundle = b.id
      BY <3>1 DEF RunsIn
    <3>3. b.id \in BundlesIn(key)
      BY <3>1, <3>2
    <3>4. L(key, b.id) \in D(key)
      <4> HIDE DEF L, BundlesIn
      <4> QED
        BY <3>3
    <3> QED
      BY <1>6, <3>4
  <2>4. \A l \in LocalsOf(S, key) : \E b \in S : GroupModels(b, key) # {} /\ l = BundleLocal(b, key)
    BY DEF LocalsOf
  <2>5. \A l \in D(key) : \E u \in BundlesIn(key) : l = L(key, u)
    OBVIOUS
  <2> HIDE DEF D, BundlesIn, L
  <2> QED
    BY <2>2, <2>3, <2>4, <2>5
<1> HIDE DEF D, Keys, table
<1> QED
  BY <1>2, <1>3, <1>5, <1>7 DEF table

\* paired_database_observations reads from the rows the observations that
\* bundle_observations reads from the bundles.
LEMMA ObservationsAgree ==
    ASSUME NEW S, IsFiniteSet(S), Distinct(S), \A b \in S : Stored(b)
    PROVE  paired_database_observations(normalize_submissions(S)) = bundle_observations(S)
<1> DEFINE table == normalize_submissions(S)
           Key(r) == <<r.round, r.pack, r.configuration>>
           Serving(c) == (CHOOSE x \in table.configurations : x.configuration_id = c).serving
           L(r) == Local(r.bundle, RunsIn(table, Key(r), r.bundle),
                         ItemsIn(table, RunsIn(table, Key(r), r.bundle)))
           Stored1(r) == [bundle |-> r.bundle, key |-> Key(r), serving |-> Serving(r.configuration),
                          metrics |-> PairedMetrics(L(r))]
           Read(b, key) == [bundle |-> b.id, key |-> key, serving |-> key[3].serving,
                            metrics |-> PairedMetrics(BundleLocal(b, key))]
<1>1. \A b \in S : WellFormed(b)
  BY DEF Stored
<1>2. paired_database_observations(table) = {Stored1(r) : r \in table.runs}
  BY DEF paired_database_observations, RunsIn, ItemsIn
<1>3. bundle_observations(S) = UNION {{Read(b, key) : key \in GroupKeys({b})} : b \in S}
  BY DEF bundle_observations
<1>4. /\ \A r \in table.runs : \E b \in S : \E i \in DOMAIN b.models :
           \E q \in DOMAIN b.models[i].rounds : r = BenchmarkRun(b, i, q)
      /\ \A b \in S : \A i \in DOMAIN b.models : \A q \in DOMAIN b.models[i].rounds :
           BenchmarkRun(b, i, q) \in table.runs
  BY <1>1, RowsOfSubmissions
<1>5. ASSUME NEW b \in S, NEW i \in DOMAIN b.models
      PROVE  Serving(ConfigurationOf(b, i)) = ConfigurationOf(b, i).serving
  <2> DEFINE c == ConfigurationOf(b, i)
  <2>1. table.configurations = UNION {{ConfigurationRow(d, j) : j \in DOMAIN d.models} : d \in S}
    BY DEF normalize_submissions
  <2>2. ConfigurationRow(b, i) \in table.configurations /\ ConfigurationRow(b, i).configuration_id = c
    BY <2>1 DEF ConfigurationRow
  <2>3. \A x \in table.configurations : x.configuration_id.serving = x.serving
    <3>1. \A d \in S : \A j \in DOMAIN d.models :
            ConfigurationRow(d, j).configuration_id.serving = ConfigurationRow(d, j).serving
      BY DEF ConfigurationRow, ConfigurationOf, configuration_id
    <3> QED
      BY <2>1, <3>1
  <2> DEFINE x == CHOOSE x \in table.configurations : x.configuration_id = c
  <2> HIDE DEF table
  <2>4. x \in table.configurations /\ x.configuration_id = c
    BY <2>2
  <2> QED
    BY <2>3, <2>4
<1>6. ASSUME NEW b \in S, NEW i \in DOMAIN b.models, NEW q \in DOMAIN b.models[i].rounds
      PROVE  /\ Stored1(BenchmarkRun(b, i, q)) = Read(b, <<q, b.packs[q], ConfigurationOf(b, i)>>)
             /\ <<q, b.packs[q], ConfigurationOf(b, i)>> \in GroupKeys({b})
  <2> DEFINE r == BenchmarkRun(b, i, q)
             key == <<q, b.packs[q], ConfigurationOf(b, i)>>
  <2>1. /\ r.bundle = b.id /\ r.round = q /\ r.pack = b.packs[q]
        /\ r.configuration = ConfigurationOf(b, i)
    BY RunFields
  <2>2. key = <<key[1], key[2], key[3]>> /\ key[3] = ConfigurationOf(b, i)
    OBVIOUS
  <2>3. Key(r) = key
    <3> HIDE DEF r
    <3> QED
      BY <2>1
  <2>4. key \in GroupKeys({b})
    <3>1. \A c \in {b} : WellFormed(c)
      BY <1>1
    <3> QED
      BY <3>1, KeysOfRuns
  <2> HIDE DEF r, key, table
  <2>5. RunsIn(table, key, b.id) = GroupRuns(b, key)
    BY <1>1, <2>2, RunsOfGroup DEF table
  <2>6. ItemsIn(table, GroupRuns(b, key)) = GroupItems(b, key)
    BY <1>1, ItemsOfGroup DEF table
  <2>7. Local(b.id, GroupRuns(b, key), GroupItems(b, key)) = BundleLocal(b, key)
    BY DatabaseLocal
  <2>8. L(r) = BundleLocal(b, key)
    <3> HIDE DEF Key
    <3> QED
      BY <2>1, <2>3, <2>5, <2>6, <2>7
  <2>9. Serving(r.configuration) = key[3].serving
    <3> HIDE DEF Serving
    <3> QED
      BY <1>5, <2>1, <2>2
  <2>10. Stored1(r) = Read(b, key)
    <3> HIDE DEF L, Serving, Key
    <3> QED
      BY <2>1, <2>3, <2>8, <2>9
  <2> QED
    BY <2>4, <2>10 DEF r, key
<1> HIDE DEF Stored1, Read, table
<1>7. ASSUME NEW r \in table.runs
      PROVE  \E b \in S : \E key \in GroupKeys({b}) : Stored1(r) = Read(b, key)
  <2>1. PICK b \in S : \E i \in DOMAIN b.models : \E q \in DOMAIN b.models[i].rounds :
               r = BenchmarkRun(b, i, q)
    BY <1>4
  <2>2. PICK i \in DOMAIN b.models : \E q \in DOMAIN b.models[i].rounds : r = BenchmarkRun(b, i, q)
    BY <2>1
  <2>3. PICK q \in DOMAIN b.models[i].rounds : r = BenchmarkRun(b, i, q)
    BY <2>2
  <2> QED
    BY <1>6, <2>3
<1>8. ASSUME NEW b \in S, NEW key \in GroupKeys({b})
      PROVE  \E r \in table.runs : Stored1(r) = Read(b, key)
  <2>1. \A c \in {b} : WellFormed(c)
    BY <1>1
  <2>2. \E c \in {b} : \E i \in DOMAIN c.models : \E q \in DOMAIN c.models[i].rounds :
               key = <<q, c.packs[q], ConfigurationOf(c, i)>>
    BY <2>1, KeysOfRuns
  <2>3. PICK i \in DOMAIN b.models : \E q \in DOMAIN b.models[i].rounds :
               key = <<q, b.packs[q], ConfigurationOf(b, i)>>
    BY <2>2
  <2>4. PICK q \in DOMAIN b.models[i].rounds : key = <<q, b.packs[q], ConfigurationOf(b, i)>>
    BY <2>3
  <2> QED
    BY <1>4, <1>6, <2>4
<1>9. \A y \in bundle_observations(S) : \E b \in S : \E key \in GroupKeys({b}) : y = Read(b, key)
  BY <1>3
<1>10. \A b \in S : \A key \in GroupKeys({b}) : Read(b, key) \in bundle_observations(S)
  BY <1>3
<1>11. ASSUME NEW y \in paired_database_observations(table) PROVE y \in bundle_observations(S)
  <2>1. PICK r \in table.runs : y = Stored1(r)
    BY <1>2
  <2> QED
    BY <1>7, <1>10, <2>1
<1>12. ASSUME NEW y \in bundle_observations(S) PROVE y \in paired_database_observations(table)
  <2>1. PICK b \in S : \E key \in GroupKeys({b}) : y = Read(b, key)
    BY <1>9
  <2>2. \E r \in table.runs : y = Stored1(r)
    BY <1>8, <2>1
  <2> QED
    BY <1>2, <2>2
<1>13. paired_database_observations(table) = bundle_observations(S)
  BY <1>11, <1>12
<1> QED
  BY <1>13 DEF table

\* _validate_relational_semantics accepts what normalize_submissions wrote.
LEMMA SchemaAccepts ==
    ASSUME NEW S, Distinct(S), \A b \in S : Stored(b)
    PROVE  SchemaHolds(normalize_submissions(S))
<1> DEFINE table == normalize_submissions(S)
<1>1. \A b \in S : WellFormed(b)
  BY DEF Stored
<1>2. /\ \A r \in table.runs : \E b \in S : \E i \in DOMAIN b.models :
           \E q \in DOMAIN b.models[i].rounds : r = BenchmarkRun(b, i, q)
      /\ \A y \in table.items : \E b \in S : \E i \in DOMAIN b.models :
           \E q \in DOMAIN b.models[i].rounds : y \in ItemObservations(b, i, q)
      /\ \A t \in table.tasks : \E b \in S : \E i \in DOMAIN b.models :
           \E q \in DOMAIN b.models[i].rounds : t \in TaskObservations(b, i, q)
  BY <1>1, RowsOfSubmissions
<1>3. /\ table.bundles = {[bundle |-> b.id, schema |-> b.schema, os |-> b.env] : b \in S}
      /\ table.configurations = UNION {{ConfigurationRow(b, i) : i \in DOMAIN b.models} : b \in S}
  BY DEF normalize_submissions
<1> HIDE DEF table
<1>4. \A x, y \in table.bundles : x.bundle = y.bundle => x = y
  BY <1>3 DEF Distinct
<1>5. ASSUME NEW x \in table.configurations, NEW y \in table.configurations,
             x.configuration_id = y.configuration_id
      PROVE  x = y
  <2>1. ASSUME NEW b \in S, NEW i \in DOMAIN b.models
        PROVE  LET c == ConfigurationRow(b, i).configuration_id
               IN ConfigurationRow(b, i) = [configuration_id |-> c, name |-> c.name, os |-> c.runner,
                                            serving |-> c.serving, scaffold |-> c.scaffold,
                                            memory |-> c.memory]
    BY DEF ConfigurationRow, ConfigurationOf, configuration_id
  <2>2. \A z \in table.configurations :
          z = [configuration_id |-> z.configuration_id, name |-> z.configuration_id.name,
               os |-> z.configuration_id.runner, serving |-> z.configuration_id.serving,
               scaffold |-> z.configuration_id.scaffold, memory |-> z.configuration_id.memory]
    BY <1>3, <2>1
  <2> QED
    BY <1>5, <2>2
<1>6. ASSUME NEW x \in table.runs, NEW y \in table.runs,
             x.bundle = y.bundle, x.ordinal = y.ordinal, x.round = y.round
      PROVE  x = y
  <2>1. PICK b \in S : \E i, q : x = BenchmarkRun(b, i, q)
    BY <1>2
  <2>2. PICK i, q : x = BenchmarkRun(b, i, q)
    BY <2>1
  <2>3. PICK c \in S : \E j, p : y = BenchmarkRun(c, j, p)
    BY <1>2
  <2>4. PICK j, p : y = BenchmarkRun(c, j, p)
    BY <2>3
  <2>5. b.id = c.id /\ i = j /\ q = p
    BY <1>6, <2>2, <2>4, RunFields
  <2> QED
    BY <2>2, <2>4, <2>5 DEF Distinct
<1>7. ASSUME NEW x \in table.runs, NEW y \in table.runs, x.run_id = y.run_id
      PROVE  x = y
  <2>1. PICK b \in S : \E i, q : x = BenchmarkRun(b, i, q)
    BY <1>2
  <2>2. PICK i, q : x = BenchmarkRun(b, i, q)
    BY <2>1
  <2>3. PICK c \in S : \E j, p : y = BenchmarkRun(c, j, p)
    BY <1>2
  <2>4. PICK j, p : y = BenchmarkRun(c, j, p)
    BY <2>3
  <2>5. /\ x.run_id = <<b.id, ConfigurationOf(b, i), i, q, b.packs[q]>>
        /\ y.run_id = <<c.id, ConfigurationOf(c, j), j, p, c.packs[p]>>
    BY <2>2, <2>4, RunFields
  <2>6. b.id = c.id /\ i = j /\ q = p
    <3>1. x.run_id[1] = b.id /\ x.run_id[3] = i /\ x.run_id[4] = q
      BY <2>5
    <3>2. y.run_id[1] = c.id /\ y.run_id[3] = j /\ y.run_id[4] = p
      BY <2>5
    <3> QED
      BY <1>7, <3>1, <3>2
  <2> QED
    BY <2>2, <2>4, <2>6 DEF Distinct
<1>8. ASSUME NEW x \in table.items, NEW y \in table.items,
             x.run_id = y.run_id, x.item = y.item, x.attempt = y.attempt
      PROVE  x = y
  <2>1. PICK b \in S : \E i \in DOMAIN b.models : \E q \in DOMAIN b.models[i].rounds :
               x \in ItemObservations(b, i, q)
    BY <1>2
  <2>2. PICK i \in DOMAIN b.models : \E q \in DOMAIN b.models[i].rounds : x \in ItemObservations(b, i, q)
    BY <2>1
  <2>3. PICK q \in DOMAIN b.models[i].rounds : x \in ItemObservations(b, i, q)
    BY <2>2
  <2>4. PICK c \in S : \E j \in DOMAIN c.models : \E p \in DOMAIN c.models[j].rounds :
               y \in ItemObservations(c, j, p)
    BY <1>2
  <2>5. PICK j \in DOMAIN c.models : \E p \in DOMAIN c.models[j].rounds : y \in ItemObservations(c, j, p)
    BY <2>4
  <2>6. PICK p \in DOMAIN c.models[j].rounds : y \in ItemObservations(c, j, p)
    BY <2>5
  <2>7. /\ x.run_id = <<b.id, ConfigurationOf(b, i), i, q, b.packs[q]>>
        /\ y.run_id = <<c.id, ConfigurationOf(c, j), j, p, c.packs[p]>>
    BY <2>3, <2>6, OutcomeFields
  <2>8. b.id = c.id /\ j = i /\ p = q
    <3>1. x.run_id[1] = b.id /\ x.run_id[3] = i /\ x.run_id[4] = q
      BY <2>7
    <3>2. y.run_id[1] = c.id /\ y.run_id[3] = j /\ y.run_id[4] = p
      BY <2>7
    <3> QED
      BY <1>8, <3>1, <3>2
  <2>9. c = b
    BY <2>8 DEF Distinct
  <2> DEFINE D == b.models[i].rounds[q].items
             Row(u) == [run_id |-> <<b.id, ConfigurationOf(b, i), i, q, b.packs[q]>>, item |-> u.item,
                        attempt |-> u.attempt, status |-> u.status, wall |-> u.wall, tokens |-> u.tokens]
  <2>10. PICK u \in D : x = Row(u)
    BY <2>3, OutcomeFields
  <2>11. PICK v \in D : y = Row(v)
    BY <2>6, <2>8, <2>9, OutcomeFields
  <2>12. u.item = v.item /\ u.attempt = v.attempt
    BY <1>8, <2>10, <2>11
  <2>13. \A s, t \in D : s.item = t.item /\ s.attempt = t.attempt => s = t
    BY DEF Stored
  <2> QED
    BY <2>10, <2>11, <2>12, <2>13
<1>9. ASSUME NEW x \in table.tasks, NEW y \in table.tasks,
             x.run_id = y.run_id, x.ordinal = y.ordinal
      PROVE  x = y
  <2>1. PICK b \in S : \E i, q : x \in TaskObservations(b, i, q)
    BY <1>2
  <2>2. PICK i, q : x \in TaskObservations(b, i, q)
    BY <2>1
  <2>3. PICK c \in S : \E j, p : y \in TaskObservations(c, j, p)
    BY <1>2
  <2>4. PICK j, p : y \in TaskObservations(c, j, p)
    BY <2>3
  <2>5. /\ x.run_id = <<b.id, ConfigurationOf(b, i), i, q, b.packs[q]>>
        /\ y.run_id = <<c.id, ConfigurationOf(c, j), j, p, c.packs[p]>>
    BY <2>2, <2>4, TaskFields
  <2>6. b.id = c.id /\ j = i /\ p = q
    <3>1. x.run_id[1] = b.id /\ x.run_id[3] = i /\ x.run_id[4] = q
      BY <2>5
    <3>2. y.run_id[1] = c.id /\ y.run_id[3] = j /\ y.run_id[4] = p
      BY <2>5
    <3> QED
      BY <1>9, <3>1, <3>2
  <2>7. c = b
    BY <2>6 DEF Distinct
  <2>8. x = TaskRowOf(b, i, q, x.ordinal)
    BY <2>2, TaskFields
  <2>9. y = TaskRowOf(b, i, q, y.ordinal)
    BY <2>4, <2>6, <2>7, TaskFields
  <2> QED
    BY <1>9, <2>8, <2>9
<1>10. ASSUME NEW x \in table.tasks, NEW y \in table.tasks, x.observation_id = y.observation_id
       PROVE  x = y
  <2>1. \A t \in table.tasks : t.observation_id = <<t.run_id, t.ordinal, t.task, t.attempt>>
    BY <1>2, TaskFields
  <2>3. /\ x.observation_id[1] = x.run_id /\ x.observation_id[2] = x.ordinal
        /\ y.observation_id[1] = y.run_id /\ y.observation_id[2] = y.ordinal
    <3>1. \A p1, p2, p3, p4 : <<p1, p2, p3, p4>>[1] = p1 /\ <<p1, p2, p3, p4>>[2] = p2
      OBVIOUS
    <3> QED
      BY <2>1, <3>1
  <2>2. x.run_id = y.run_id /\ x.ordinal = y.ordinal
    BY <1>10, <2>3
  <2> QED
    BY <1>9, <2>2
<1> QED
  BY <1>4, <1>5, <1>6, <1>7, <1>8, <1>9, <1>10 DEF SchemaHolds, table

\* What normalize_submissions stores passes the semantic checks of the loader exactly when
\* the task rows are numbered.
LEMMA RowsAreValid ==
    ASSUME NEW S, \A b \in S : Stored(b)
    PROVE  RelationalSemantics(normalize_submissions(S)) <=> \A b \in S : NumbersTasks(b)
<1> DEFINE table == normalize_submissions(S)
<1>1. \A b \in S : WellFormed(b)
  BY DEF Stored
<1>2. /\ \A r \in table.runs : \E b \in S : \E i \in DOMAIN b.models :
           \E q \in DOMAIN b.models[i].rounds : r = BenchmarkRun(b, i, q)
      /\ \A b \in S : \A i \in DOMAIN b.models : \A q \in DOMAIN b.models[i].rounds :
           BenchmarkRun(b, i, q) \in table.runs
      /\ \A y \in table.items : \E b \in S : \E i \in DOMAIN b.models :
           \E q \in DOMAIN b.models[i].rounds : y \in ItemObservations(b, i, q)
      /\ \A t \in table.tasks : \E b \in S : \E i \in DOMAIN b.models :
           \E q \in DOMAIN b.models[i].rounds : t \in TaskObservations(b, i, q)
      /\ \A b \in S : \A i \in DOMAIN b.models : \A q \in DOMAIN b.models[i].rounds :
           TaskObservations(b, i, q) \subseteq table.tasks
  BY <1>1, RowsOfSubmissions
<1>3. /\ table.bundles = {[bundle |-> b.id, schema |-> b.schema, os |-> b.env] : b \in S}
      /\ table.configurations = UNION {{ConfigurationRow(b, i) : i \in DOMAIN b.models} : b \in S}
  BY DEF normalize_submissions
<1> HIDE DEF table
<1>4. \A b \in table.bundles : b.schema \in 1..4
  BY <1>3 DEF Stored
<1>5. ASSUME NEW b \in S, NEW i \in DOMAIN b.models
      PROVE  ValidConfigurationRow(ConfigurationRow(b, i))
  <2> DEFINE c == ConfigurationRow(b, i)
  <2>1. /\ c.serving = normalized_serving_environment(b.schema, b.models[i])
        /\ c.scaffold = normalized_execution_scaffold(b.schema, b.models[i])
        /\ c.os = b.env /\ c.name = b.models[i].name /\ c.memory = b.models[i].memory
        /\ c.configuration_id = configuration_id(b.schema, b.env, b.models[i])
    BY DEF ConfigurationRow, ConfigurationOf
  <2>2. ValidScaffold(c.scaffold) /\ ValidServing(c.serving, c.os)
    BY <2>1 DEF Stored
  <2> HIDE DEF c
  <2>3. configuration_id(4, c.os, c) = c.configuration_id
    BY <2>1 DEF configuration_id, normalized_serving_environment, normalized_execution_scaffold
  <2> QED
    BY <2>2, <2>3 DEF ValidConfigurationRow, c
<1>6. \A c \in table.configurations : ValidConfigurationRow(c)
  BY <1>3, <1>5
<1>7. ASSUME NEW r \in table.runs PROVE ValidRunRow(r, table)
  <2>1. PICK b \in S : \E i \in DOMAIN b.models : \E q \in DOMAIN b.models[i].rounds :
               r = BenchmarkRun(b, i, q)
    BY <1>2
  <2>2. PICK i \in DOMAIN b.models : \E q \in DOMAIN b.models[i].rounds : r = BenchmarkRun(b, i, q)
    BY <2>1
  <2>3. PICK q \in DOMAIN b.models[i].rounds : r = BenchmarkRun(b, i, q)
    BY <2>2
  <2> DEFINE d == [bundle |-> b.id, schema |-> b.schema, os |-> b.env]
             c == ConfigurationRow(b, i)
  <2>4. d \in table.bundles /\ c \in table.configurations
    BY <1>3
  <2>5. /\ d.bundle = b.id /\ d.os = b.env /\ c.os = b.env
        /\ c.configuration_id = ConfigurationOf(b, i)
    BY DEF ConfigurationRow
  <2>6. /\ r.bundle = b.id /\ r.configuration = ConfigurationOf(b, i)
        /\ r.run_id = <<r.bundle, r.configuration, r.ordinal, r.round, r.pack>>
    BY <2>3, RunFields
  <2> HIDE DEF d, c
  <2> QED
    BY <2>4, <2>5, <2>6 DEF ValidRunRow
<1>8. ASSUME NEW y \in table.items PROVE ValidItemRow(y, table)
  <2>1. PICK b \in S : \E i \in DOMAIN b.models : \E q \in DOMAIN b.models[i].rounds :
               y \in ItemObservations(b, i, q)
    BY <1>2
  <2>2. PICK i \in DOMAIN b.models : \E q \in DOMAIN b.models[i].rounds : y \in ItemObservations(b, i, q)
    BY <2>1
  <2>3. PICK q \in DOMAIN b.models[i].rounds : y \in ItemObservations(b, i, q)
    BY <2>2
  <2>4. y.run_id = BenchmarkRun(b, i, q).run_id
    BY <2>3, OutcomeFields, RunFields
  <2>5. BenchmarkRun(b, i, q) \in table.runs
    BY <1>2
  <2>6. PICK x \in b.models[i].rounds[q].items :
          /\ y.attempt = x.attempt /\ y.status = x.status /\ y.wall = x.wall /\ y.tokens = x.tokens
    BY <2>3, OutcomeFields
  <2>7. x.attempt >= 1 /\ x.status \in PUBLIC_ITEM_STATUSES
    BY DEF Stored
  <2>8. TimedItem(x)
    BY <1>1 DEF WellFormed
  <2> QED
    BY <2>4, <2>5, <2>6, <2>7, <2>8 DEF ValidItemRow, TimedItem
<1>9. ASSUME \A b \in S : NumbersTasks(b), NEW t \in table.tasks PROVE ValidTaskRow(t, table)
  <2>1. PICK b \in S : \E i \in DOMAIN b.models : \E q \in DOMAIN b.models[i].rounds :
               t \in TaskObservations(b, i, q)
    BY <1>2
  <2>2. PICK i \in DOMAIN b.models : \E q \in DOMAIN b.models[i].rounds : t \in TaskObservations(b, i, q)
    BY <2>1
  <2>3. PICK q \in DOMAIN b.models[i].rounds : t \in TaskObservations(b, i, q)
    BY <2>2
  <2>4. t.run_id = BenchmarkRun(b, i, q).run_id /\ BenchmarkRun(b, i, q) \in table.runs
    BY <1>2, <2>3, TaskFields, RunFields
  <2> DEFINE u == b.models[i].rounds[q].tasks[t.ordinal]
  <2>5. /\ t.ordinal \in DOMAIN b.models[i].rounds[q].tasks
        /\ t.attempt = u.attempt /\ t.tokens = u.tokens /\ t.score = u.score
        /\ t.ready = OptionalBoolean(u.ready)
    BY <2>3, TaskFields
  <2>6. ValidTask(u)
    BY <2>5 DEF Stored
  <2>7. /\ u.attempt # None => u.attempt.int /\ u.attempt.value > 0
        /\ u.tokens # None => u.tokens.int
    BY <1>9, <2>5 DEF NumbersTasks
  <2>8. t.observation_id = <<t.run_id, t.ordinal, t.task, t.attempt>>
    BY <2>3, TaskFields
  <2> HIDE DEF u
  <2>9. OptionalBoolean(u.ready) \in {None, 0, 1}
    BY DEF OptionalBoolean
  <2>10. /\ u.attempt # None => u.attempt.int /\ u.attempt.value >= 1
         /\ u.tokens # None => u.tokens.int /\ u.tokens.value >= 0
         /\ u.score # None => u.score \in Nat
    BY <2>6, <2>7 DEF ValidTask
  <2>11. /\ t.attempt # None => t.attempt.int /\ t.attempt.value >= 1
         /\ t.tokens # None => t.tokens.int /\ t.tokens.value >= 0
         /\ t.score # None => t.score \in Nat
         /\ t.ready \in {None, 0, 1}
    BY <2>5, <2>9, <2>10
  <2>12. \E r \in table.runs : r.run_id = t.run_id
    BY <2>4
  <2> QED
    BY <2>8, <2>11, <2>12 DEF ValidTaskRow
<1>10. ASSUME \A t \in table.tasks : ValidTaskRow(t, table), NEW b \in S PROVE NumbersTasks(b)
  <2> SUFFICES ASSUME NEW i \in DOMAIN b.models, NEW q \in DOMAIN b.models[i].rounds,
                      NEW k \in DOMAIN b.models[i].rounds[q].tasks
               PROVE  LET u == b.models[i].rounds[q].tasks[k]
                      IN /\ u.attempt # None => u.attempt.int /\ u.attempt.value > 0
                         /\ u.tokens # None => u.tokens.int
    BY DEF NumbersTasks
  <2> DEFINE u == b.models[i].rounds[q].tasks[k]
             t == [observation_id |-> <<RunId(b, i, q), k, u.task, u.attempt>>,
                   run_id |-> RunId(b, i, q), ordinal |-> k, task |-> u.task,
                   attempt |-> u.attempt, tokens |-> u.tokens, score |-> u.score,
                   ready |-> OptionalBoolean(u.ready)]
  <2>1. t \in TaskObservations(b, i, q)
    BY DEF TaskObservations
  <2>2. ValidTaskRow(t, table)
    <3> HIDE DEF t
    <3> QED
      BY <1>2, <1>10, <2>1
  <2>3. t.attempt = u.attempt /\ t.tokens = u.tokens
    OBVIOUS
  <2>4. ValidTask(u)
    BY DEF Stored
  <2> HIDE DEF t, u
  <2>5. /\ u.attempt # None => u.attempt.int /\ u.attempt.value >= 1 /\ u.attempt.value \in Nat
        /\ u.tokens # None => u.tokens.int
    BY <2>2, <2>3, <2>4 DEF ValidTaskRow, ValidTask
  <2>6. /\ u.attempt # None => u.attempt.int /\ u.attempt.value > 0
        /\ u.tokens # None => u.tokens.int
    BY <2>5
  <2> QED
    BY <2>6 DEF u
<1> QED
  BY <1>4, <1>6, <1>7, <1>8, <1>9, <1>10 DEF RelationalSemantics, table

(***************************************************************************)
(* The inductive invariant of the commands: what the loader says of rows   *)
(* made from the bundles of today is whether their task rows are numbered, *)
(* only rows that it takes get to the output path, and only INDEX.md is    *)
(* written in place.                                                       *)
(***************************************************************************)
CommandIsSound ==
    /\ command \in [pc : {"idle", "rendered", "raised", "opened", "normalized", "filling",
                          "validated", "rejected"},
                    fresh : BOOLEAN, loadable : BOOLEAN]
    /\ command.pc = "validated" => command.loadable
    /\ command.pc = "rejected" => ~command.loadable
    /\ command.fresh /\ command.pc \in {"normalized", "filling", "validated", "rejected"} =>
         (command.loadable <=> TasksAreNumbered)

StoreInv == /\ RowsInv /\ CommandIsSound
            /\ database \in {"missing", "current", "stale"}
            /\ database = "current" => TasksAreNumbered

\* The accepted bundles are finitely many, distinct and can be stored.
LEMMA SubmissionsAreStored ==
    ASSUME RowsInv
    PROVE  /\ IsFiniteSet(Submissions) /\ Distinct(Submissions)
           /\ \A b \in Submissions : Stored(b)
<1>1. IsFiniteSet(directory) /\ directory \subseteq Kinds \X Nat
  BY DEF RowsInv, DirectoryIsFinite
<1>2. IsFiniteSet(Submissions)
  BY <1>1, SubmissionsAreWellFormed DEF Submissions
<1>3. Distinct(Submissions)
  BY DEF Distinct, Submissions, Bundles, Bundle
<1>4. \A x \in directory : x[1] \in Kinds
  BY <1>1
<1>5. \A x \in directory : Stored(Bundle(x))
  BY <1>4, BundleIsStored
<1>6. \A b \in Submissions : Stored(b)
  BY <1>5 DEF Submissions, Bundles
<1> QED
  BY <1>2, <1>3, <1>6

\* load_database accepts the database built from the accepted bundles exactly when
\* their task rows are numbered.
LEMMA LoaderAccepts == RowsInv => (load_database(DatabaseOf(Submissions)) <=> TasksAreNumbered)
<1> SUFFICES ASSUME RowsInv PROVE load_database(DatabaseOf(Submissions)) <=> TasksAreNumbered
  OBVIOUS
<1>1. SchemaHolds(normalize_submissions(Submissions))
  BY SubmissionsAreStored, SchemaAccepts
<1>2. RelationalSemantics(normalize_submissions(Submissions)) <=> TasksAreNumbered
  BY SubmissionsAreStored, RowsAreValid DEF TasksAreNumbered
<1> QED
  BY <1>1, <1>2 DEF load_database, DatabaseOf

\* No step moves a refused database to the output path or leaves a torn one there.
LEMMA StoreInvNext == StoreInv /\ [Next]_vars => StoreInv'
<1> SUFFICES ASSUME StoreInv, [Next]_vars PROVE StoreInv'
  OBVIOUS
<1>1. RowsInv /\ RowsInv' /\ CommandIsSound
  BY RowsInvNext DEF StoreInv
<1>0. directory' = directory => (TasksAreNumbered' <=> TasksAreNumbered)
  BY DEF TasksAreNumbered, Submissions
<1>2. CASE \E k \in Kinds : Accept(k)
  <2>1. /\ database' \in {"missing", "stale"}
        /\ \/ command = Idle /\ command' = Idle
           \/ command' = [command EXCEPT !.fresh = FALSE]
    BY <1>2 DEF StoreInv, Accept, Aged
  <2>2. command \in [pc : {"idle", "rendered", "raised", "opened", "normalized", "filling",
                          "validated", "rejected"},
                    fresh : BOOLEAN, loadable : BOOLEAN]
    BY <1>1 DEF CommandIsSound
  <2>3. CASE command' = Idle
    BY <1>1, <2>1, <2>3 DEF StoreInv, CommandIsSound, Idle
  <2>4. CASE command' = [command EXCEPT !.fresh = FALSE]
    <3>1. /\ command'.pc = command.pc /\ command'.fresh = FALSE
          /\ command'.loadable = command.loadable
          /\ command' \in [pc : {"idle", "rendered", "raised", "opened", "normalized", "filling",
                                 "validated", "rejected"},
                           fresh : BOOLEAN, loadable : BOOLEAN]
      BY <2>2, <2>4
    <3> QED
      BY <1>1, <2>1, <3>1 DEF StoreInv, CommandIsSound
  <2> QED
    BY <2>1, <2>3, <2>4
<1>3. CASE RenderIndex
  BY <1>0, <1>1, <1>3 DEF StoreInv, CommandIsSound, RenderIndex, At
<1>4. CASE OpenIndex
  BY <1>0, <1>1, <1>4 DEF StoreInv, CommandIsSound, OpenIndex, At
<1>5. CASE WriteIndex
  BY <1>0, <1>1, <1>5 DEF StoreInv, CommandIsSound, WriteIndex, Done, Idle
<1>6. CASE NormalizeSubmissions
  <2>1. /\ command' = [command EXCEPT !.pc = "normalized", !.loadable = load_database(DatabaseOf(Submissions))]
        /\ directory' = directory /\ database' = database
    BY <1>6 DEF NormalizeSubmissions
  <2>2. load_database(DatabaseOf(Submissions)) <=> TasksAreNumbered
    BY <1>1, LoaderAccepts
  <2>3. load_database(DatabaseOf(Submissions)) \in BOOLEAN
    BY DEF load_database
  <2> HIDE DEF load_database
  <2>4. /\ command'.pc = "normalized" /\ command'.fresh = command.fresh
        /\ command'.loadable = load_database(DatabaseOf(Submissions))
        /\ command' \in [pc : {"normalized"}, fresh : BOOLEAN, loadable : BOOLEAN]
    BY <1>1, <2>1, <2>3 DEF CommandIsSound
  <2> QED
    BY <1>0, <1>1, <2>1, <2>2, <2>4 DEF StoreInv, CommandIsSound
<1>7. CASE FillTemporary
  BY <1>0, <1>1, <1>7 DEF StoreInv, CommandIsSound, FillTemporary, At
<1>8. CASE ValidateTemporary
  BY <1>0, <1>1, <1>8 DEF StoreInv, CommandIsSound, ValidateTemporary, At
<1>9. CASE ReplaceOutput
  BY <1>0, <1>1, <1>9 DEF StoreInv, CommandIsSound, ReplaceOutput, Built, Done, Idle
<1>10. CASE Abort
  BY <1>0, <1>1, <1>10 DEF StoreInv, CommandIsSound, Abort, Done, Idle
<1>11. CASE UNCHANGED vars
  BY <1>0, <1>1, <1>11 DEF StoreInv, CommandIsSound, vars
<1> QED
  BY <1>2, <1>3, <1>4, <1>5, <1>6, <1>7, <1>8, <1>9, <1>10, <1>11 DEF Next

\* The commands are always sound.
LEMMA StoreInvAlways == Spec => []StoreInv
<1>1. Init => StoreInv
  BY RowsInvInit DEF Init, StoreInv, CommandIsSound, Idle
<1> QED
  BY <1>1, StoreInvNext, PTL DEF Spec

\* A database that is current then agrees with the documents.
LEMMA DatabaseStep == StoreInv => DatabaseAgrees
<1> SUFFICES ASSUME StoreInv PROVE DatabaseAgrees
  OBVIOUS
<1>1. /\ command.fresh => /\ command.pc = "rejected" => ~TasksAreNumbered
                          /\ command.pc = "validated" => TasksAreNumbered
      /\ database # "torn" /\ (database = "current" => TasksAreNumbered)
  BY DEF StoreInv, CommandIsSound
<1>2. rows = aggregate_submissions(Submissions)
  BY DEF StoreInv, RowsInv, RowsAreCurrent
<1>3. aggregate_database(normalize_submissions(Submissions)) = aggregate_submissions(Submissions)
  BY SubmissionsAreStored, AggregatesAgree DEF StoreInv
<1>4. paired_database_observations(normalize_submissions(Submissions)) = bundle_observations(Submissions)
  BY SubmissionsAreStored, ObservationsAgree DEF StoreInv
<1> QED
  BY <1>1, <1>2, <1>3, <1>4 DEF DatabaseAgrees

\* build_database, aggregate_database: for every directory of accepted bundles, of any mix
\* of schemas, the database passes its own loader unless a task row counts attempts from 0
\* or gives attempts or tokens with a fraction, and then it does not; it is never found half
\* written, and answers both kinds of query as the JSON documents do.
THEOREM DatabaseAlwaysAgrees == Spec => []DatabaseAgrees
BY StoreInvAlways, DatabaseStep, PTL
=============================================================================
