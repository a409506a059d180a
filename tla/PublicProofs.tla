---------------------------- MODULE PublicProofs ----------------------------
(***************************************************************************)
(* Proofs about public bundles: what two separate commands conclude from   *)
(* them (Comparison) and how one is submitted (Submission).                *)
(***************************************************************************)
EXTENDS Comparison, Submission, SumTheorems

-----------------------------------------------------------------------------
(***************************************************************************)
(* Comparison: the audit and the test count alike.                         *)
(***************************************************************************)

\* The comparison tests the bundles that hold both observations.
LEMMA TestedBundles ==
    ASSUME NEW S, NEW q, NEW o
    PROVE  \A b : b \in DOMAIN effects(S, q, o) <=>
                    b \in S /\ Observed(b, q.left, o) /\ Observed(b, q.right, o)
BY DEF effects, Table

\* A set of two elements.
LEMMA TwoElements ==
    ASSUME NEW c, NEW d
    PROVE  Cardinality({c, d}) = 2 <=> c # d
<1>1. IsFiniteSet({c}) /\ Cardinality({c}) = 1
  BY FS_Singleton
<1>2. {c, d} = {c} \cup {d}
  OBVIOUS
<1>3. ASSUME c # d PROVE Cardinality({c} \cup {d}) = 2
  <2>1. d \notin {c}
    BY <1>3
  <2> QED
    BY <1>1, <2>1, FS_AddElement
<1>4. ASSUME c = d PROVE Cardinality({c} \cup {d}) = 1
  <2>1. {c} \cup {d} = {c}
    BY <1>4
  <2> QED
    BY <1>1, <2>1
<1> QED
  BY <1>2, <1>3, <1>4

\* Every objective of q is tested between c and d.
TestsAll(S, q, c, d) ==
    \A r \in objective_rows(S, [q EXCEPT !.left = c, !.right = d]) :
        Cardinality(DOMAIN r.effects) >= MIN_BASELINE_SUBMISSIONS

\* One objective is tested between the configurations of Q if enough bundles are shared.
LEMMA RowsOfObjectives ==
    ASSUME NEW S, NEW Q
    PROVE  (\A r \in objective_rows(S, Q) :
              Cardinality(DOMAIN r.effects) >= MIN_BASELINE_SUBMISSIONS) <=>
           \A o \in Q.objectives :
              Cardinality(DOMAIN effects(S, Q, o)) >= MIN_BASELINE_SUBMISSIONS
<1> DEFINE row(o) == [objective |-> o, effects |-> effects(S, Q, o)]
<1>1. objective_rows(S, Q) = {row(o) : o \in Q.objectives}
  BY DEF objective_rows
<1>2. \A o : row(o).effects = effects(S, Q, o)
  OBVIOUS
<1> HIDE DEF row
<1> QED
  BY <1>1, <1>2

\* An edge of the audit is a pair that the comparison tests for every objective.
LEMMA EdgeIsTested ==
    ASSUME NEW S, NEW q, {"left", "right"} \subseteq DOMAIN q,
           NEW c \in ConfigurationsIn(S), NEW d \in ConfigurationsIn(S), c # d
    PROVE  {c, d} \in paired_edges(S, q.objectives) <=> TestsAll(S, q, c, d)
<1> DEFINE Q == [q EXCEPT !.left = c, !.right = d]
           Shared(x, y, o) == {b \in S : Observed(b, x, o) /\ Observed(b, y, o)}
<1>1. Q.left = c /\ Q.right = d /\ Q.objectives = q.objectives
  OBVIOUS
<1>2. \A o : Shared(d, c, o) = Shared(c, d, o)
  OBVIOUS
<1>3. eligible_edge(S, c, d, q.objectives) <=>
        \A o \in q.objectives : Cardinality(Shared(c, d, o)) >= MIN_BASELINE_SUBMISSIONS
  BY DEF eligible_edge
<1>4. eligible_edge(S, d, c, q.objectives) <=> eligible_edge(S, c, d, q.objectives)
  <2>1. eligible_edge(S, d, c, q.objectives) <=>
          \A o \in q.objectives : Cardinality(Shared(d, c, o)) >= MIN_BASELINE_SUBMISSIONS
    BY DEF eligible_edge
  <2> HIDE DEF Shared
  <2> QED
    BY <1>2, <1>3, <2>1
<1>5. {c, d} \in paired_edges(S, q.objectives) <=> eligible_edge(S, c, d, q.objectives)
  <2>1. Cardinality({c, d}) = 2
    BY TwoElements
  <2>2. {c, d} \in {{x, y} : x, y \in ConfigurationsIn(S)}
    OBVIOUS
  <2>3. {c, d} \in paired_edges(S, q.objectives) <=>
          \A x, y \in {c, d} : x # y => eligible_edge(S, x, y, q.objectives)
    BY <2>1, <2>2 DEF paired_edges
  <2> QED
    BY <1>4, <2>3
<1>6. ASSUME NEW o PROVE Shared(c, d, o) = DOMAIN effects(S, Q, o)
  <2> HIDE DEF Q
  <2>1. \A b : b \in DOMAIN effects(S, Q, o) <=>
                 b \in S /\ Observed(b, Q.left, o) /\ Observed(b, Q.right, o)
    BY TestedBundles
  <2>2. DOMAIN effects(S, Q, o) \subseteq S
    BY <2>1
  <2> QED
    BY <1>1, <2>1, <2>2
<1>7. TestsAll(S, q, c, d) <=>
        \A o \in Q.objectives :
          Cardinality(DOMAIN effects(S, Q, o)) >= MIN_BASELINE_SUBMISSIONS
  BY RowsOfObjectives DEF TestsAll
<1> HIDE DEF Shared, Q
<1> QED
  BY <1>1, <1>3, <1>5, <1>6, <1>7

\* Evidence that meets the design targets has an edge.
LEMMA TargetsNeedAnEdge ==
    ASSUME ValidThresholds, NEW S, NEW objectives, DesignTargetsMet(S, objectives)
    PROVE  \E c, d \in ConfigurationsIn(S) :
             c # d /\ {c, d} \in paired_edges(S, objectives)
<1> DEFINE n == Cardinality(paired_edges(S, objectives))
<1>1. "paired_configuration_overlap" \in Gates(S, objectives)
  BY DEF DesignTargetsMet, ValidThresholds, GATES
<1>2. n >= Thresholds.gates["paired_configuration_overlap"]
  BY <1>1 DEF Gates
<1>3. Thresholds.gates.paired_configuration_overlap \in 1..MAX_PAIRED_EDGES
  BY DEF ValidThresholds
<1>4. paired_edges(S, objectives) # {}
  BY <1>2, <1>3, FS_EmptySet
<1>5. PICK e : e \in paired_edges(S, objectives)
  BY <1>4
<1>6. PICK c, d \in ConfigurationsIn(S) : e = {c, d}
  BY <1>5 DEF paired_edges
<1>7. c # d
  <2>1. Cardinality(e) = 2
    BY <1>5 DEF paired_edges
  <2> QED
    BY <1>6, <2>1, TwoElements
<1> QED
  BY <1>5, <1>6, <1>7

\* audit_prediction_readiness and compare_paired_observations, for any bundles,
\* queries and targets: the pairs that the audit calls eligible are the pairs that
\* are tested on every objective, and the design targets cannot be met without one.
THEOREM EdgesAreTested == ComparisonSpec => []ReadyEdgesAreTested
<1>1. ASSUME NEW q \in Queries, NEW S
      PROVE  /\ \A c, d \in ConfigurationsIn(S) :
                  c # d => ({c, d} \in paired_edges(S, q.objectives) <=> TestsAll(S, q, c, d))
             /\ DesignTargetsMet(S, q.objectives) =>
                  \E c, d \in ConfigurationsIn(S) : c # d /\ TestsAll(S, q, c, d)
  <2>1. {"left", "right"} \subseteq DOMAIN q
    BY ComparisonAssumption DEF ValidQuery
  <2>2. \A c, d \in ConfigurationsIn(S) :
          c # d => ({c, d} \in paired_edges(S, q.objectives) <=> TestsAll(S, q, c, d))
    BY <2>1, EdgeIsTested
  <2> QED
    BY <2>2, TargetsNeedAnEdge, ComparisonAssumption
<1>2. ReadyEdgesAreTested
  BY <1>1 DEF ReadyEdgesAreTested, TestsAll
<1> QED
  BY <1>2, PTL

-----------------------------------------------------------------------------
(***************************************************************************)
(* Comparison: bundles are few, and observations and effects are numbers.  *)
(***************************************************************************)

\* Accepted bundles are finitely many, and no more than the bound.
BundlesAreFew ==
    accepted \in [Kinds -> Nat] /\ IsFiniteSet(bundles) /\ Cardinality(bundles) <= MaxBundles

\* One element more.
LEMMA OneMore ==
    ASSUME NEW S, IsFiniteSet(S), NEW T, NEW x, T = S \cup {x}
    PROVE  IsFiniteSet(T) /\ Cardinality(T) <= Cardinality(S) + 1
<1>1. Cardinality(S) \in Nat
  BY FS_CardinalityType
<1>2. CASE x \in S
  <2>1. T = S
    BY <1>2
  <2> QED
    BY ONLY IsFiniteSet(S), <1>1, <2>1
<1>3. CASE x \notin S
  <2>1. IsFiniteSet(T) /\ Cardinality(T) = Cardinality(S) + 1
    BY <1>3, FS_AddElement
  <2> QED
    BY <1>1, <2>1
<1> QED
  BY <1>2, <1>3

\* Accepting one keeps it so.
LEMMA BundlesStayFew == ComparisonSpec => []BundlesAreFew
<1>1. InitBundles => BundlesAreFew
  <2> SUFFICES ASSUME InitBundles PROVE BundlesAreFew
    OBVIOUS
  <2>1. bundles = {}
    BY DEF InitBundles, bundles
  <2>2. IsFiniteSet({}) /\ Cardinality({}) = 0
    BY FS_EmptySet
  <2>3. MaxBundles \in Nat
    BY ComparisonAssumption
  <2> QED
    BY <2>1, <2>2, <2>3 DEF InitBundles, BundlesAreFew
<1>2. BundlesAreFew /\ [NextBundle]_accepted => BundlesAreFew'
  <2> SUFFICES ASSUME BundlesAreFew, [NextBundle]_accepted PROVE BundlesAreFew'
    OBVIOUS
  <2>1. CASE UNCHANGED accepted
    BY <2>1 DEF BundlesAreFew, bundles
  <2>2. CASE NextBundle
    <3>1. PICK k \in Kinds : Accept(k)
      BY <2>2 DEF NextBundle
    <3> DEFINE x == <<k, accepted[k] + 1>>
    <3>2. /\ accepted[k] \in Nat /\ accepted' \in [Kinds -> Nat]
          /\ accepted'[k] = accepted[k] + 1
          /\ \A j \in Kinds : j # k => accepted'[j] = accepted[j]
      BY <3>1 DEF Accept, BundlesAreFew
    <3>3. 1..(accepted[k] + 1) = (1..accepted[k]) \cup {accepted[k] + 1}
      BY <3>2
    <3>4. bundles' = bundles \cup {x}
      <4>1. \A b : b \in bundles <=> \E j \in Kinds : \E i \in 1..accepted[j] : b = <<j, i>>
        BY DEF bundles
      <4>2. \A b : b \in bundles' <=> \E j \in Kinds : \E i \in 1..accepted'[j] : b = <<j, i>>
        BY DEF bundles
      <4>3. ASSUME NEW b, b \in bundles' PROVE b \in bundles \cup {x}
        <5>1. PICK j \in Kinds : \E i \in 1..accepted'[j] : b = <<j, i>>
          BY <4>2, <4>3
        <5>2. CASE j = k
          BY <3>2, <3>3, <4>1, <5>1, <5>2
        <5>3. CASE j # k
          BY <3>2, <4>1, <5>1, <5>3
        <5> QED
          BY <5>2, <5>3
      <4>4. ASSUME NEW b, b \in bundles \cup {x} PROVE b \in bundles'
        <5>1. CASE b \in bundles
          <6>1. PICK j \in Kinds : \E i \in 1..accepted[j] : b = <<j, i>>
            BY <4>1, <5>1
          <6>2. 1..accepted[j] \subseteq 1..accepted'[j]
            <7>1. CASE j = k
              BY <3>2, <3>3, <7>1
            <7>2. CASE j # k
              BY <3>2, <7>2
            <7> QED
              BY <7>1, <7>2
          <6> QED
            BY <4>2, <6>1, <6>2
        <5>2. CASE b = x
          <6>1. accepted[k] + 1 \in 1..accepted'[k]
            BY <3>2
          <6> QED
            BY <4>2, <5>2, <6>1
        <5> QED
          BY <4>4, <5>1, <5>2
      <4> QED
        BY <4>3, <4>4
    <3> HIDE DEF x
    <3>6. Cardinality(bundles) < MaxBundles /\ Cardinality(bundles) \in Nat /\ MaxBundles \in Nat
      BY <3>1, FS_CardinalityType, ComparisonAssumption DEF Accept, BundlesAreFew
    <3>7. IsFiniteSet(bundles') /\ Cardinality(bundles') <= Cardinality(bundles) + 1
      BY <3>4, OneMore DEF BundlesAreFew
    <3>8. Cardinality(bundles') \in Nat
      BY <3>7, FS_CardinalityType
    <3>9. Cardinality(bundles') <= MaxBundles
      BY <3>6, <3>7, <3>8
    <3> QED
      BY <3>2, <3>7, <3>9 DEF BundlesAreFew
  <2> QED
    BY <2>1, <2>2
<1> QED
  BY <1>1, <1>2, PTL DEF ComparisonSpec

\* A sum of natural numbers.
LEMMA SumIsNumber ==
    ASSUME NEW f, IsFiniteSet(DOMAIN f), \A x \in DOMAIN f : f[x] \in Nat
    PROVE  Sum(f) \in Nat
<1> DEFINE D == DOMAIN f
<1>1. IsFiniteSet(D) /\ \A x \in D : f[x] \in Nat /\ f[x] \in Int
  OBVIOUS
<1>2. Sum(f) = SumFunctionOnSet(f, D)
  BY DEF Sum, SumFunction
<1> HIDE DEF D
<1>3. SumFunctionOnSet(f, D) = Sigma(f, D)
  BY <1>1, SumOfFunction
<1>4. Sigma(f, D) \in Nat
  BY <1>1, SigmaNat
<1> QED
  BY <1>2, <1>3, <1>4

\* A quotient of natural numbers.
LEMMA QuotientIsNumber ==
    ASSUME NEW a \in Nat, NEW b \in Nat, b # 0
    PROVE  a \div b \in Int
OBVIOUS

\* An observation is a number where it is not None.
LEMMA ObservationIsNumber ==
    ASSUME NEW k \in Kinds, NEW c, NEW o \in RECOMMENDATION_OBJECTIVES
    PROVE  observation(k, c)[o] # None => observation(k, c)[o] \in Int
<1> DEFINE rows   == Body[k].rows
           mine   == {i \in DOMAIN rows : rows[i].configuration = c}
           passed == Sum([i \in mine |-> rows[i].passed])
           total  == Sum([i \in mine |-> rows[i].total])
           lost   == Sum([i \in mine |-> rows[i].lost])
           places(i) == {<<i, j>> : j \in DOMAIN rows[i].walls}
           items  == UNION {places(i) : i \in mine}
           Wall(x)   == rows[x[1]].walls[x[2]][1]
           Tokens(x) == rows[x[1]].walls[x[2]][2]
           timed  == {x \in items : Wall(x) > 0 /\ Tokens(x) # None}
           walls  == Sum([x \in items |-> Wall(x)])
           rates  == Sum([x \in timed |-> Tokens(x) \div Wall(x)])
<1>1. IsFiniteSet(mine) /\ \A i \in mine : ValidRow(rows[i])
  <2>1. IsFiniteSet(DOMAIN rows) /\ \A i \in DOMAIN rows : ValidRow(rows[i])
    BY ComparisonAssumption DEF ValidBodies
  <2>2. mine \subseteq DOMAIN rows
    OBVIOUS
  <2> HIDE DEF rows, mine
  <2> QED
    BY <2>1, <2>2, FS_Subset
<1>2. /\ observation(k, c).accuracy = IF total = 0 THEN None ELSE (UNIT * passed) \div total
      /\ observation(k, c).completion =
           IF total + lost = 0 THEN None ELSE (UNIT * total) \div (total + lost)
      /\ observation(k, c).latency = IF items = {} THEN None ELSE walls \div Cardinality(items)
      /\ observation(k, c).throughput = IF timed = {} THEN None ELSE rates \div Cardinality(timed)
  BY DEF observation
<1>3. passed \in Nat /\ total \in Nat /\ lost \in Nat
  <2> DEFINE p == [i \in mine |-> rows[i].passed]
             t == [i \in mine |-> rows[i].total]
             l == [i \in mine |-> rows[i].lost]
  <2>1. /\ DOMAIN p = mine /\ \A i \in mine : p[i] \in Nat
        /\ DOMAIN t = mine /\ \A i \in mine : t[i] \in Nat
        /\ DOMAIN l = mine /\ \A i \in mine : l[i] \in Nat
    BY <1>1 DEF ValidRow
  <2> HIDE DEF p, t, l, mine
  <2>2. Sum(p) \in Nat /\ Sum(t) \in Nat /\ Sum(l) \in Nat
    BY <1>1, <2>1, SumIsNumber
  <2> QED
    BY <2>2 DEF p, t, l
<1>4. \A i \in mine : /\ IsFiniteSet(DOMAIN rows[i].walls)
                      /\ \A j \in DOMAIN rows[i].walls :
                           /\ rows[i].walls[j][1] \in Nat
                           /\ rows[i].walls[j][2] # None => rows[i].walls[j][2] \in Nat
  <2> TAKE i \in mine
  <2> DEFINE w == rows[i].walls
  <2>1. w \in Seq(Nat \X (Nat \cup {None}))
    BY <1>1 DEF ValidRow
  <2> HIDE DEF w
  <2>2. Len(w) \in Nat /\ DOMAIN w = 1..Len(w) /\ \A j \in 1..Len(w) : w[j] \in Nat \X (Nat \cup {None})
    BY <2>1
  <2>3. IsFiniteSet(1..Len(w))
    BY <2>2, FS_Interval
  <2> QED
    BY <2>2, <2>3 DEF w
<1>5. IsFiniteSet(items)
  <2> DEFINE T == {places(i) : i \in mine}
             f == [i \in mine |-> places(i)]
  <2>1. \A i \in mine : IsFiniteSet(places(i))
    <3> TAKE i \in mine
    <3> DEFINE V == DOMAIN rows[i].walls
               g == [j \in V |-> <<i, j>>]
    <3>1. IsFiniteSet(V)
      BY <1>4
    <3>2. places(i) = {g[j] : j \in V}
      OBVIOUS
    <3> HIDE DEF V, g
    <3>3. IsFiniteSet({g[j] : j \in V})
      BY <3>1, ImageFinite
    <3> QED
      BY <3>2, <3>3
  <2>2. T = {f[i] : i \in mine}
    OBVIOUS
  <2>3. IsFiniteSet(T)
    <3> HIDE DEF f, mine
    <3>1. IsFiniteSet({f[i] : i \in mine})
      BY <1>1, ImageFinite
    <3> QED
      BY <2>2, <3>1
  <2>4. \A t \in T : IsFiniteSet(t)
    BY <2>1
  <2> HIDE DEF T
  <2>5. IsFiniteSet(UNION T)
    BY <2>3, <2>4, FS_UNION
  <2> QED
    BY <2>5 DEF T
<1>6. \A x \in items : /\ Wall(x) \in Nat
                       /\ Tokens(x) # None => Tokens(x) \in Nat
  <2> TAKE x \in items
  <2>1. PICK i \in mine : \E j \in DOMAIN rows[i].walls : x = <<i, j>>
    OBVIOUS
  <2>2. PICK j \in DOMAIN rows[i].walls : x = <<i, j>>
    BY <2>1
  <2> HIDE DEF mine, items, rows
  <2>3. x[1] = i /\ x[2] = j
    BY <2>2
  <2> QED
    BY <1>4, <2>2, <2>3
<1>7. IsFiniteSet(timed) /\ timed \subseteq items
  <2>1. timed \subseteq items
    OBVIOUS
  <2> HIDE DEF timed, items
  <2> QED
    BY <1>5, <2>1, FS_Subset
<1>8. walls \in Nat
  <2> DEFINE f == [x \in items |-> Wall(x)]
  <2>1. DOMAIN f = items /\ \A x \in items : f[x] \in Nat
    BY <1>6
  <2> HIDE DEF f, items, Wall
  <2>2. Sum(f) \in Nat
    BY <1>5, <2>1, SumIsNumber
  <2> QED
    BY <2>2 DEF f
<1>9. rates \in Nat
  <2> DEFINE f == [x \in timed |-> Tokens(x) \div Wall(x)]
  <2>1. \A x \in timed : f[x] \in Nat
    <3> TAKE x \in timed
    <3>1. Wall(x) \in Nat /\ Wall(x) > 0 /\ Tokens(x) \in Nat
      BY <1>6, <1>7
    <3>2. f[x] = Tokens(x) \div Wall(x)
      OBVIOUS
    <3> HIDE DEF f, timed, Wall, Tokens
    <3> QED
      BY <3>1, <3>2
  <2>2. DOMAIN f = timed
    OBVIOUS
  <2> HIDE DEF f, timed
  <2>3. Sum(f) \in Nat
    BY <1>7, <2>1, <2>2, SumIsNumber
  <2> QED
    BY <2>3 DEF f
<1>10. ASSUME NEW S, IsFiniteSet(S), S # {}
       PROVE  Cardinality(S) \in Nat /\ Cardinality(S) # 0
  BY <1>10, FS_CardinalityType, FS_EmptySet
<1> HIDE DEF passed, total, lost, items, timed, walls, rates
<1>11. UNIT * passed \in Nat /\ UNIT * total \in Nat /\ total + lost \in Nat
  BY <1>3 DEF UNIT
<1> DEFINE V == observation(k, c)[o]
<1>12. o \in {"accuracy", "completion", "latency", "throughput"}
  BY DEF RECOMMENDATION_OBJECTIVES
<1>13. CASE o = "accuracy"
  BY <1>2, <1>3, <1>11, <1>13, QuotientIsNumber
<1>14. CASE o = "completion"
  BY <1>2, <1>3, <1>11, <1>14, QuotientIsNumber
<1>15. CASE o = "latency"
  BY <1>2, <1>5, <1>8, <1>10, <1>15, QuotientIsNumber
<1>16. CASE o = "throughput"
  BY <1>2, <1>7, <1>9, <1>10, <1>16, QuotientIsNumber
<1> QED
  BY <1>12, <1>13, <1>14, <1>15, <1>16

\* What the bundles hold is a number.
LEMMA ObservedIsNumber ==
    ASSUME NEW b \in bundles, NEW c, NEW o \in RECOMMENDATION_OBJECTIVES, Observed(b, c, o)
    PROVE  Observations[b[1]][c][o] \in Int
<1>1. b[1] \in Kinds
  BY DEF bundles
<1> DEFINE k == b[1]
           t(j) == [d \in Rows(j) |-> observation(j, d)]
<1>2. Observations = [j \in Kinds |-> t(j)]
  <2>1. Observations = [j \in Kinds |-> Table(t(j))]
    BY TableIsFunction DEF Observations
  <2>2. \A j : Table(t(j)) = t(j)
    BY TableIsFunction
  <2> HIDE DEF t
  <2> QED
    BY <2>1, <2>2
<1>3. Observations[k] = t(k)
  BY <1>1, <1>2
<1>4. c \in Rows(k) /\ Observations[k][c][o] # None
  <2>1. DOMAIN t(k) = Rows(k)
    OBVIOUS
  <2> HIDE DEF t
  <2> QED
    BY <1>3, <2>1 DEF Observed, Holds
<1>5. Observations[k][c] = observation(k, c)
  BY <1>3, <1>4
<1> HIDE DEF t
<1> QED
  BY <1>1, <1>4, <1>5, ObservationIsNumber

\* Effects are numbers, of some of the bundles.
LEMMA EffectsAreNumbers ==
    ASSUME NEW S, S \subseteq bundles, IsFiniteSet(S), NEW q \in Queries, NEW o \in q.objectives
    PROVE  LET f == effects(S, q, o)
           IN IsFiniteSet(DOMAIN f) /\ DOMAIN f \subseteq S /\ \A b \in DOMAIN f : f[b] \in Int
<1> DEFINE f == effects(S, q, o)
           l(b) == Observations[b[1]][q.left][o]
           m(b) == Observations[b[1]][q.right][o]
           D == {b \in S : Observed(b, q.left, o) /\ Observed(b, q.right, o)}
<1>1. o \in RECOMMENDATION_OBJECTIVES
  BY ComparisonAssumption DEF ValidQuery
<1>2. f = [b \in D |-> IF o = "latency" THEN m(b) - l(b) ELSE l(b) - m(b)]
  BY TableIsFunction DEF effects
<1>3. \A b \in D : l(b) \in Int /\ m(b) \in Int
  BY <1>1, ObservedIsNumber
<1>4. D \subseteq S
  OBVIOUS
<1> HIDE DEF f, l, m, D
<1>5. IsFiniteSet(D)
  BY <1>4, FS_Subset
<1>6. DOMAIN f = D
  BY <1>2
<1>7. \A b \in D : f[b] \in Int
  BY <1>2, <1>3
<1> QED
  BY <1>4, <1>5, <1>6, <1>7 DEF f

(***************************************************************************)
(* The rows of a comparison, objective by objective.                       *)
(***************************************************************************)
TestedObjectives(S, q) ==
    {o \in q.objectives : Cardinality(DOMAIN effects(S, q, o)) >= MIN_BASELINE_SUBMISSIONS}

RawP(S, q) == [o \in TestedObjectives(S, q) |-> sign_flip_test(effects(S, q, o), o)]

FamilyOf(S, q) == IF q.family # None THEN q.family ELSE Cardinality(TestedObjectives(S, q))

\* The p value of o after Holm's adjustment of the p values P in a family of n.
AdjustedP(P, n, p) == FlooredAtOne(p * (n - Cardinality({y \in DOMAIN P : P[y] < p})))
HolmP(P, n, o) == Max({AdjustedP(P, n, P[x]) : x \in {y \in DOMAIN P : P[y] <= P[o]}})

RowOf(S, q, o) ==
    LET f == effects(S, q, o) n == FamilyOf(S, q)
    IN [objective |-> o, effects |-> f, p_raw |-> RawP(S, q)[o],
        p_holm |-> HolmP(RawP(S, q), n, o), limited |-> DiscretePLimit(f, n),
        interval |-> paired_interval(f, 1), simultaneous |-> paired_interval(f, n)]

OutcomeOf(S, q, o) ==
    [row |-> RowOf(S, q, o), class |-> classification(RowOf(S, q, o), q.floor[o])]

\* Rows that name their objective are as many as the objectives.
LEMMA NamedRows ==
    ASSUME NEW A, IsFiniteSet(A), NEW t, \A o \in A : t[o].objective = o
    PROVE  Cardinality({t[o] : o \in A}) = Cardinality(A)
<1> DEFINE T == {t[o] : o \in A}
           f == [o \in A |-> t[o]]
<1>1. f \in Bijection(A, T)
  <2>1. f \in [A -> T] /\ \A x \in T : \E o \in A : f[o] = x
    OBVIOUS
  <2>2. \A x, y \in A : f[x] = f[y] => x = y
    OBVIOUS
  <2> HIDE DEF f, T
  <2> QED
    BY <2>1, <2>2 DEF Bijection, Injection, Surjection, IsInjective
<1> HIDE DEF f, T
<1>2. Cardinality(A) = Cardinality(T)
  BY <1>1, FS_Bijection DEF ExistsBijection
<1> QED
  BY <1>2 DEF T

\* rows holds one row for each p value of P.
RowsOf(rows, t, P) ==
    /\ IsFiniteSet(DOMAIN P) /\ rows = {t[i] : i \in DOMAIN P}
    /\ \A i \in DOMAIN P : t[i].objective = i /\ t[i].p_raw = P[i]

\* Holm's adjustment of the rows is that of the p values.
LEMMA HolmOfRows ==
    ASSUME NEW P, NEW t, NEW n, NEW rows, RowsOf(rows, t, P), NEW o \in DOMAIN P
    PROVE  holm_adjust(t[o], rows, n) = HolmP(P, n, o)
<1> DEFINE O == DOMAIN P
           Below(p) == {i \in O : P[i] < p}
           Adjusted(p) == FlooredAtOne(p * (n - Cardinality({x \in rows : x.p_raw < p})))
<1>0. /\ IsFiniteSet(O) /\ rows = {t[i] : i \in O}
      /\ \A i \in O : t[i].objective = i /\ t[i].p_raw = P[i]
  BY DEF RowsOf
<1>1. ASSUME NEW p
      PROVE  Cardinality({x \in rows : x.p_raw < p}) = Cardinality(Below(p))
  <2>1. {x \in rows : x.p_raw < p} = {t[i] : i \in Below(p)}
    BY <1>0
  <2>2. Below(p) \subseteq O /\ \A i \in Below(p) : t[i].objective = i
    BY <1>0
  <2> HIDE DEF Below
  <2>3. IsFiniteSet(Below(p))
    BY <1>0, <2>2, FS_Subset
  <2>4. Cardinality({t[i] : i \in Below(p)}) = Cardinality(Below(p))
    BY <2>2, <2>3, NamedRows
  <2> QED
    BY <2>1, <2>4
<1>2. \A p : Adjusted(p) = AdjustedP(P, n, p)
  BY <1>1 DEF AdjustedP
<1>3. holm_adjust(t[o], rows, n) =
        Max({Adjusted(x.p_raw) : x \in {y \in rows : y.p_raw <= t[o].p_raw}})
  BY DEF holm_adjust
<1>4. {y \in rows : y.p_raw <= t[o].p_raw} = {t[x] : x \in {y \in O : P[y] <= P[o]}}
  <2>1. o \in O /\ t[o].p_raw = P[o]
    BY <1>0
  <2>2. \A r : r \in rows <=> \E x \in O : r = t[x]
    BY <1>0
  <2>3. \A i \in O : t[i].p_raw = P[i]
    BY <1>0
  <2> HIDE DEF O
  <2> QED
    BY ONLY <2>1, <2>2, <2>3
<1>5. {Adjusted(x.p_raw) : x \in {y \in rows : y.p_raw <= t[o].p_raw}} =
        {AdjustedP(P, n, P[x]) : x \in {y \in O : P[y] <= P[o]}}
  <2> HIDE DEF Adjusted
  <2>1. \A x \in O : Adjusted(t[x].p_raw) = AdjustedP(P, n, P[x])
    BY <1>0, <1>2
  <2> QED
    BY <1>4, <2>1
<1> HIDE DEF Adjusted
<1> QED
  BY <1>3, <1>5 DEF HolmP

\* The result has one outcome for each objective that is tested.
LEMMA ResultByObjective ==
    ASSUME NEW S, NEW q, IsFiniteSet(q.objectives)
    PROVE  objectives_result(S, q) = {OutcomeOf(S, q, o) : o \in TestedObjectives(S, q)}
<1> DEFINE O == TestedObjectives(S, q)
           P == RawP(S, q)
           n == FamilyOf(S, q)
           t == [o \in O |-> [objective |-> o, effects |-> effects(S, q, o), p_raw |-> P[o]]]
           rows == {t[o] : o \in O}
           Row(r) == [objective |-> r.objective, effects |-> r.effects, p_raw |-> r.p_raw,
                      p_holm |-> holm_adjust(r, rows, n),
                      limited |-> DiscretePLimit(r.effects, n),
                      interval |-> paired_interval(r.effects, 1),
                      simultaneous |-> paired_interval(r.effects, n)]
<1>1. IsFiniteSet(O) /\ DOMAIN P = O
  BY FS_Subset DEF TestedObjectives, RawP
<1>2. \A o \in O : P[o] = sign_flip_test(effects(S, q, o), o)
  BY DEF RawP
<1>3. tested(S, q) = rows
  <2> DEFINE Kept == {x \in objective_rows(S, q) :
                         Cardinality(DOMAIN x.effects) >= MIN_BASELINE_SUBMISSIONS}
             row(o) == [objective |-> o, effects |-> effects(S, q, o)]
             Tested(r) == [objective |-> r.objective, effects |-> r.effects,
                           p_raw |-> sign_flip_test(r.effects, r.objective)]
  <2>1. tested(S, q) = {Tested(r) : r \in Kept}
    BY DEF tested
  <2>2. Kept = {row(o) : o \in O}
    BY DEF TestedObjectives, objective_rows
  <2>3. \A o \in O : Tested(row(o)) = t[o]
    BY <1>2
  <2> HIDE DEF Kept, Tested, row, O, P, t
  <2> QED
    BY <2>1, <2>2, <2>3
<1>4. \A o \in O : t[o].objective = o /\ t[o].p_raw = P[o] /\ t[o].effects = effects(S, q, o)
  OBVIOUS
<1> HIDE DEF t, P, O
<1>5. Cardinality(rows) = Cardinality(O)
  BY <1>1, <1>4, NamedRows
<1>6. \A o \in O : holm_adjust(t[o], rows, n) = HolmP(P, n, o)
  <2> HIDE DEF rows, n
  <2>1. RowsOf(rows, t, P)
    BY <1>1, <1>4 DEF rows, RowsOf
  <2> QED
    BY <1>1, <2>1, HolmOfRows
<1>7. \A o \in O : Row(t[o]) = RowOf(S, q, o)
  <2> HIDE DEF rows, n
  <2> QED
    BY <1>4, <1>6 DEF RowOf, n, P
<1>8. n = IF q.family # None THEN q.family ELSE Cardinality(rows)
  BY <1>5 DEF FamilyOf, O
<1>9. adjusted(rows, n) = {Row(r) : r \in rows}
  BY DEF adjusted
<1>10. objectives_result(S, q) =
         {[row |-> r, class |-> classification(r, q.floor[r.objective])] : r \in adjusted(rows, n)}
  <2> HIDE DEF rows, n
  <2> QED
    BY <1>3, <1>8 DEF objectives_result
<1> HIDE DEF n, Row
<1>11. adjusted(rows, n) = {RowOf(S, q, o) : o \in O}
  BY <1>7, <1>9
<1>12. \A o \in O : RowOf(S, q, o).objective = o
  BY DEF RowOf
<1> HIDE DEF rows
<1>13. \A o \in O : [row |-> RowOf(S, q, o),
                     class |-> classification(RowOf(S, q, o), q.floor[RowOf(S, q, o).objective])]
                    = OutcomeOf(S, q, o)
  BY <1>12 DEF OutcomeOf
<1>14. objectives_result(S, q) = {OutcomeOf(S, q, o) : o \in O}
  BY <1>10, <1>11, <1>13
<1> QED
  BY <1>14 DEF O

\* The family of a query that tests something.
LEMMA FamilyIsPositive ==
    ASSUME NEW S, NEW q \in Queries
    PROVE  /\ IsFiniteSet(q.objectives) /\ IsFiniteSet(TestedObjectives(S, q))
           /\ TestedObjectives(S, q) \subseteq q.objectives
           /\ TestedObjectives(S, q) # {} => FamilyOf(S, q) \in Nat \ {0}
<1> DEFINE O == TestedObjectives(S, q)
           A == q.objectives
<1>1. ValidQuery(q)
  BY ComparisonAssumption
<1>2. A \subseteq RECOMMENDATION_OBJECTIVES /\ A # {} /\ O \subseteq A
  BY <1>1 DEF ValidQuery, TestedObjectives
<1>3. IsFiniteSet(RECOMMENDATION_OBJECTIVES)
  <2>1. IsFiniteSet({"accuracy"}) /\ IsFiniteSet({"completion"}) /\ IsFiniteSet({"latency"})
        /\ IsFiniteSet({"throughput"})
    BY FS_Singleton
  <2>2. RECOMMENDATION_OBJECTIVES =
          (({"accuracy"} \cup {"completion"}) \cup {"latency"}) \cup {"throughput"}
    BY DEF RECOMMENDATION_OBJECTIVES
  <2> QED
    BY <2>1, <2>2, FS_Union
<1>4. q.family # None => q.family \in Cardinality(A)..4
  BY <1>1 DEF ValidQuery
<1> HIDE DEF O, A
<1>5. IsFiniteSet(A) /\ IsFiniteSet(O)
  BY <1>2, <1>3, FS_Subset
<1>6. Cardinality(A) \in Nat \ {0} /\ (O # {} => Cardinality(O) \in Nat \ {0})
  BY <1>2, <1>5, FS_CardinalityType, FS_EmptySet
<1>7. O # {} => FamilyOf(S, q) \in Nat \ {0}
  BY <1>4, <1>6 DEF FamilyOf, O
<1> QED
  BY <1>2, <1>5, <1>7 DEF O, A

-----------------------------------------------------------------------------
(***************************************************************************)
(* Comparison: the resolution of the test is what the audit says.          *)
(***************************************************************************)

\* The subsets of S, with and without the elements of N.
WithOrWithout(S, N) == (SUBSET S) \cup {s \cup N : s \in SUBSET S}

\* They are twice as many.
LEMMA TwiceAsMany ==
    ASSUME NEW S, IsFiniteSet(S), NEW N, N # {}, N \cap S = {}
    PROVE  /\ IsFiniteSet(WithOrWithout(S, N))
           /\ Cardinality(WithOrWithout(S, N)) = 2 * Cardinality(SUBSET S)
<1> DEFINE T == WithOrWithout(S, N)
           A == SUBSET S
           B == {s \cup N : s \in A}
           f == [s \in A |-> s \cup N]
<1>1. IsFiniteSet(A) /\ Cardinality(A) \in Nat
  BY FS_SUBSET, FS_CardinalityType
<1>2. f \in Bijection(A, B)
  <2>1. f \in [A -> B] /\ \A b \in B : \E s \in A : f[s] = b
    OBVIOUS
  <2>2. \A s, t \in A : f[s] = f[t] => s = t
    <3> SUFFICES ASSUME NEW s \in A, NEW t \in A, s \cup N = t \cup N PROVE s = t
      OBVIOUS
    <3>1. \A x \in S : x \notin N
      OBVIOUS
    <3>2. \A x : x \in s <=> x \in t
      BY <3>1
    <3> QED
      BY <3>2
  <2> HIDE DEF f, B
  <2> QED
    BY <2>1, <2>2 DEF Bijection, Injection, Surjection, IsInjective
<1>3. IsFiniteSet(B) /\ Cardinality(B) = Cardinality(A)
  <2> HIDE DEF f, A, B
  <2>1. ExistsBijection(A, B)
    BY <1>2 DEF ExistsBijection
  <2>2. Cardinality(A) = Cardinality(B) /\ IsFiniteSet(B)
    BY <1>1, <2>1, FS_Bijection
  <2> QED
    BY <2>2
<1>4. A \cap B = {}
  <2> SUFFICES ASSUME NEW s \in A, s \cup N \in A PROVE FALSE
    OBVIOUS
  <2>1. PICK x : x \in N
    OBVIOUS
  <2> QED
    BY <2>1
<1>5. T = A \cup B
  BY DEF WithOrWithout
<1> HIDE DEF A, B, T
<1>6. IsFiniteSet(A \cup B) /\ Cardinality(A \cup B) = Cardinality(A) + Cardinality(B)
  <2>1. IsFiniteSet(A \cap B) /\ Cardinality({}) = 0
    BY <1>4, FS_EmptySet
  <2>2. /\ IsFiniteSet(A \cup B)
        /\ Cardinality(A \cup B) = Cardinality(A) + Cardinality(B) - Cardinality(A \cap B)
    BY <1>1, <1>3, FS_Union
  <2>3. Cardinality(A \cap B) = 0
    BY ONLY <1>4, <2>1
  <2> QED
    BY <1>1, <1>3, <2>2, <2>3
<1>7. IsFiniteSet(T) /\ Cardinality(T) = Cardinality(A) + Cardinality(A)
  BY <1>3, <1>5, <1>6
<1> QED
  BY <1>1, <1>7 DEF A, T

\* A power of two, as a name for the provers.
TwoTo(n) == 2 ^ n

\* The powers of two count subsets, so each is twice the one before.
LEMMA PowerStep ==
    ASSUME NEW n \in Nat
    PROVE  TwoTo(n) \in Nat \ {0} /\ TwoTo(0) = 1 /\ TwoTo(n + 1) = 2 * TwoTo(n)
<1> DEFINE S == 1..n
           R == 1..(n + 1)
           N == {n + 1}
           T == SUBSET R
<1>1. IsFiniteSet(S) /\ Cardinality(S) = n /\ IsFiniteSet(R) /\ Cardinality(R) = n + 1
  <2>1. IsFiniteSet(1..n) /\ Cardinality(1..n) = IF 1 > n THEN 0 ELSE n - 1 + 1
    BY FS_Interval
  <2>2. n + 1 \in Int
    OBVIOUS
  <2>3. IsFiniteSet(1..(n + 1)) /\ Cardinality(1..(n + 1)) = IF 1 > n + 1 THEN 0 ELSE (n + 1) - 1 + 1
    BY <2>2, FS_Interval
  <2> QED
    BY <2>1, <2>3
<1>2. N # {} /\ N \cap S = {} /\ R = S \cup N
  OBVIOUS
<1> HIDE DEF S, R, N
<1>3. T = WithOrWithout(S, N)
  <2>1. \A t \in SUBSET R : t \in SUBSET S \/ \E s \in SUBSET S : t = s \cup N
    <3> SUFFICES ASSUME NEW t \in SUBSET R, t \notin SUBSET S
                 PROVE  \E s \in SUBSET S : t = s \cup N
      OBVIOUS
    <3>1. n + 1 \in t /\ t \ N \in SUBSET S
      BY <1>2 DEF N
    <3>2. t = (t \ N) \cup N
      BY <3>1 DEF N
    <3> QED
      BY <3>1, <3>2
  <2>2. \A s \in SUBSET S : s \in SUBSET R /\ s \cup N \in SUBSET R
    BY <1>2
  <2> QED
    BY <2>1, <2>2 DEF WithOrWithout
<1> HIDE DEF T
<1>4. Cardinality(T) = 2 * Cardinality(SUBSET S)
  BY <1>1, <1>2, <1>3, TwiceAsMany
<1>5. Cardinality(T) = 2 ^ (n + 1) /\ Cardinality(SUBSET S) = 2 ^ n /\ IsFiniteSet(SUBSET S)
  <2>1. Cardinality(SUBSET S) = 2 ^ Cardinality(S) /\ IsFiniteSet(SUBSET S)
    BY <1>1, FS_SUBSET
  <2>2. Cardinality(SUBSET R) = 2 ^ Cardinality(R)
    BY <1>1, FS_SUBSET
  <2> QED
    BY <1>1, <2>1, <2>2 DEF T
<1>6. Cardinality(SUBSET S) \in Nat \ {0}
  <2>1. {} \in SUBSET S
    OBVIOUS
  <2>2. Cardinality(SUBSET S) \in Nat /\ (Cardinality(SUBSET S) = 0 <=> SUBSET S = {})
    BY <1>5, FS_CardinalityType, FS_EmptySet
  <2> QED
    BY <2>1, <2>2
<1>7. 2 ^ 0 = 1
  <2>1. IsFiniteSet({}) /\ Cardinality({}) = 0
    BY FS_EmptySet
  <2>2. Cardinality(SUBSET {}) = 2 ^ Cardinality({})
    BY <2>1, FS_SUBSET
  <2>3. SUBSET {} = {{}}
    OBVIOUS
  <2>4. Cardinality({{}}) = 1
    BY FS_Singleton
  <2> QED
    BY <2>1, <2>2, <2>3, <2>4
<1> QED
  BY <1>4, <1>5, <1>6, <1>7 DEF TwoTo

\* The power of a sum of exponents.
LEMMA PowerOfSum ==
    ASSUME NEW m \in Nat, NEW n \in Nat
    PROVE  TwoTo(m + n) = TwoTo(m) * TwoTo(n)
<1> DEFINE Good(k) == TwoTo(m + k) = TwoTo(m) * TwoTo(k)
           bad == {k \in Nat : ~Good(k)}
<1>1. bad = {}
  <2> SUFFICES ASSUME bad # {} PROVE FALSE
    OBVIOUS
  <2>1. PICK k \in bad : \A j \in bad : k <= j
    <3>1. bad \subseteq Nat
      OBVIOUS
    <3> HIDE DEF bad
    <3> QED
      BY <3>1, LeastNumber
  <2>2. k \in Nat /\ ~Good(k)
    BY <2>1
  <2>3. CASE k = 0
    <3>1. TwoTo(0) = 1 /\ TwoTo(m) \in Nat
      BY PowerStep
    <3>2. m + k = m
      BY <2>3
    <3> QED
      BY <2>2, <2>3, <3>1, <3>2
  <2>4. CASE k # 0
    <3> DEFINE j == k - 1
    <3>1. j \in Nat /\ k = j + 1 /\ m + j \in Nat /\ m + k = (m + j) + 1 /\ ~(k <= j)
      BY <2>2, <2>4
    <3> HIDE DEF j
    <3>2. Good(j)
      BY <2>1, <3>1
    <3>3. TwoTo((m + j) + 1) = 2 * TwoTo(m + j) /\ TwoTo(j + 1) = 2 * TwoTo(j)
      BY <3>1, PowerStep
    <3>4. TwoTo(m) \in Nat /\ TwoTo(j) \in Nat
      BY <3>1, PowerStep
    <3>5. \A a, b \in Nat : 2 * (a * b) = a * (2 * b)
      OBVIOUS
    <3>6. Good(k)
      BY <3>1, <3>2, <3>3, <3>4, <3>5
    <3> QED
      BY <2>2, <3>6
  <2> QED
    BY <2>3, <2>4
<1> QED
  BY <1>1

\* A larger factor makes a larger product.
LEMMA ProductGrows ==
    ASSUME NEW a \in Nat, NEW b \in Nat, NEW c \in Nat, a <= b
    PROVE  a * c \in Nat /\ b * c \in Nat /\ a * c <= b * c
<1>1. PICK d \in Nat : b = a + d
  <2>1. b - a \in Nat /\ b = a + (b - a)
    OBVIOUS
  <2> QED
    BY <2>1
<1>2. (a + d) * c = a * c + d * c /\ d * c \in Nat /\ a * c \in Nat
  OBVIOUS
<1> QED
  BY <1>1, <1>2

\* DRAWS keeps the order.
LEMMA DrawsKeepOrder ==
    ASSUME NEW a \in Nat, NEW b \in Nat, a <= b
    PROVE  DRAWS * a \in Nat /\ DRAWS * b \in Nat /\ DRAWS * a <= DRAWS * b
BY DEF DRAWS, SIGN_FLIP_MONTE_CARLO_SAMPLES

\* No p value of the exact sign-flip test is below the floor of its effects: whatever
\* signs the zeros take, all others flipped together are as extreme as observed.
LEMMA FloorHolds ==
    ASSUME NEW f, IsFiniteSet(DOMAIN f), \A b \in DOMAIN f : f[b] \in Int,
           Cardinality(DOMAIN f) <= MaxBundles
    PROVE  /\ exact_p(f) \in Nat /\ RawFloor(Nonzero(f)) \in Nat
           /\ exact_p(f) >= RawFloor(Nonzero(f))
<1> DEFINE D == DOMAIN f
           Z == {b \in D : f[b] = 0}
           N == {b \in D : f[b] # 0}
           d == Cardinality(D)
           z == Cardinality(Z)
           n == Cardinality(N)
           Flipped(S) == 2 * SumFunctionOnSet(f, S) - Sum(f)
           extreme == {S \in SUBSET D : Abs(Flipped(S)) >= Abs(Sum(f))}
           rest == MaxBundles - d
<1>1. /\ D = Z \cup N /\ Z \cap N = {} /\ Z \subseteq D /\ N \subseteq D /\ D \ N = Z
      /\ \A b \in Z : f[b] = 0
  OBVIOUS
<1>2. IsFiniteSet(D) /\ \A b \in D : f[b] \in Int
  OBVIOUS
<1>3. exact_p(f) = DRAWS * (Cardinality(extreme) * TwoTo(rest))
  BY DEF exact_p, TwoTo
<1>4. Nonzero(f) = n
  BY DEF Nonzero
<1>5. Sum(f) = SumFunctionOnSet(f, D)
  BY DEF Sum, SumFunction
<1>6. d <= MaxBundles
  OBVIOUS
<1> HIDE DEF D, Z, N
<1>7. IsFiniteSet(Z) /\ IsFiniteSet(N)
  BY <1>1, <1>2, FS_Subset
<1>8. d \in Nat /\ z \in Nat /\ n \in Nat /\ d = z + n
  <2>1. Cardinality(Z \cup N) = Cardinality(Z) + Cardinality(N) - Cardinality(Z \cap N)
    BY <1>7, FS_Union
  <2>2. Cardinality(Z \cap N) = 0
    <3>1. Cardinality({}) = 0
      BY FS_EmptySet
    <3> QED
      BY ONLY <1>1, <3>1
  <2>3. d \in Nat /\ z \in Nat /\ n \in Nat
    BY <1>2, <1>7, FS_CardinalityType
  <2>4. d = z + n - Cardinality(Z \cap N)
    BY <1>1, <2>1
  <2> QED
    BY <2>2, <2>3, <2>4
<1>9. ASSUME NEW S \in SUBSET D
      PROVE  SumFunctionOnSet(f, S) = Sigma(f, S) /\ Sigma(f, S) \in Int /\ IsFiniteSet(S)
  <2>1. IsFiniteSet(S) /\ \A b \in S : f[b] \in Int
    BY <1>2, FS_Subset
  <2>2. SumFunctionOnSet(f, S) = Sigma(f, S)
    BY <2>1, SumOfFunction
  <2> DEFINE g == [b \in S |-> -f[b]]
  <2>3. \A b \in S : f[b] \in Int /\ g[b] = -f[b]
    BY <2>1
  <2> HIDE DEF g
  <2>4. Sigma(f, S) \in Int
    BY <2>1, <2>3, SigmaNegated
  <2> QED
    BY <2>1, <2>2, <2>4
<1>10. \A S \in SUBSET Z : S \in SUBSET D /\ Sigma(f, S) = 0
  <2> TAKE S \in SUBSET Z
  <2>1. S \in SUBSET D /\ \A b \in S : f[b] = 0
    BY <1>1
  <2>2. IsFiniteSet(S)
    BY <1>9, <2>1
  <2> QED
    BY <2>1, <2>2, SigmaOfNothing
<1>11. \A S \in SUBSET Z : S \cup N \in SUBSET D /\ Sigma(f, S \cup N) = Sigma(f, N)
  <2> TAKE S \in SUBSET Z
  <2> DEFINE T == S \cup N
  <2>1. T \in SUBSET D /\ N \subseteq T /\ S = T \ N
    BY <1>1
  <2> HIDE DEF T
  <2>2. IsFiniteSet(T) /\ \A b \in T : f[b] \in Int
    BY <1>2, <1>9, <2>1
  <2>3. Sigma(f, T) = Sigma(f, N) + Sigma(f, S)
    BY <2>1, <2>2, SigmaSplit
  <2>4. Sigma(f, S) = 0 /\ Sigma(f, N) \in Int
    BY <1>1, <1>9, <1>10
  <2>5. Sigma(f, T) = Sigma(f, N)
    BY <2>3, <2>4
  <2> QED
    BY <2>1, <2>5 DEF T
<1>12. Sum(f) = Sigma(f, N) /\ Sum(f) \in Int
  <2>1. Z \in SUBSET Z /\ Z \cup N = D /\ D \in SUBSET D
    BY <1>1
  <2>2. Sigma(f, D) = Sigma(f, N)
    BY <1>11, <2>1
  <2> QED
    BY <1>5, <1>9, <2>1, <2>2
<1>13. WithOrWithout(Z, N) \subseteq extreme
  <2>1. \A S \in SUBSET Z : S \in extreme
    <3> TAKE S \in SUBSET Z
    <3>1. S \in SUBSET D /\ SumFunctionOnSet(f, S) = 0
      BY <1>9, <1>10
    <3>2. Abs(Flipped(S)) = Abs(Sum(f)) /\ Abs(Sum(f)) \in Int
      BY <1>12, <3>1 DEF Abs
    <3> QED
      BY <3>1, <3>2
  <2>2. \A S \in SUBSET Z : S \cup N \in extreme
    <3> TAKE S \in SUBSET Z
    <3>1. S \cup N \in SUBSET D /\ SumFunctionOnSet(f, S \cup N) = Sum(f)
      BY <1>9, <1>11, <1>12
    <3>2. Abs(Flipped(S \cup N)) = Abs(Sum(f)) /\ Abs(Sum(f)) \in Int
      BY <1>12, <3>1 DEF Abs
    <3> QED
      BY <3>1, <3>2
  <2> HIDE DEF extreme
  <2> QED
    BY <2>1, <2>2 DEF WithOrWithout
<1>14. IsFiniteSet(extreme) /\ Cardinality(extreme) \in Nat
  <2>1. IsFiniteSet(SUBSET D) /\ extreme \subseteq SUBSET D
    BY <1>2, FS_SUBSET
  <2> HIDE DEF extreme
  <2> QED
    BY <2>1, FS_Subset, FS_CardinalityType
<1> HIDE DEF extreme, d, z, n
<1>15. Cardinality(SUBSET Z) = TwoTo(z)
  BY <1>7, FS_SUBSET DEF TwoTo, z
<1>16. rest \in Nat /\ MaxBundles \in Nat /\ MaxBundles = d + rest
  BY <1>6, <1>8, ComparisonAssumption
<1> HIDE DEF rest
<1>17. TwoTo(rest) \in Nat
  BY <1>16, PowerStep
<1>18. PUNIT = DRAWS * TwoTo(MaxBundles)
  BY DEF PUNIT, TwoTo
<1>19. CASE n = 0
  <2>1. N = {} /\ Z = D
    BY <1>1, <1>7, <1>19, FS_EmptySet DEF n
  <2>2. SUBSET D \subseteq extreme /\ d = z
    BY <1>8, <1>13, <1>19, <2>1 DEF WithOrWithout
  <2>3. Cardinality(SUBSET D) <= Cardinality(extreme) /\ Cardinality(SUBSET D) = TwoTo(d)
    BY <1>14, <1>15, <2>1, <2>2, FS_Subset
  <2>4. TwoTo(d) \in Nat /\ TwoTo(MaxBundles) = TwoTo(d) * TwoTo(rest)
    BY <1>8, <1>16, PowerStep, PowerOfSum
  <2>5. RawFloor(n) = DRAWS * TwoTo(MaxBundles)
    BY <1>18, <1>19 DEF RawFloor
  <2>6. /\ TwoTo(d) * TwoTo(rest) \in Nat /\ Cardinality(extreme) * TwoTo(rest) \in Nat
        /\ TwoTo(d) * TwoTo(rest) <= Cardinality(extreme) * TwoTo(rest)
    BY <1>14, <1>17, <2>3, <2>4, ProductGrows
  <2> QED
    BY <1>3, <1>4, <2>4, <2>5, <2>6, DrawsKeepOrder
<1>20. CASE n # 0
  <2> DEFINE T == WithOrWithout(Z, N)
  <2>1. N # {} /\ N \cap Z = {}
    BY <1>1, <1>20, FS_EmptySet DEF n
  <2>2. IsFiniteSet(T) /\ Cardinality(T) = 2 * Cardinality(SUBSET Z)
    BY <1>7, <2>1, TwiceAsMany
  <2>3. T \subseteq extreme
    BY <1>13
  <2> HIDE DEF T
  <2>4. Cardinality(T) <= Cardinality(extreme)
    BY <1>14, <2>3, FS_Subset
  <2>5. TwoTo(z + 1) = 2 * TwoTo(z) /\ TwoTo(z + 1) \in Nat /\ z + 1 \in Nat
    BY <1>8, PowerStep
  <2>6. TwoTo(z + 1) <= Cardinality(extreme)
    BY <1>15, <2>2, <2>4, <2>5
  <2>7. TwoTo((z + 1) + rest) = TwoTo(z + 1) * TwoTo(rest)
    BY <1>16, <2>5, PowerOfSum
  <2>8. MaxBundles + 1 - n = (z + 1) + rest
    BY <1>8, <1>16
  <2>9. RawFloor(n) = DRAWS * TwoTo((z + 1) + rest)
    BY <1>20, <2>8 DEF RawFloor, TwoTo
  <2>10. /\ TwoTo(z + 1) * TwoTo(rest) \in Nat /\ Cardinality(extreme) * TwoTo(rest) \in Nat
         /\ TwoTo(z + 1) * TwoTo(rest) <= Cardinality(extreme) * TwoTo(rest)
    BY <1>14, <1>17, <2>5, <2>6, ProductGrows
  <2> QED
    BY <1>3, <1>4, <2>7, <2>9, <2>10, DrawsKeepOrder
<1> QED
  BY <1>19, <1>20

\* Holm's adjustment is never below the strictest rank of the smallest p value.
LEMMA HolmIsAbove ==
    ASSUME NEW P, IsFiniteSet(DOMAIN P), \A y \in DOMAIN P : P[y] \in Nat,
           NEW n \in Nat, NEW o \in DOMAIN P, PUNIT \in Nat
    PROVE  /\ HolmP(P, n, o) \in Int
           /\ \E x \in DOMAIN P : HolmP(P, n, o) >= FlooredAtOne(P[x] * n)
<1> DEFINE O == DOMAIN P
           V == {P[y] : y \in O}
           A == {y \in O : P[y] <= P[o]}
           h == [x \in A |-> AdjustedP(P, n, P[x])]
           W == {h[x] : x \in A}
           Below(p) == {y \in O : P[y] < p}
<1>1. IsFiniteSet(O) /\ o \in O /\ \A y \in O : P[y] \in Nat
  OBVIOUS
<1>2. IsFiniteSet(V) /\ V # {} /\ V \subseteq Int
  <2>1. V # {} /\ V \subseteq Int
    BY <1>1
  <2> HIDE DEF O
  <2> QED
    BY <1>1, <2>1, ImageFinite
<1>3. PICK x \in O : \A y \in O : P[x] <= P[y]
  <2> DEFINE m == Min(V)
  <2>1. m \in V /\ \A v \in V : m <= v
    <3> HIDE DEF V
    <3> QED
      BY <1>2, Least
  <2> HIDE DEF m
  <2> QED
    BY <2>1
<1>4. x \in A /\ A \subseteq O
  BY <1>1, <1>3
<1>5. Below(P[x]) = {}
  <2>1. \A y \in O : ~(P[y] < P[x])
    BY <1>1, <1>3
  <2> QED
    BY <2>1
<1>6. h[x] = FlooredAtOne(P[x] * n)
  <2>1. h[x] = FlooredAtOne(P[x] * (n - Cardinality(Below(P[x]))))
    BY <1>4 DEF AdjustedP
  <2>2. Cardinality({}) = 0
    BY FS_EmptySet
  <2> HIDE DEF Below, h
  <2>3. n - Cardinality(Below(P[x])) = n
    BY <1>5, <2>2
  <2> QED
    BY <2>1, <2>3
<1>7. \A p \in Int : FlooredAtOne(p) \in Int
  BY DEF FlooredAtOne
<1>8. \A y \in A : h[y] \in Int
  <2> TAKE y \in A
  <2>1. h[y] = FlooredAtOne(P[y] * (n - Cardinality(Below(P[y])))) /\ P[y] \in Nat
    BY <1>1, <1>4 DEF AdjustedP
  <2>2. Below(P[y]) \subseteq O
    OBVIOUS
  <2> HIDE DEF Below, h, O
  <2>3. Cardinality(Below(P[y])) \in Nat
    BY <1>1, <2>2, FS_Subset, FS_CardinalityType
  <2>4. P[y] * (n - Cardinality(Below(P[y]))) \in Int
    BY <2>1, <2>3
  <2> QED
    BY <1>7, <2>1, <2>4
<1>9. HolmP(P, n, o) = Max(W)
  <2>1. W = {AdjustedP(P, n, P[y]) : y \in A}
    OBVIOUS
  <2> HIDE DEF W
  <2> QED
    BY <2>1 DEF HolmP
<1>10. IsFiniteSet(W) /\ W # {} /\ W \subseteq Int /\ h[x] \in W
  <2>1. W # {} /\ W \subseteq Int /\ h[x] \in W
    BY <1>4, <1>8
  <2> HIDE DEF O, A, h
  <2>2. IsFiniteSet(A)
    BY <1>1, <1>4, FS_Subset
  <2>3. IsFiniteSet(W)
    BY <2>2, ImageFinite
  <2> QED
    BY <2>1, <2>3
<1> HIDE DEF W, h, A, O
<1>11. Max(W) \in Int /\ h[x] <= Max(W) /\ h[x] \in Int
  BY <1>10, Greatest
<1> QED
  BY <1>3, <1>6, <1>9, <1>11 DEF O

\* A p value above the resolution is not significant.
LEMMA AboveIsNotBelow ==
    ASSUME NEW p \in Int, NEW raw \in Nat, NEW floor \in Nat, NEW n \in Nat, PUNIT \in Nat,
           p >= FlooredAtOne(raw * n), raw >= floor, ~BelowAlpha(FlooredAtOne(floor * n))
    PROVE  ~BelowAlpha(p)
<1>1. floor * n \in Nat /\ raw * n \in Nat /\ floor * n <= raw * n
  BY ProductGrows
<1> DEFINE a == floor * n
           b == raw * n
<1> HIDE DEF a, b
<1>2. a \in Nat /\ b \in Nat /\ a <= b
  BY <1>1 DEF a, b
<1>3. p >= FlooredAtOne(b) /\ ~BelowAlpha(FlooredAtOne(a))
  BY DEF a, b
<1> QED
  BY <1>2, <1>3 DEF FlooredAtOne, BelowAlpha

\* _inference_resolution, _sign_flip_test and _holm_adjust, for any bundles, queries
\* and limit of the exact test: the announced floor holds for every p value of that
\* test, and where all tested objectives have one and the floor is above the
\* strictest threshold for each, none is decisive.
THEOREM ResolutionHolds == ComparisonSpec => []ResolutionIsHonest
<1>1. ASSUME NEW q \in Queries, NEW S, S \subseteq bundles, IsFiniteSet(S),
             Cardinality(S) <= MaxBundles
      PROVE  LET X == objectives_result(S, q)
             IN /\ \A x \in X :
                      IsExact(x.row.effects) => x.row.p_raw >= RawFloor(Nonzero(x.row.effects))
                /\ (\A x \in X : IsExact(x.row.effects) /\ x.row.limited) =>
                      \A x \in X : ~BelowAlpha(x.row.p_holm)
  <2> DEFINE O == TestedObjectives(S, q)
             P == RawP(S, q)
             n == FamilyOf(S, q)
             X == objectives_result(S, q)
             Exact(o) == IsExact(effects(S, q, o))
             floor(o) == RawFloor(Nonzero(effects(S, q, o)))
  <2>1. IsFiniteSet(q.objectives) /\ IsFiniteSet(O) /\ O \subseteq q.objectives
        /\ (O # {} => n \in Nat)
    BY FamilyIsPositive
  <2>2. X = {OutcomeOf(S, q, o) : o \in O}
    BY <2>1, ResultByObjective
  <2>3. /\ DOMAIN P = O
        /\ \A o \in O : P[o] = sign_flip_test(effects(S, q, o), o)
    BY DEF RawP
  <2>4. \A o \in O : LET r == OutcomeOf(S, q, o).row
                     IN /\ r.p_raw = P[o] /\ r.effects = effects(S, q, o)
                        /\ r.p_holm = HolmP(P, n, o)
                        /\ r.limited = DiscretePLimit(effects(S, q, o), n)
    BY DEF OutcomeOf, RowOf
  <2>5. PUNIT \in Nat
    BY ComparisonAssumption, PowerStep, DrawsKeepOrder DEF PUNIT, TwoTo
  <2> HIDE DEF O, P, n, X
  <2>6. ASSUME NEW o \in O, Exact(o)
        PROVE  P[o] \in Nat /\ floor(o) \in Nat /\ P[o] >= floor(o)
    <3> DEFINE f == effects(S, q, o)
    <3>1. IsFiniteSet(DOMAIN f) /\ DOMAIN f \subseteq S /\ \A b \in DOMAIN f : f[b] \in Int
      BY <1>1, <2>1, EffectsAreNumbers
    <3>2. P[o] = exact_p(f)
      BY <2>3, <2>6 DEF sign_flip_test
    <3> HIDE DEF f
    <3>3. Cardinality(DOMAIN f) <= Cardinality(S)
      BY <1>1, <3>1, FS_Subset
    <3>4. Cardinality(DOMAIN f) \in Nat /\ Cardinality(S) \in Nat /\ MaxBundles \in Nat
      BY <1>1, <3>1, FS_CardinalityType, ComparisonAssumption
    <3>5. Cardinality(DOMAIN f) <= MaxBundles
      BY <1>1, <3>3, <3>4
    <3>6. /\ exact_p(f) \in Nat /\ RawFloor(Nonzero(f)) \in Nat
          /\ exact_p(f) >= RawFloor(Nonzero(f))
      BY <3>1, <3>5, FloorHolds
    <3> QED
      BY <3>2, <3>6 DEF f
  <2>7. \A x \in X : IsExact(x.row.effects) => x.row.p_raw >= RawFloor(Nonzero(x.row.effects))
    BY <2>2, <2>4, <2>6
  <2>8. ASSUME \A x \in X : IsExact(x.row.effects) /\ x.row.limited, NEW o \in O
        PROVE  ~BelowAlpha(HolmP(P, n, o))
    <3>0. \A y \in O : Exact(y) /\ DiscretePLimit(effects(S, q, y), n)
      <4> TAKE y \in O
      <4>1. OutcomeOf(S, q, y) \in X
        BY <2>2
      <4> QED
        BY <2>4, <2>8, <4>1
    <3>1. n \in Nat /\ o \in DOMAIN P /\ IsFiniteSet(DOMAIN P) /\ \A y \in DOMAIN P : P[y] \in Nat
      BY <2>1, <2>3, <2>6, <3>0
    <3>2. /\ HolmP(P, n, o) \in Int
          /\ \E x \in DOMAIN P : HolmP(P, n, o) >= FlooredAtOne(P[x] * n)
      BY <2>5, <3>1, HolmIsAbove
    <3>3. PICK x \in O : HolmP(P, n, o) >= FlooredAtOne(P[x] * n)
      BY <2>3, <3>2
    <3>6. ~BelowAlpha(FlooredAtOne(floor(x) * n))
      BY <3>0 DEF DiscretePLimit
    <3>7. P[x] \in Nat /\ floor(x) \in Nat /\ P[x] >= floor(x)
      BY <2>6, <3>0
    <3> HIDE DEF floor, Exact
    <3> QED
      BY <2>5, <3>1, <3>2, <3>3, <3>6, <3>7, AboveIsNotBelow
  <2>9. (\A x \in X : IsExact(x.row.effects) /\ x.row.limited) =>
          \A x \in X : ~BelowAlpha(x.row.p_holm)
    BY <2>2, <2>4, <2>8
  <2> QED
    BY <2>7, <2>9 DEF X
<1>2. BundlesAreFew => ResolutionIsHonest
  <2> SUFFICES ASSUME BundlesAreFew PROVE ResolutionIsHonest
    OBVIOUS
  <2>1. \A q \in Queries : /\ InPack(q.pack) \subseteq bundles /\ IsFiniteSet(InPack(q.pack))
                           /\ Cardinality(InPack(q.pack)) <= MaxBundles
    <3> TAKE q \in Queries
    <3> DEFINE S == InPack(q.pack)
    <3>1. S \subseteq bundles /\ IsFiniteSet(bundles) /\ Cardinality(bundles) <= MaxBundles
      BY DEF InPack, BundlesAreFew
    <3> HIDE DEF S
    <3>2. IsFiniteSet(S) /\ Cardinality(S) <= Cardinality(bundles)
      BY <3>1, FS_Subset
    <3>3. Cardinality(S) \in Nat /\ Cardinality(bundles) \in Nat /\ MaxBundles \in Nat
      BY <3>1, <3>2, FS_CardinalityType, ComparisonAssumption
    <3>4. S \subseteq bundles /\ IsFiniteSet(S) /\ Cardinality(S) <= MaxBundles
      BY <3>1, <3>2, <3>3
    <3> QED
      BY <3>4 DEF S
  <2> QED
    BY <1>1, <2>1 DEF ResolutionIsHonest
<1> QED
  BY <1>2, BundlesStayFew, PTL

\* Both together, for any bundles, queries and planning targets, wherever the exact
\* test stops and whatever the drawn signs are.
THEOREM AnswersStayConsistent == ComparisonSpec => []AnswersAreConsistent
<1>1. (ResolutionIsHonest /\ ReadyEdgesAreTested) => AnswersAreConsistent
  BY DEF AnswersAreConsistent
<1> QED
  BY <1>1, ResolutionHolds, EdgesAreTested, PTL

-----------------------------------------------------------------------------
(***************************************************************************)
(* Comparison: a direction is earned.                                      *)
(***************************************************************************)

\* The interval of integer effects holds their sum, for every family.
LEMMA IntervalHoldsSum ==
    ASSUME NEW f, IsFiniteSet(DOMAIN f), DOMAIN f # {}, \A b \in DOMAIN f : f[b] \in Int,
           NEW family \in Nat \ {0}
    PROVE  /\ Sum(f) \in Int
           /\ paired_interval(f, family).lower \in Int /\ paired_interval(f, family).upper \in Int
           /\ paired_interval(f, family).lower <= Sum(f)
           /\ Sum(f) <= paired_interval(f, family).upper
<1> DEFINE n == Cardinality(DOMAIN f)
           odds == 40 * family
           T == Times(Choice(f), n)
<1>1. n \in Nat /\ odds \in Nat /\ odds >= 40
  BY FS_CardinalityType
<1>2. paired_interval(f, family) = [lower |-> Lower(T, odds), upper |-> Upper(T, odds)]
  BY QuantileSets DEF paired_interval
<1>3. Sum(f) = Sigma(f, DOMAIN f)
  BY SumOfFunction DEF Sum, SumFunction
<1> HIDE DEF odds
<1>4. /\ Sigma(f, DOMAIN f) \in Int
      /\ Lower(T, odds) <= Sigma(f, DOMAIN f) /\ Sigma(f, DOMAIN f) <= Upper(T, odds)
  BY <1>1, IntervalHoldsMean
<1>5. Dist(Choice(f))
  BY ChoiceDist
<1> HIDE DEF n
<1>6. Dist(T)
  BY <1>1, <1>5, TimesNegated
<1> HIDE DEF T
<1>7. Lower(T, odds) \in Int /\ Upper(T, odds) \in Int
  BY <1>1, <1>6, QuantilesBound
<1> QED
  BY <1>2, <1>3, <1>4, <1>7

\* A direction is earned, for any bundles and queries: an objective is decisive only
\* when the mean of its effects is beyond its floor, because the interval on which
\* the decision rests holds that mean whatever the effects are.
THEOREM DirectionsAreEarned == ComparisonSpec => []DirectionIsEarned
<1>1. ASSUME NEW q \in Queries, NEW S, S \subseteq bundles, IsFiniteSet(S),
             NEW x \in objectives_result(S, q)
      PROVE  LET n == Cardinality(DOMAIN x.row.effects)
                 floor == q.floor[x.row.objective]
             IN /\ x.class = "LEFT_BETTER" => 1 * Sum(x.row.effects) > floor * n
                /\ x.class = "RIGHT_BETTER" => (-1) * Sum(x.row.effects) > floor * n
  <2> DEFINE O == TestedObjectives(S, q)
             m == FamilyOf(S, q)
  <2>1. IsFiniteSet(q.objectives) /\ O \subseteq q.objectives /\ (O # {} => m \in Nat \ {0})
    BY FamilyIsPositive
  <2>2. PICK o \in O : x = OutcomeOf(S, q, o)
    BY <2>1, ResultByObjective
  <2> DEFINE f == effects(S, q, o)
             n == Cardinality(DOMAIN f)
             floor == q.floor[o]
             i == paired_interval(f, 1)
             j == paired_interval(f, m)
             row == RowOf(S, q, o)
             decision == IF floor = 0 THEN i ELSE j
  <2>3. /\ x.row = row /\ x.class = classification(row, floor)
        /\ row.objective = o /\ row.effects = f /\ row.interval = i /\ row.simultaneous = j
    BY <2>2 DEF OutcomeOf, RowOf
  <2>4. n >= MIN_BASELINE_SUBMISSIONS
    BY DEF TestedObjectives
  <2>5. floor \in Nat
    BY <2>1, ComparisonAssumption DEF ValidQuery, ValidFloors
  <2>6. m \in Nat \ {0} /\ 1 \in Nat \ {0}
    BY <2>1
  <2>8. IsFiniteSet(DOMAIN f) /\ \A b \in DOMAIN f : f[b] \in Int
    BY <1>1, <2>1, EffectsAreNumbers
  <2>9. DOMAIN f # {} /\ n \in Nat
    <3>1. n \in Nat
      BY <2>8, FS_CardinalityType
    <3>2. n # 0
      BY <2>4, <3>1 DEF MIN_BASELINE_SUBMISSIONS
    <3> QED
      BY <3>1, <3>2, FS_EmptySet
  <2> DEFINE decided == /\ x.class = "LEFT_BETTER" => decision.lower > floor * n
                        /\ x.class = "RIGHT_BETTER" => decision.upper < -floor * n
  <2>10. decided
    <3>1. x.class = (IF ~BelowAlpha(row.p_holm) THEN "INCONCLUSIVE"
                     ELSE IF decision.lower > floor * n THEN "LEFT_BETTER"
                     ELSE IF decision.upper < -floor * n THEN "RIGHT_BETTER"
                     ELSE IF i.lower > 0 THEN "LEFT_SMALL_EFFECT"
                     ELSE IF i.upper < 0 THEN "RIGHT_SMALL_EFFECT"
                     ELSE "INCONCLUSIVE")
      BY <2>3 DEF classification
    <3> HIDE DEF decision, floor, n, row, i
    <3> QED
      BY <3>1
  <2> HIDE DEF f, i, j, row, floor
  <2>11. /\ Sum(f) \in Int
         /\ i.lower \in Int /\ i.upper \in Int /\ i.lower <= Sum(f) /\ Sum(f) <= i.upper
         /\ j.lower \in Int /\ j.upper \in Int /\ j.lower <= Sum(f) /\ Sum(f) <= j.upper
    BY <2>6, <2>8, <2>9, IntervalHoldsSum DEF i, j
  <2>12. /\ decision.lower \in Int /\ decision.upper \in Int
         /\ decision.lower <= Sum(f) /\ Sum(f) <= decision.upper
    BY <2>11
  <2> HIDE DEF decision, n
  <2>13. floor * n \in Int /\ -floor * n = -(floor * n)
    BY <2>5, <2>9
  <2>14. /\ x.class = "LEFT_BETTER" => Sum(f) > floor * n
         /\ x.class = "RIGHT_BETTER" => -Sum(f) > floor * n
    BY <2>10, <2>11, <2>12, <2>13
  <2>15. 1 * Sum(f) = Sum(f) /\ (-1) * Sum(f) = -Sum(f)
    BY <2>11
  <2> QED
    BY <2>3, <2>14, <2>15 DEF n, floor
<1>2. BundlesAreFew => DirectionIsEarned
  <2> SUFFICES ASSUME BundlesAreFew PROVE DirectionIsEarned
    OBVIOUS
  <2>1. \A q \in Queries : InPack(q.pack) \subseteq bundles /\ IsFiniteSet(InPack(q.pack))
    BY FS_Subset DEF InPack, BundlesAreFew
  <2> QED
    BY <1>1, <2>1 DEF DirectionIsEarned
<1> QED
  BY <1>2, BundlesStayFew, PTL

-----------------------------------------------------------------------------
(***************************************************************************)
(* Submission, for every set of accounts and bundles and any number of     *)
(* failed requests, lost answers and kills.                                *)
(***************************************************************************)

\* A running command has a bundle.
CommandHasBundle == \A u \in Users : client[u].pc # "idle" => client[u].bundle \in Bundles

\* Whatever a branch can be made of is on the default branch of the repository
\* already: the fork's copy, the commit that a command has read and the bases of
\* the branches that exist.
BasesAreUpstream ==
    /\ \A u \in Contributors : synced[u] \subseteq upstream
    /\ \A u \in Users : client[u].pc = "branch" => client[u].sha \subseteq upstream
    /\ \A h \in Users \X Bundles : branch[h] # Missing => branch[h].base \subseteq upstream

\* A command that is about to open a pull request has put its file on the branch.
FileIsPut ==
    \A u \in Users : client[u].pc = "pull" /\ branch[HeadRef(u)] # Missing =>
        branch[HeadRef(u)].file /\ client[u].bundle \notin branch[HeadRef(u)].base

\* An open pull request has its file, on a branch that did not hold it.
PullHasFile ==
    \A p \in pulls : branch[p] # Missing /\ branch[p].file /\ p[2] \notin branch[p].base

\* PullIsOneFile with what the steps towards a pull request have established.
IInv == TypeOK /\ CommandHasBundle /\ BasesAreUpstream /\ FileIsPut /\ PullHasFile

USE DEF Users

BranchType == [base : SUBSET Bundles, file : BOOLEAN]
ClientType == [pc : Steps, bundle : Bundles \cup {Missing}, sha : (SUBSET Bundles) \cup {Missing}]

-----------------------------------------------------------------------------
\* The invariant holds initially.
LEMMA InitIInv == Init => IInv
<1> SUFFICES ASSUME Init PROVE IInv
  OBVIOUS
<1>1. TypeOK
  BY FaultsAssumption DEF Init, TypeOK, Idle, Steps
<1>2. CommandHasBundle /\ BasesAreUpstream /\ FileIsPut /\ PullHasFile
  BY DEF Init, Idle, CommandHasBundle, BasesAreUpstream, FileIsPut, PullHasFile
<1> QED
  BY <1>1, <1>2 DEF IInv

\* A step of the command of u changes the command of nobody else and moves u
\* through well-formed states.
LEMMA AtType ==
    ASSUME TypeOK, NEW u \in Users, NEW pc \in Steps, At(u, pc)
    PROVE  /\ client' \in [Users -> ClientType] /\ waiting' = waiting
           /\ client'[u].pc = pc /\ client'[u].bundle = client[u].bundle
           /\ \A v \in Users \ {u} : client'[v] = client[v]
BY DEF TypeOK, At, ClientType

\* A command that ends leaves the commands of the other users alone.
LEMMA EndType ==
    ASSUME TypeOK, CommandHasBundle, NEW u \in Users, NEW how,
           client[u].pc # "idle",
           how = "not ready" => u \in Contributors, End(u, how)
    PROVE  /\ client' \in [Users -> ClientType] /\ waiting' \subseteq Contributors \X Bundles
           /\ client'[u].pc = "idle"
           /\ \A v \in Users \ {u} : client'[v] = client[v]
<1>1. Idle \in ClientType /\ Idle.pc = "idle"
  BY DEF Idle, ClientType, Steps
<1>2. client \in [Users -> ClientType] /\ waiting \subseteq Contributors \X Bundles
  BY DEF TypeOK, ClientType
<1>3. client' = [client EXCEPT ![u] = Idle]
  BY DEF End
<1>4. waiting' \subseteq Contributors \X Bundles
  <2>1. CASE how = "not ready"
    <3>1. HeadRef(u) \in Contributors \X Bundles
      BY <2>1 DEF HeadRef, CommandHasBundle
    <3> QED
      BY <3>1, <1>2, <2>1 DEF End
  <2>2. CASE how # "not ready"
    BY <1>2, <2>2 DEF End
  <2> QED
    BY <2>1, <2>2
<1> QED
  BY <1>1, <1>2, <1>3, <1>4

\* A step that leaves GitHub alone and moves one command keeps the invariant,
\* unless it moves the command on to creating a branch or a pull request.
LEMMA ClientStep ==
    ASSUME IInv, NEW u \in Users, UNCHANGED github, faults' \in 0..MaxFaults,
           client' \in [Users -> ClientType], waiting' \subseteq Contributors \X Bundles,
           \A v \in Users \ {u} : client'[v] = client[v],
           client'[u].pc # "idle" => client'[u].bundle \in Bundles,
           client'[u].pc = "branch" => client'[u].sha \subseteq upstream,
           client'[u].pc # "pull"
    PROVE  IInv'
<1>1. TypeOK'
  BY DEF IInv, TypeOK, github, ClientType
<1>2. CommandHasBundle'
  BY DEF IInv, CommandHasBundle
<1>3. BasesAreUpstream'
  BY DEF IInv, BasesAreUpstream, github
<1>4. FileIsPut'
  BY DEF IInv, FileIsPut, github, HeadRef
<1>5. PullHasFile'
  BY DEF IInv, PullHasFile, github
<1> QED
  BY <1>1, <1>2, <1>3, <1>4, <1>5 DEF IInv

\* A command that ends leaves the invariant as it is.
LEMMA EndStep ==
    ASSUME IInv, NEW u \in Users, NEW how, client[u].pc # "idle", UNCHANGED github,
           faults' \in 0..MaxFaults, how = "not ready" => u \in Contributors, End(u, how)
    PROVE  IInv'
<1>1. /\ client' \in [Users -> ClientType] /\ waiting' \subseteq Contributors \X Bundles
      /\ client'[u].pc = "idle"
      /\ \A v \in Users \ {u} : client'[v] = client[v]
  BY EndType DEF IInv
<1> QED
  BY <1>1, ClientStep

\* Every step keeps the invariant.
LEMMA NextIInv == IInv /\ [Next]_vars => IInv'
<1> SUFFICES ASSUME IInv, [Next]_vars PROVE IInv'
  OBVIOUS
<1>0. /\ TypeOK /\ CommandHasBundle /\ faults \in 0..MaxFaults
      /\ client \in [Users -> ClientType] /\ waiting \subseteq Contributors \X Bundles
  BY DEF IInv, TypeOK, ClientType
<1>1. ASSUME NEW u \in Users, NEW b \in Bundles, Submit(u, b)
      PROVE  IInv'
  <2>1. [pc |-> "check", bundle |-> b, sha |-> Missing] \in ClientType
    BY DEF ClientType, Steps
  <2> QED
    BY <1>0, <1>1, <2>1, ClientStep DEF Submit
<1>2. ASSUME NEW u \in Users, CheckPublished(u)
      PROVE  IInv'
  <2>1. CASE client[u].bundle \in upstream
    BY <1>0, <1>2, <2>1, EndStep DEF CheckPublished
  <2>2. CASE client[u].bundle \notin upstream
    <3>1. PICK pc \in {"ref", "fork"} : At(u, pc)
      BY <1>2, <2>2 DEF CheckPublished
    <3> QED
      BY <1>0, <1>2, <3>1, AtType, ClientStep DEF CheckPublished, Steps, CommandHasBundle
  <2> QED
    BY <2>1, <2>2
<1>3. ASSUME NEW u \in Users, GetBaseRef(u)
      PROVE  IInv'
  <2>1. (IF u = Owner THEN upstream ELSE synced[u]) \subseteq upstream
    BY DEF IInv, BasesAreUpstream
  <2>2. upstream \subseteq Bundles
    BY <1>0 DEF TypeOK
  <2>3. client' \in [Users -> ClientType] /\ client'[u].pc = "branch"
        /\ client'[u].sha = (IF u = Owner THEN upstream ELSE synced[u])
        /\ client'[u].bundle = client[u].bundle
        /\ \A v \in Users \ {u} : client'[v] = client[v]
    BY <1>0, <1>3, <2>1, <2>2 DEF GetBaseRef, ClientType, Steps
  <2> QED
    BY <1>0, <1>3, <2>1, <2>3, ClientStep DEF GetBaseRef, CommandHasBundle
<1>4. ASSUME NEW u \in Users, CreateBranch(u)
      PROVE  IInv'
  <2>0. client[u].pc = "branch" /\ client[u].bundle \in Bundles /\ HeadRef(u) \in Users \X Bundles
    BY <1>0, <1>4 DEF CreateBranch, CommandHasBundle, HeadRef
  <2>1. CASE branch[HeadRef(u)] # Missing
    BY <1>0, <1>4, <2>0, <2>1, EndStep DEF CreateBranch, github
  <2>2. CASE branch[HeadRef(u)] = Missing
    <3> DEFINE new == [base |-> client[u].sha, file |-> FALSE]
    <3>1. /\ branch' = [branch EXCEPT ![HeadRef(u)] = new] /\ At(u, "put")
          /\ UNCHANGED <<upstream, fork, synced, pulls, faults>>
      BY <1>4, <2>2 DEF CreateBranch
    <3>2. client[u].sha \subseteq upstream /\ upstream \subseteq Bundles
      BY <2>0, <1>0 DEF IInv, BasesAreUpstream, TypeOK
    <3>3. new \in BranchType
      BY <3>2 DEF BranchType
    <3>4. branch \in [Users \X Bundles -> BranchType \cup {Missing}]
      BY <1>0 DEF TypeOK, BranchType
    <3>5. /\ branch' \in [Users \X Bundles -> BranchType \cup {Missing}]
          /\ branch'[HeadRef(u)] = new
          /\ \A h \in Users \X Bundles : h # HeadRef(u) => branch'[h] = branch[h]
      BY <2>0, <3>1, <3>3, <3>4
    <3>6. /\ client' \in [Users -> ClientType] /\ waiting' = waiting
          /\ client'[u].pc = "put" /\ client'[u].bundle = client[u].bundle
          /\ \A v \in Users \ {u} : client'[v] = client[v]
      BY <1>0, <3>1, AtType DEF Steps
    <3>7. TypeOK'
      BY <1>0, <3>1, <3>5, <3>6 DEF TypeOK, ClientType, BranchType
    <3>8. CommandHasBundle'
      BY <1>0, <2>0, <3>6 DEF CommandHasBundle
    <3>9. BasesAreUpstream'
      <4>1. new.base \subseteq upstream
        BY <3>2
      <4>2. \A h \in Users \X Bundles : branch'[h] # Missing => branch'[h].base \subseteq upstream
        BY <4>1, <3>5 DEF IInv, BasesAreUpstream
      <4> QED
        BY <4>2, <3>1, <3>6 DEF IInv, BasesAreUpstream
    <3>10. FileIsPut'
      <4> SUFFICES ASSUME NEW v \in Users, client'[v].pc = "pull", branch'[HeadRef(v)'] # Missing
                   PROVE  branch'[HeadRef(v)'].file /\ client'[v].bundle \notin branch'[HeadRef(v)'].base
        BY DEF FileIsPut
      <4>1. v # u /\ client'[v] = client[v] /\ HeadRef(v)' = HeadRef(v)
        BY <3>6 DEF HeadRef
      <4>2. HeadRef(v) # HeadRef(u) /\ HeadRef(v) \in Users \X Bundles
        BY <4>1, <1>0 DEF HeadRef, CommandHasBundle
      <4> QED
        BY <4>1, <4>2, <3>5 DEF IInv, FileIsPut
    <3>11. PullHasFile'
      BY <3>1, <3>5, <2>2, <1>0 DEF IInv, PullHasFile, TypeOK
    <3> QED
      BY <3>7, <3>8, <3>9, <3>10, <3>11 DEF IInv
  <2> QED
    BY <2>1, <2>2
<1>5. ASSUME NEW u \in Users, PutFile(u)
      PROVE  IInv'
  <2>0. client[u].pc = "put" /\ client[u].bundle \in Bundles /\ HeadRef(u) \in Users \X Bundles
    BY <1>0, <1>5 DEF PutFile, CommandHasBundle, HeadRef
  <2>1. CASE branch[HeadRef(u)] = Missing \/ client[u].bundle \in branch[HeadRef(u)].base
    BY <1>0, <1>5, <2>0, <2>1, EndStep DEF PutFile, github
  <2>2. CASE branch[HeadRef(u)] # Missing /\ client[u].bundle \notin branch[HeadRef(u)].base
    <3> DEFINE new == [branch[HeadRef(u)] EXCEPT !.file = TRUE]
    <3>1. /\ branch' = [branch EXCEPT ![HeadRef(u)] = new] /\ At(u, "pull")
          /\ UNCHANGED <<upstream, fork, synced, pulls, faults>>
      BY <1>5, <2>2 DEF PutFile
    <3>2. branch \in [Users \X Bundles -> BranchType \cup {Missing}]
      BY <1>0 DEF TypeOK, BranchType
    <3>3. new \in BranchType /\ new # Missing /\ new.file /\ new.base = branch[HeadRef(u)].base
      BY <2>0, <2>2, <3>2, MissingAssumption DEF BranchType
    <3>5. /\ branch' \in [Users \X Bundles -> BranchType \cup {Missing}]
          /\ branch'[HeadRef(u)] = new
          /\ \A h \in Users \X Bundles : h # HeadRef(u) => branch'[h] = branch[h]
      BY <2>0, <3>1, <3>2, <3>3
    <3>6. /\ client' \in [Users -> ClientType] /\ waiting' = waiting
          /\ client'[u].pc = "pull" /\ client'[u].bundle = client[u].bundle
          /\ \A v \in Users \ {u} : client'[v] = client[v]
      BY <1>0, <3>1, AtType DEF Steps
    <3>7. TypeOK'
      BY <1>0, <3>1, <3>5, <3>6 DEF TypeOK, ClientType, BranchType
    <3>8. CommandHasBundle'
      BY <1>0, <2>0, <3>6 DEF CommandHasBundle
    <3>9. BasesAreUpstream'
      <4>0. \A h \in Users \X Bundles : branch[h] # Missing => branch[h].base \subseteq upstream
        BY DEF IInv, BasesAreUpstream
      <4>1. ASSUME NEW h \in Users \X Bundles, branch'[h] # Missing
            PROVE  branch'[h].base \subseteq upstream
        <5>1. CASE h = HeadRef(u)
          <6>1. branch'[h].base = branch[h].base
            BY <3>3, <3>5, <5>1
          <6> QED
            BY <6>1, <4>0, <5>1, <2>2
        <5>2. CASE h # HeadRef(u)
          BY <4>0, <4>1, <3>5, <5>2
        <5> QED
          BY <5>1, <5>2
      <4> QED
        BY <4>1, <3>1, <3>6 DEF IInv, BasesAreUpstream
    <3>10. FileIsPut'
      <4> SUFFICES ASSUME NEW v \in Users, client'[v].pc = "pull", branch'[HeadRef(v)'] # Missing
                   PROVE  branch'[HeadRef(v)'].file /\ client'[v].bundle \notin branch'[HeadRef(v)'].base
        BY DEF FileIsPut
      <4>1. CASE v = u
        <5>1. HeadRef(v)' = HeadRef(u) /\ client'[v].bundle = client[u].bundle
          BY <4>1, <3>6 DEF HeadRef
        <5> QED
          BY <5>1, <2>2, <3>3, <3>5
      <4>2. CASE v # u
        <5>1. client'[v] = client[v] /\ HeadRef(v)' = HeadRef(v)
          BY <4>2, <3>6 DEF HeadRef
        <5>2. HeadRef(v) # HeadRef(u) /\ HeadRef(v) \in Users \X Bundles
          BY <4>2, <5>1, <1>0 DEF HeadRef, CommandHasBundle
        <5> QED
          BY <5>1, <5>2, <3>5 DEF IInv, FileIsPut
      <4> QED
        BY <4>1, <4>2
    <3>11. PullHasFile'
      BY <3>1, <3>3, <3>5, <1>0 DEF IInv, PullHasFile, TypeOK
    <3> QED
      BY <3>7, <3>8, <3>9, <3>10, <3>11 DEF IInv
  <2> QED
    BY <2>1, <2>2
<1>6. ASSUME NEW u \in Users, OpenPull(u)
      PROVE  IInv'
  <2>0. client[u].pc = "pull" /\ client[u].bundle \in Bundles /\ HeadRef(u) \in Users \X Bundles
    BY <1>0, <1>6 DEF OpenPull, CommandHasBundle, HeadRef
  <2>1. CASE branch[HeadRef(u)] = Missing \/ HeadRef(u) \in pulls
    BY <1>0, <1>6, <2>0, <2>1, EndStep DEF OpenPull, github
  <2>2. CASE branch[HeadRef(u)] # Missing /\ HeadRef(u) \notin pulls
    <3>1. /\ pulls' = pulls \cup {HeadRef(u)} /\ End(u, "opened")
          /\ UNCHANGED <<upstream, fork, synced, branch, faults>>
      BY <1>6, <2>2 DEF OpenPull
    <3>2. /\ client' \in [Users -> ClientType] /\ waiting' \subseteq Contributors \X Bundles
          /\ client'[u].pc = "idle"
          /\ \A v \in Users \ {u} : client'[v] = client[v]
      BY <1>0, <2>0, <3>1, EndType
    <3>3. TypeOK'
      BY <1>0, <2>0, <3>1, <3>2 DEF TypeOK, ClientType
    <3>4. CommandHasBundle'
      BY <1>0, <3>2 DEF CommandHasBundle
    <3>5. BasesAreUpstream'
      BY <3>1, <3>2 DEF IInv, BasesAreUpstream
    <3>6. FileIsPut'
      BY <3>1, <3>2 DEF IInv, FileIsPut, HeadRef
    <3>7. branch[HeadRef(u)].file /\ HeadRef(u)[2] \notin branch[HeadRef(u)].base
      BY <2>0, <2>2 DEF IInv, FileIsPut, HeadRef
    <3>8. PullHasFile'
      BY <2>2, <3>1, <3>7 DEF IInv, PullHasFile
    <3> QED
      BY <3>3, <3>4, <3>5, <3>6, <3>8 DEF IInv
  <2> QED
    BY <2>1, <2>2
<1>7. ASSUME NEW u \in Users, Fail(u)
      PROVE  IInv'
  <2>1. faults' \in 0..MaxFaults
    BY <1>0, <1>7, FaultsAssumption DEF Fail
  <2> QED
    BY <1>7, <2>1, EndStep DEF Fail
<1>8. ASSUME NEW u \in Users, NEW b \in Bundles, DeleteBranch(u, b)
      PROVE  IInv'
  <2>1. /\ client[u].pc = "idle" /\ branch' = [branch EXCEPT ![<<u, b>>] = Missing]
        /\ pulls' = pulls \ {<<u, b>>}
        /\ UNCHANGED <<upstream, fork, synced, client, waiting, faults>>
    BY <1>8 DEF DeleteBranch
  <2>2. /\ branch' \in [Users \X Bundles -> BranchType \cup {Missing}]
        /\ branch'[<<u, b>>] = Missing
        /\ \A h \in Users \X Bundles : h # <<u, b>> => branch'[h] = branch[h]
    BY <1>0, <2>1 DEF TypeOK, BranchType
  <2>3. TypeOK'
    BY <1>0, <2>1, <2>2 DEF TypeOK, BranchType
  <2>4. CommandHasBundle'
    BY <1>0, <2>1 DEF CommandHasBundle
  <2>5. BasesAreUpstream'
    BY <2>1, <2>2 DEF IInv, BasesAreUpstream
  <2>6. FileIsPut'
    BY <1>0, <2>1, <2>2 DEF IInv, FileIsPut, HeadRef, CommandHasBundle
  <2>7. PullHasFile'
    BY <1>0, <2>1, <2>2 DEF IInv, PullHasFile, TypeOK
  <2> QED
    BY <2>3, <2>4, <2>5, <2>6, <2>7 DEF IInv
<1>9. ASSUME NEW u \in Contributors, FindFork(u)
      PROVE  IInv'
  <2>1. PICK pc \in {"sync", "poll"} : At(u, pc)
    BY <1>9 DEF FindFork
  <2>2. UNCHANGED <<upstream, synced, branch, pulls, faults>>
        /\ fork' \in [Contributors -> {"none", "pending", "ready"}]
    BY <1>0, <1>9 DEF FindFork, TypeOK
  <2>3. /\ client' \in [Users -> ClientType] /\ waiting' = waiting
        /\ client'[u].pc = pc /\ client'[u].bundle = client[u].bundle
        /\ \A v \in Users \ {u} : client'[v] = client[v]
    BY <1>0, <2>1, AtType DEF Steps
  <2>4. TypeOK'
    BY <1>0, <2>2, <2>3 DEF TypeOK, ClientType
  <2>5. CommandHasBundle'
    BY <1>0, <1>9, <2>3 DEF CommandHasBundle, FindFork
  <2>6. BasesAreUpstream' /\ FileIsPut' /\ PullHasFile'
    BY <2>2, <2>3 DEF IInv, BasesAreUpstream, FileIsPut, PullHasFile, HeadRef
  <2> QED
    BY <2>4, <2>5, <2>6 DEF IInv
<1>10. ASSUME NEW u \in Contributors, PollFork(u)
       PROVE  IInv'
  <2>1. CASE At(u, "sync")
    BY <1>0, <1>10, <2>1, AtType, ClientStep DEF PollFork, Steps, CommandHasBundle
  <2>2. CASE End(u, "not ready")
    BY <1>0, <1>10, <2>2, EndStep DEF PollFork
  <2> QED
    BY <1>10, <2>1, <2>2 DEF PollFork
<1>11. ASSUME NEW u \in Contributors, MergeUpstream(u)
       PROVE  IInv'
  <2>1. /\ client[u].pc = "sync" /\ At(u, "ref") /\ synced' = [synced EXCEPT ![u] = upstream]
        /\ UNCHANGED <<upstream, fork, branch, pulls, faults>>
    BY <1>11 DEF MergeUpstream
  <2>2. /\ client' \in [Users -> ClientType] /\ waiting' = waiting
        /\ client'[u].pc = "ref" /\ client'[u].bundle = client[u].bundle
        /\ \A v \in Users \ {u} : client'[v] = client[v]
    BY <1>0, <2>1, AtType DEF Steps
  <2>3. TypeOK'
    BY <1>0, <2>1, <2>2 DEF TypeOK, ClientType
  <2>4. CommandHasBundle'
    BY <1>0, <2>1, <2>2 DEF CommandHasBundle
  <2>5. BasesAreUpstream' /\ FileIsPut' /\ PullHasFile'
    BY <1>0, <2>1, <2>2 DEF IInv, BasesAreUpstream, FileIsPut, PullHasFile, HeadRef, TypeOK
  <2> QED
    BY <2>3, <2>4, <2>5 DEF IInv
<1>12. ASSUME NEW u \in Contributors, ForkReady(u)
       PROVE  IInv'
  <2>1. /\ fork' = [fork EXCEPT ![u] = "ready"] /\ synced' = [synced EXCEPT ![u] = upstream]
        /\ UNCHANGED <<upstream, branch, pulls, client, waiting, faults>>
    BY <1>12 DEF ForkReady
  <2>2. TypeOK'
    BY <1>0, <2>1 DEF TypeOK
  <2> QED
    BY <1>0, <2>1, <2>2 DEF IInv, CommandHasBundle, BasesAreUpstream, FileIsPut, PullHasFile,
                            HeadRef, TypeOK
<1>13. ASSUME NEW p \in pulls, Merge(p)
       PROVE  IInv'
  <2>1. /\ upstream' = upstream \cup {p[2]} /\ pulls' = pulls \ {p}
        /\ UNCHANGED <<fork, synced, branch, client, waiting, faults>>
    BY <1>13 DEF Merge
  <2>2. TypeOK'
    BY <1>0, <2>1 DEF TypeOK
  <2>3. BasesAreUpstream'
    BY <2>1 DEF IInv, BasesAreUpstream
  <2> QED
    BY <1>0, <2>1, <2>2, <2>3 DEF IInv, CommandHasBundle, FileIsPut, PullHasFile, HeadRef
<1>14. CASE UNCHANGED vars
  BY <1>0, <1>14 DEF vars, github, IInv, TypeOK, CommandHasBundle, BasesAreUpstream, FileIsPut,
                     PullHasFile, HeadRef
<1> QED
  BY <1>1, <1>2, <1>3, <1>4, <1>5, <1>6, <1>7, <1>8, <1>9, <1>10, <1>11, <1>12, <1>13, <1>14
  DEF Next, Command, ForkCommand

\* The invariant gives the property.
LEMMA IInvSuffices == IInv => PullIsOneFile
BY DEF IInv, TypeOK, BasesAreUpstream, PullHasFile, PullIsOneFile

\* Every reachable state of open_submission_pr's world is well formed: a command is
\* at one of its steps, a head that waits for its fork is a contributor's.
THEOREM TypeCorrect == Spec => []TypeOK
<1>1. IInv => TypeOK
  BY DEF IInv
<1> QED
  BY InitIInv, NextIInv, <1>1, PTL DEF Spec

\* Whatever the accounts submit, retry and delete, whatever the maintainer merges and
\* however many requests fail, an open pull request has its branch, and merging it
\* adds exactly the file of its bundle to the repository (open_submission_pr).
THEOREM PullAddsOneFile == Spec => []PullIsOneFile
BY InitIInv, NextIInv, IInvSuffices, PTL DEF Spec
=============================================================================
