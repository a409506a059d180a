---------------------------- MODULE Comparison -----------------------------
(***************************************************************************)
(* What the public bundles say about two exact configurations (results     *)
(* compare) and whether they are enough to fit a model to (results         *)
(* readiness).  Both collapse each bundle to one observation for every     *)
(* configuration in it and then count, pair and test on their own.         *)
(*                                                                         *)
(* One round is modelled.  A bundle holds rows of                          *)
(*   [configuration, passed, total, lost, walls]                           *)
(* with lost the answers that were not graded and walls a sequence of      *)
(* <<seconds, tokens>>.  A configuration is a record                       *)
(*   [model, environment], environment None when it was not attested.      *)
(***************************************************************************)
EXTENDS Integers, Sequences, FiniteSets, FiniteSetsExt, Functions, Bootstrap

CONSTANTS
    None,                \* an absent value
    Kinds, Body,         \* bundle contents: Body[k] = [pack, rows]
    Queries,             \* [left, right, objectives, pack, family, floor : objective -> effect]
    Thresholds,          \* the planning targets of the readiness audit
    ExactPairs,          \* pairs whose signs are all tried; the code tries 2^16
    Sampled,             \* how many signs drawn for more pairs came out extreme,
                         \* objective by objective and by number of pairs
    MaxBundles           \* bound: accepted bundles

VARIABLE accepted        \* how many bundles of each kind were accepted

MIN_BASELINE_SUBMISSIONS == 5
RECOMMENDATION_OBJECTIVES == {"accuracy", "completion", "latency", "throughput"}

bundles == UNION {{<<k, i>> : i \in 1..accepted[k]} : k \in Kinds}

(***************************************************************************)
(* One observation of a bundle for each configuration: _bundle_observations.*)
(* Rates are in units of 1 / UNIT.                                         *)
(***************************************************************************)
UNIT == 12

\* _minimum_effects: floors of the asked objectives, and a rate differs by 1 at most.
ValidFloors(q) ==
    \A o \in q.objectives :
        q.floor[o] \in Nat /\ (o \in {"accuracy", "completion"} => q.floor[o] <= UNIT)

\* The observable gates.
GATES == {"independent_objective_coverage", "configuration_diversity",
          "serving_environment_diversity", "paired_configuration_overlap",
          "cross_environment_model_repetition"}

\* The largest planning targets of audit_prediction_readiness.
MAX_TARGET == 1000
MAX_PAIRED_EDGES == 100000

\* _bounded_integer: the planning targets that the audit takes; one number of
\* configurations is the bound of two gates.
ValidThresholds ==
    /\ DOMAIN Thresholds.gates = GATES
    /\ Thresholds.target_bundles \in MIN_BASELINE_SUBMISSIONS..MAX_TARGET
    /\ Thresholds.gates.independent_objective_coverage = Thresholds.gates.configuration_diversity
    /\ Thresholds.gates.configuration_diversity \in 2..MAX_TARGET
    /\ Thresholds.gates.serving_environment_diversity \in 2..MAX_TARGET
    /\ Thresholds.gates.paired_configuration_overlap \in 1..MAX_PAIRED_EDGES
    /\ Thresholds.gates.cross_environment_model_repetition \in 1..MAX_TARGET

\* What compare_paired_observations takes.
ValidQuery(q) ==
    /\ {"left", "right"} \subseteq DOMAIN q /\ q.left # q.right
    /\ q.objectives \subseteq RECOMMENDATION_OBJECTIVES
    /\ q.objectives # {} /\ ValidFloors(q)
    /\ q.family # None => q.family \in Cardinality(q.objectives)..4

\* validate_public_result: counts, seconds and tokens are not negative.
ValidRow(r) ==
    /\ {r.passed, r.total, r.lost} \subseteq Nat
    /\ r.walls \in Seq(Nat \X (Nat \cup {None}))

ValidBodies ==
    \A k \in Kinds : /\ IsFiniteSet(DOMAIN Body[k].rows)
                     /\ \A i \in DOMAIN Body[k].rows : ValidRow(Body[k].rows[i])

SIGN_FLIP_MONTE_CARLO_SAMPLES == 20000

\* The seed of the draws names the objective, and any count can come out.
ValidSamples ==
    \A o \in RECOMMENDATION_OBJECTIVES, n \in 1..MaxBundles :
        Sampled[o][n] \in 0..SIGN_FLIP_MONTE_CARLO_SAMPLES

ASSUME ComparisonAssumption ==
    /\ \A q \in Queries : ValidQuery(q)
    /\ ValidThresholds /\ ValidBodies
    /\ MaxBundles \in Nat /\ ExactPairs \in Nat /\ ValidSamples

Sum(f) == SumFunction(f)

observation(k, c) ==
    LET rows   == Body[k].rows
        mine   == {i \in DOMAIN rows : rows[i].configuration = c}
        passed == Sum([i \in mine |-> rows[i].passed])
        total  == Sum([i \in mine |-> rows[i].total])
        lost   == Sum([i \in mine |-> rows[i].lost])
        items  == UNION {{<<i, j>> : j \in DOMAIN rows[i].walls} : i \in mine}
        Wall(x)   == rows[x[1]].walls[x[2]][1]
        Tokens(x) == rows[x[1]].walls[x[2]][2]
        timed  == {x \in items : Wall(x) > 0 /\ Tokens(x) # None}
    IN [accuracy   |-> IF total = 0 THEN None ELSE (UNIT * passed) \div total,
        completion |-> IF total + lost = 0 THEN None ELSE (UNIT * total) \div (total + lost),
        latency    |-> IF items = {} THEN None
                       ELSE Sum([x \in items |-> Wall(x)]) \div Cardinality(items),
        throughput |-> IF timed = {} THEN None
                       ELSE Sum([x \in timed |-> Tokens(x) \div Wall(x)]) \div Cardinality(timed)]

\* The observations of every kind of bundle, one for each configuration in it.
Rows(k) == {Body[k].rows[i].configuration : i \in DOMAIN Body[k].rows}
Observations == Table([k \in Kinds |-> Table([c \in Rows(k) |-> observation(k, c)])])

Holds(b, c) == c \in DOMAIN Observations[b[1]]
Observed(b, c, o) == Holds(b, c) /\ Observations[b[1]][c][o] # None

available_packs == {Body[b[1]].pack : b \in bundles}

\* The requested pack, or the only one there is.
SelectedPack(pack) ==
    IF pack # None THEN pack
    ELSE IF Cardinality(available_packs) = 1 THEN CHOOSE p \in available_packs : TRUE
    ELSE None

InPack(pack) == {b \in bundles : Body[b[1]].pack = SelectedPack(pack)}
ConfigurationsIn(S) == UNION {DOMAIN Observations[b[1]] : b \in S}

PackStatus(pack) ==
    IF pack = None /\ Cardinality(available_packs) > 1 THEN "PACK_REQUIRED"
    ELSE IF SelectedPack(pack) \notin available_packs THEN "NO_OBSERVATIONS"
    ELSE "SELECTED"

(***************************************************************************)
(* The test of one objective.  Effects are a function from the bundles to  *)
(* differences; positive favours left, lower latency is better.            *)
(***************************************************************************)
effects(S, q, o) ==
    Table([b \in {x \in S : Observed(x, q.left, o) /\ Observed(x, q.right, o)} |->
             LET l == Observations[b[1]][q.left][o] r == Observations[b[1]][q.right][o]
             IN IF o = "latency" THEN r - l ELSE l - r])

Abs(x) == IF x < 0 THEN -x ELSE x
Nonzero(f) == Cardinality({b \in DOMAIN f : f[b] # 0})

\* p values are multiples of 1 / PUNIT.
DRAWS == SIGN_FLIP_MONTE_CARLO_SAMPLES + 1
PUNIT == DRAWS * 2 ^ MaxBundles

\* SIGN_FLIP_EXACT_LIMIT: all signs are tried.
IsExact(f) == Cardinality(DOMAIN f) <= ExactPairs

\* Flipping the signs outside S turns the sum into 2 * (sum over S) - (sum over all).
exact_p(f) ==
    LET Flipped(S) == 2 * SumFunctionOnSet(f, S) - Sum(f)
        extreme == {S \in SUBSET DOMAIN f : Abs(Flipped(S)) >= Abs(Sum(f))}
    IN DRAWS * (Cardinality(extreme) * 2 ^ (MaxBundles - Cardinality(DOMAIN f)))

\* _sign_flip_test of the effects on an objective.  Beyond the limit signs are drawn,
\* and the observed ones count as one more draw.
sign_flip_test(f, o) ==
    IF IsExact(f) THEN exact_p(f)
    ELSE (Sampled[o][Cardinality(DOMAIN f)] + 1) * 2 ^ MaxBundles

\* p < FAMILYWISE_ALPHA, for a p value in units of 1 / PUNIT.
BelowAlpha(p) == 20 * p < PUNIT

\* The best p value that n effects other than zero can reach.
RawFloor(n) == IF n = 0 THEN PUNIT ELSE DRAWS * 2 ^ (MaxBundles + 1 - n)
FlooredAtOne(p) == IF p > PUNIT THEN PUNIT ELSE p

\* _inference_resolution.
DiscretePLimit(f, family) == ~BelowAlpha(FlooredAtOne(RawFloor(Nonzero(f)) * family))

\* Mutant of holm_adjust: every rank is multiplied by what is left after it.
holm_adjust_OffByOne(r, rows, family) ==
    FlooredAtOne(r.p_raw * (family - Cardinality({x \in rows : x.p_raw < r.p_raw}) - 1))

\* _holm_adjust: ranks by p; equal p values get the running maximum, which is
\* the adjustment of the first of them.
holm_adjust(r, rows, family) ==
    LET Adjusted(p) ==
            FlooredAtOne(p * (family - Cardinality({x \in rows : x.p_raw < p})))
    IN Max({Adjusted(x.p_raw) : x \in {y \in rows : y.p_raw <= r.p_raw}})

\* _paired_intervals, of the sum of the effects.
paired_interval(f, family) == Interval(Times(Choice(f), Cardinality(DOMAIN f)), 40 * family)

\* Mutant of classification: any effect will do, however small the floor makes it.
classification_NoFloor(r, floor) ==
    LET decision == IF floor = 0 THEN r.interval ELSE r.simultaneous
    IN IF ~BelowAlpha(r.p_holm) THEN "INCONCLUSIVE"
       ELSE IF decision.lower > 0 THEN "LEFT_BETTER"
       ELSE IF decision.upper < 0 THEN "RIGHT_BETTER"
       ELSE "INCONCLUSIVE"

\* Mutant of classification: the floor has the same sign on both sides.
classification_OneSign(r, floor) ==
    LET n == Cardinality(DOMAIN r.effects)
        decision == IF floor = 0 THEN r.interval ELSE r.simultaneous
    IN IF ~BelowAlpha(r.p_holm) THEN "INCONCLUSIVE"
       ELSE IF decision.lower > floor * n THEN "LEFT_BETTER"
       ELSE IF decision.upper < floor * n THEN "RIGHT_BETTER"
       ELSE IF r.interval.lower > 0 THEN "LEFT_SMALL_EFFECT"
       ELSE IF r.interval.upper < 0 THEN "RIGHT_SMALL_EFFECT"
       ELSE "INCONCLUSIVE"

\* The classification of a tested row.
classification(r, floor) ==
    LET n == Cardinality(DOMAIN r.effects)
        decision == IF floor = 0 THEN r.interval ELSE r.simultaneous
    IN IF ~BelowAlpha(r.p_holm) THEN "INCONCLUSIVE"
       ELSE IF decision.lower > floor * n THEN "LEFT_BETTER"
       ELSE IF decision.upper < -floor * n THEN "RIGHT_BETTER"
       ELSE IF r.interval.lower > 0 THEN "LEFT_SMALL_EFFECT"
       ELSE IF r.interval.upper < 0 THEN "RIGHT_SMALL_EFFECT"
       ELSE "INCONCLUSIVE"

\* The rows of the selected objectives; those with enough pairs are tested ...
objective_rows(S, q) == {[objective |-> o, effects |-> effects(S, q, o)] : o \in q.objectives}

tested(S, q) ==
    {[objective |-> r.objective, effects |-> r.effects,
      p_raw |-> sign_flip_test(r.effects, r.objective)] :
        r \in {x \in objective_rows(S, q) :
                  Cardinality(DOMAIN x.effects) >= MIN_BASELINE_SUBMISSIONS}}

\* ... adjusted across the family ...
adjusted(rows, family) ==
    {[objective |-> r.objective, effects |-> r.effects, p_raw |-> r.p_raw,
      p_holm |-> holm_adjust(r, rows, family),
      limited |-> DiscretePLimit(r.effects, family),
      interval |-> paired_interval(r.effects, 1),
      simultaneous |-> paired_interval(r.effects, family)] : r \in rows}

\* ... and classified.  The family is the reserved one, or what was tested.
objectives_result(S, q) ==
    UNION {{[row |-> r, class |-> classification(r, q.floor[r.objective])] :
               r \in adjusted(rows, IF q.family # None THEN q.family ELSE Cardinality(rows))} :
           rows \in {tested(S, q)}}

StatusOf(rows) ==
    LET classes == {x.class : x \in rows}
    IN IF rows = {} THEN "INSUFFICIENT_EVIDENCE"
       ELSE IF {"LEFT_BETTER", "RIGHT_BETTER"} \subseteq classes THEN "MIXED_DIRECTIONAL_EVIDENCE"
       ELSE IF "LEFT_BETTER" \in classes THEN "LEFT_DIRECTIONAL_EVIDENCE"
       ELSE IF "RIGHT_BETTER" \in classes THEN "RIGHT_DIRECTIONAL_EVIDENCE"
       ELSE IF {"LEFT_SMALL_EFFECT", "RIGHT_SMALL_EFFECT"} \intersect classes # {}
            THEN "STATISTICAL_ONLY_EVIDENCE"
       ELSE IF \A x \in rows : x.row.limited THEN "RESOLUTION_LIMITED"
       ELSE "INCONCLUSIVE"

compare_paired_observations(q) ==
    IF PackStatus(q.pack) # "SELECTED" THEN PackStatus(q.pack)
    ELSE IF ~({q.left, q.right} \subseteq ConfigurationsIn(InPack(q.pack))) THEN "NO_MATCH"
    ELSE StatusOf(objectives_result(InPack(q.pack), q))

(***************************************************************************)
(* audit_prediction_readiness.                                             *)
(***************************************************************************)
Support(S, c, o) == Cardinality({b \in S : Observed(b, c, o)})

meets_objective_targets(S, c, objectives) ==
    \A o \in objectives : Support(S, c, o) >= Thresholds.target_bundles

\* Mutant of eligible_edge: enough bundles of each configuration are enough.
eligible_edge_Unpaired(S, c, d, objectives) ==
    \A o \in objectives : /\ Support(S, c, o) >= MIN_BASELINE_SUBMISSIONS
                          /\ Support(S, d, o) >= MIN_BASELINE_SUBMISSIONS

\* A pair with enough shared bundles for every objective.
eligible_edge(S, c, d, objectives) ==
    \A o \in objectives :
        Cardinality({b \in S : Observed(b, c, o) /\ Observed(b, d, o)})
            >= MIN_BASELINE_SUBMISSIONS

paired_edges(S, objectives) ==
    {e \in {{c, d} : c, d \in ConfigurationsIn(S)} :
        Cardinality(e) = 2 /\ \A c, d \in e : c # d => eligible_edge(S, c, d, objectives)}

attested(S) == {c \in ConfigurationsIn(S) : c.environment # None}
serving_environments(S) == {c.environment : c \in attested(S)}

\* The model profiles with enough bundles in two environments.
environment_bridges(S) ==
    LET Bundles(m, e) == {b \in S : Holds(b, [model |-> m, environment |-> e])}
    IN {m \in {c.model : c \in attested(S)} :
          Cardinality({e \in serving_environments(S) :
                         Cardinality(Bundles(m, e)) >= MIN_BASELINE_SUBMISSIONS}) >= 2}

\* The observable gates that pass.
Gates(S, objectives) ==
    LET configurations == ConfigurationsIn(S)
        ready == {c \in configurations : meets_objective_targets(S, c, objectives)}
        current ==
           [independent_objective_coverage     |-> Cardinality(ready),
            configuration_diversity            |-> Cardinality(configurations),
            serving_environment_diversity      |-> Cardinality(serving_environments(S)),
            paired_configuration_overlap       |-> Cardinality(paired_edges(S, objectives)),
            cross_environment_model_repetition |-> Cardinality(environment_bridges(S))]
    IN {g \in DOMAIN current : current[g] >= Thresholds.gates[g]}

DesignTargetsMet(S, objectives) == Gates(S, objectives) = DOMAIN Thresholds.gates

audit_prediction_readiness(pack, objectives) ==
    IF PackStatus(pack) # "SELECTED" THEN PackStatus(pack)
    ELSE IF DesignTargetsMet(InPack(pack), objectives)
         THEN "DESIGN_TARGET_MET_VALIDATION_REQUIRED" ELSE "EVIDENCE_GAPS"

(***************************************************************************)
(* Bundles are accepted one at a time.                                     *)
(***************************************************************************)
InitBundles == accepted = [k \in Kinds |-> 0]

Accept(k) ==
    /\ Cardinality(bundles) < MaxBundles
    /\ accepted' = [accepted EXCEPT ![k] = @ + 1]

NextBundle == \E k \in Kinds : Accept(k)

ComparisonSpec == InitBundles /\ [][NextBundle]_accepted

(***************************************************************************)
(* Properties.                                                             *)
(***************************************************************************)
\* A direction is earned (compare_paired_observations): a decisive objective has
\* a mean effect beyond its floor in that direction, although the test is about
\* signs, the interval about quantiles and the floor about the mean.
DirectionIsEarned ==
    \A q \in {x \in Queries : PackStatus(x.pack) = "SELECTED"} :
      \A S \in {InPack(q.pack)} : \A x \in objectives_result(S, q) :
        LET Beyond(r, sign) ==
                sign * Sum(r.effects) > q.floor[r.objective] * Cardinality(DOMAIN r.effects)
        IN /\ x.class = "LEFT_BETTER" => Beyond(x.row, 1)
           /\ x.class = "RIGHT_BETTER" => Beyond(x.row, -1)

\* The resolution is honest (_inference_resolution, _sign_flip_test, _holm_adjust):
\* where all signs are tried, no p value is below the floor that the resolution
\* audit announces for its effects, and when that is so for every tested objective
\* and each is below the resolution that Holm's strictest rank needs, none is
\* decisive.  Drawn signs can be luckier than the floor: it is announced for the
\* exact test.
ResolutionIsHonest ==
    \A q \in {x \in Queries : PackStatus(x.pack) = "SELECTED"} :
      \A S \in {InPack(q.pack)} : \A rows \in {objectives_result(S, q)} :
        /\ \A x \in rows :
              IsExact(x.row.effects) => x.row.p_raw >= RawFloor(Nonzero(x.row.effects))
        /\ (\A x \in rows : IsExact(x.row.effects) /\ x.row.limited) =>
              \A x \in rows : ~BelowAlpha(x.row.p_holm)

\* The readiness audit and the comparison count alike: a pair that the audit
\* calls eligible for a set of objectives is a pair the comparison tests all of
\* them for, and the other way round; so evidence that meets the design targets
\* holds a pair to compare on every objective.
ReadyEdgesAreTested ==
    \A q \in {x \in Queries : PackStatus(x.pack) = "SELECTED"} :
      \A S \in {InPack(q.pack)} :
        LET Comparable(c, d) ==
                \A r \in objective_rows(S, [q EXCEPT !.left = c, !.right = d]) :
                    Cardinality(DOMAIN r.effects) >= MIN_BASELINE_SUBMISSIONS
        IN /\ \A c, d \in ConfigurationsIn(S) :
                c # d => ({c, d} \in paired_edges(S, q.objectives) <=> Comparable(c, d))
           /\ DesignTargetsMet(S, q.objectives) =>
                \E c, d \in ConfigurationsIn(S) : c # d /\ Comparable(c, d)

\* What is said of the same bundles in different ways agrees: by the p values of the
\* exact test and the resolution that is announced for them (_inference_resolution),
\* and by the comparison and the audit (audit_prediction_readiness).
AnswersAreConsistent == ResolutionIsHonest /\ ReadyEdgesAreTested
=============================================================================
