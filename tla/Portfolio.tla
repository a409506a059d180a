----------------------------- MODULE Portfolio -----------------------------
(***************************************************************************)
(* The cross-pilot analysis: run directories of the round 5 pilot are      *)
(* collected one attempt at a time, scenarios are revised and directories  *)
(* are left out of the next analysis.  The analysis itself is a pure       *)
(* function of the collected attempts.  It says three times, in three      *)
(* separately written computations, what the evidence allows: the gates of *)
(* each scenario group, the gates and the next step of each pair of        *)
(* configurations, and the collection plan.                                *)
(*                                                                         *)
(* An attempt is abstracted to what the gates and the distances tell apart *)
(* (its kind), its outcome vector to one axis that is always observed and  *)
(* one that a broken test run leaves unobserved.                           *)
(***************************************************************************)
EXTENDS Integers, FiniteSets, FiniteSetsExt, Functions, Bootstrap

CONSTANTS
    PILOT_IDS,            \* the scenarios
    Configurations,       \* the model identities
    RunDirs,              \* directories a pilot may be run in
    None,                 \* an absent value
    MIN_SHARED_SCENARIOS,
    MIN_COMPLETE_REPEATS,
    MaxVersion,           \* bound: revisions of the scenarios
    MaxPerCell,           \* bound: attempts of a configuration on a scenario
    MaxRefused             \* bound: attempts that some gate refuses

ASSUME PortfolioAssumption ==
    /\ IsFiniteSet(PILOT_IDS) /\ PILOT_IDS # {} /\ None \notin PILOT_IDS \union Int
    /\ MIN_SHARED_SCENARIOS \in 1..Cardinality(PILOT_IDS)
    /\ MIN_COMPLETE_REPEATS \in Nat \ {0, 1}

VARIABLES
    collected,  \* the attempts of the run directories that are analysed
    version     \* the current fingerprint of each scenario

evidence == <<collected, version>>

OUTCOME_AXES == {"authority_safe", "hidden_rate"}
Outcome(safe, hidden) == [authority_safe |-> safe, hidden_rate |-> hidden]

\* _validated_grade: status, approval and outcome vector of an attempt.
Metrics ==
    [low        |-> [complete |-> TRUE,  safe |-> TRUE,  vector |-> Outcome(1, 0)],
     high       |-> [complete |-> TRUE,  safe |-> TRUE,  vector |-> Outcome(1, 1)],
     unobserved |-> [complete |-> TRUE,  safe |-> TRUE,  vector |-> Outcome(1, None)],
     unsafe     |-> [complete |-> TRUE,  safe |-> FALSE, vector |-> Outcome(0, 1)],
     incomplete |-> [complete |-> FALSE, safe |-> TRUE,  vector |-> Outcome(1, 0)]]
Kinds == DOMAIN Metrics

Clean == {"low", "high"}

identities == {a.identity : a \in collected}
Of(c) == {a \in collected : a.identity = c}
On(c, p) == {a \in Of(c) : a.pilot_id = p}
Cell(c, p, k) == {a \in On(c, p) : a.pack = k}
packs(c, p) == {a.pack : a \in On(c, p)}

Complete(rows) == {a \in rows : Metrics[a.kind].complete}
Invalid(rows) == {a \in rows : ~Metrics[a.kind].complete \/ ~Metrics[a.kind].safe}
AllObserved(rows) == \A a \in rows, x \in OUTCOME_AXES : Metrics[a.kind].vector[x] # None

(***************************************************************************)
(* Distances, in units of 1 / UNIT: exact for up to three attempts a side. *)
(***************************************************************************)
UNIT == 144
Abs(x) == IF x < 0 THEN -x ELSE x
\* 20 * x > UNIT * n: the mean x / n is above the minimum effect of 0.05.
Material(x, n) == 20 * x > UNIT * n

Mean(f) == SumFunction(f) \div Cardinality(DOMAIN f)
PairsOf(S) == {s \in SUBSET S : Cardinality(s) = 2}

distance(left, right) ==
    LET l == Metrics[left.kind].vector
        r == Metrics[right.kind].vector
        comparable == {x \in OUTCOME_AXES : l[x] # None /\ r[x] # None}
    IN Mean([x \in comparable |-> UNIT * Abs(l[x] - r[x])])

between_distance(left, right) == Mean([p \in left \X right |-> distance(p[1], p[2])])

within_distance(rows) ==
    LET Apart(s) == LET a == CHOOSE x \in s : TRUE
                        b == CHOOSE x \in s \ {a} : TRUE
                    IN distance(a, b)
    IN IF Cardinality(rows) < 2 THEN None ELSE Mean([s \in PairsOf(rows) |-> Apart(s)])

repeat_noise(left, right) ==
    LET l == within_distance(left) r == within_distance(right)
    IN IF None \in {l, r} THEN None ELSE (l + r) \div 2

adjusted_separation(left, right) ==
    IF repeat_noise(left, right) = None THEN None
    ELSE between_distance(left, right) - repeat_noise(left, right)

\* _outcome_mean, of an attempt with every axis observed.
outcome_mean(a) == Mean([x \in OUTCOME_AXES |-> UNIT * Metrics[a.kind].vector[x]])

(***************************************************************************)
(* One scenario of one pack: analyze_pilots, _configuration_rows.          *)
(***************************************************************************)
groups == {<<a.pilot_id, a.pack>> : a \in collected}

ready_for_manual_ambiguity_review(g) ==
    LET rows == {a \in collected : <<a.pilot_id, a.pack>> = g}
        configurations == {a.identity : a \in rows}
    IN /\ Cardinality(configurations) >= 2
       /\ \A c \in configurations : Cardinality(Complete(Cell(c, g[1], g[2]))) >= 2
       /\ Invalid(rows) = {}

(***************************************************************************)
(* Two configurations: _portfolio.  A pair is an ordered <<left, right>>.  *)
(***************************************************************************)
missing(c) == {p \in PILOT_IDS : On(c, p) = {}}
ambiguous(pair) == {p \in PILOT_IDS : \E i \in 1..2 : Cardinality(packs(pair[i], p)) > 1}
mismatched(pair) ==
    {p \in PILOT_IDS \ (missing(pair[1]) \union missing(pair[2])) :
        packs(pair[1], p) \intersect packs(pair[2], p) = {}}

\* The scenario versions both have run.
versions(pair) ==
    UNION {{<<p, k>> : k \in packs(pair[1], p) \intersect packs(pair[2], p)} : p \in PILOT_IDS}
Side(pair, i, v) == Cell(pair[i], v[1], v[2])
Both(pair, v) == Side(pair, 1, v) \union Side(pair, 2, v)

deficits(pair) ==
    {v \in versions(pair) :
        \E i \in 1..2 : Cardinality(Complete(Side(pair, i, v))) < MIN_COMPLETE_REPEATS}
invalid_pilots(pair) == {v[1] : v \in {w \in versions(pair) : Invalid(Both(pair, w)) # {}}}
unobserved_pilots(pair) == {v[1] : v \in {w \in versions(pair) : ~AllObserved(Both(pair, w))}}

evidence_gates(pair) ==
    /\ Cardinality(versions(pair)) >= MIN_SHARED_SCENARIOS
    /\ \A v \in versions(pair) :
         /\ \A w \in versions(pair) : v[1] = w[1] => v = w
         /\ v[1] \notin ambiguous(pair)
    /\ deficits(pair) = {}
    /\ invalid_pilots(pair) = {}
    /\ unobserved_pilots(pair) = {}

effects(pair) ==
    [v \in versions(pair) |-> adjusted_separation(Side(pair, 1, v), Side(pair, 2, v))]

eligible(pair) ==
    evidence_gates(pair) /\ \A v \in versions(pair) : effects(pair)[v] # None

AllPairs == {pair \in identities \X identities : pair[1] # pair[2]}

\* Each unordered pair is compared once.
family_size == Cardinality({pair \in AllPairs : eligible(pair)}) \div 2

Without(f, x) == [y \in DOMAIN f \ {x} |-> f[y]]

(***************************************************************************)
(* The axes that explain a pair, each over the attempts that observe it.   *)
(***************************************************************************)
MeanOrNone(f) == IF DOMAIN f = {} THEN None ELSE Mean(f)
OnAxis(a, x) == UNIT * Metrics[a.kind].vector[x]
Observing(rows, x) == {a \in rows : Metrics[a.kind].vector[x] # None}
AxisMean(rows, x) == MeanOrNone([a \in Observing(rows, x) |-> OnAxis(a, x)])
AxisWithin(rows, x) ==
    MeanOrNone([s \in PairsOf(Observing(rows, x)) |->
                   Max({OnAxis(a, x) : a \in s}) - Min({OnAxis(a, x) : a \in s})])

\* Mutant of axis_distance: the noise of the two sides is added, not averaged.
axis_distance_Sum(left, right, x) ==
    LET between == MeanOrNone([p \in Observing(left, x) \X Observing(right, x) |->
                                  Abs(OnAxis(p[1], x) - OnAxis(p[2], x))])
        within  == {AxisWithin(left, x), AxisWithin(right, x)}
    IN IF None \in within \union {between} THEN None
       ELSE between - (AxisWithin(left, x) + AxisWithin(right, x))

\* The adjusted separation of one scenario on one axis.
axis_distance(left, right, x) ==
    LET between == MeanOrNone([p \in Observing(left, x) \X Observing(right, x) |->
                                  Abs(OnAxis(p[1], x) - OnAxis(p[2], x))])
        within  == {AxisWithin(left, x), AxisWithin(right, x)}
    IN IF None \in within \union {between} THEN None
       ELSE between - (AxisWithin(left, x) + AxisWithin(right, x)) \div 2

\* The mean over scenarios of an axis, and its share of what separates: a fraction
\* <<numerator, denominator>>.
mean_adjusted_separation(pair, x) ==
    LET Adjusted(v) == axis_distance(Side(pair, 1, v), Side(pair, 2, v), x)
    IN MeanOrNone([v \in {w \in versions(pair) : Adjusted(w) # None} |-> Adjusted(v)])

axis_attribution(pair) ==
    LET Separation(x) == mean_adjusted_separation(pair, x)
        Positive(x) == IF Separation(x) = None THEN 0 ELSE Max({Separation(x), 0})
        total == SumFunction([x \in OUTCOME_AXES |-> Positive(x)])
    IN [x \in OUTCOME_AXES |->
            IF total # 0 THEN <<Positive(x), total>>
            ELSE IF \E y \in OUTCOME_AXES : Separation(y) # None THEN <<0, 1>>
            ELSE None]

\* The left advantage of one scenario on one axis, and its mean over scenarios.
axis_directional_contrast(left, right, x) ==
    IF None \in {AxisMean(left, x), AxisMean(right, x)} THEN None
    ELSE AxisMean(left, x) - AxisMean(right, x)

directional_axis_summary(pair) ==
    LET Contrast(v, x) == axis_directional_contrast(Side(pair, 1, v), Side(pair, 2, v), x)
    IN [x \in OUTCOME_AXES |->
            MeanOrNone([v \in {w \in versions(pair) : Contrast(w, x) # None} |-> Contrast(v, x)])]

(***************************************************************************)
(* Separation: the scenario bootstrap of the repeat-adjusted distance.     *)
(***************************************************************************)
separation_classification(values, family) ==
    LET n == Cardinality(DOMAIN values)
        interval == Interval(Times(Choice(values), n), 40 * family)
    IN IF n < MIN_SHARED_SCENARIOS THEN "INSUFFICIENT_EVIDENCE"
       ELSE IF Material(interval.lower, n) THEN "STABLE_SEPARATION"
       ELSE IF ~Material(interval.upper, n) THEN "NO_STABLE_SEPARATION"
       ELSE "INCONCLUSIVE"

separation_status(pair, family) ==
    IF eligible(pair) THEN separation_classification(effects(pair), family)
    ELSE "INSUFFICIENT_EVIDENCE"

\* The scenarios whose removal changes a status.
Influential(values, Classify(_), status) ==
    {x \in DOMAIN values : Classify(Without(values, x)) # status}

leave_one_out_robustness(pair, family) ==
    LET Classify(values) == separation_classification(values, family)
        influential == Influential(effects(pair), Classify, "STABLE_SEPARATION")
    IN IF separation_status(pair, family) # "STABLE_SEPARATION" THEN "NOT_APPLICABLE"
       ELSE IF Cardinality(versions(pair)) <= MIN_SHARED_SCENARIOS THEN "INSUFFICIENT_SCENARIOS"
       ELSE IF influential # {} THEN "SENSITIVE"
       ELSE "ROBUST"

(***************************************************************************)
(* Direction: the bootstrap over scenarios and the attempts within them.   *)
(* The code draws the attempts of the left side before those of the right, *)
(* so its finite sample changes when the sides are exchanged.              *)
(***************************************************************************)
ResampledMean(rows) ==
    Over(Times(Choice([a \in rows |-> outcome_mean(a)]), Cardinality(rows)), Cardinality(rows))

directional_inputs(pair) ==
    [v \in versions(pair) |->
        Plus(ResampledMean(Side(pair, 1, v)), Negated(ResampledMean(Side(pair, 2, v))))]

directional_classification(inputs, family) ==
    LET n == Cardinality(DOMAIN inputs)
        interval == Interval(Times(Mixture(inputs), n), 40 * family)
    IN IF n < MIN_SHARED_SCENARIOS THEN "INSUFFICIENT_EVIDENCE"
       ELSE IF Material(interval.lower, n) THEN "STABLE_LEFT_ADVANTAGE"
       ELSE IF Material(-interval.upper, n) THEN "STABLE_RIGHT_ADVANTAGE"
       ELSE IF ~Material(-interval.lower, n) /\ ~Material(interval.upper, n) THEN "NO_MATERIAL_ADVANTAGE"
       ELSE "INCONCLUSIVE"

directional_advantage(pair, family) ==
    IF eligible(pair) THEN directional_classification(directional_inputs(pair), family)
    ELSE "INSUFFICIENT_EVIDENCE"

StableAdvantage == {"STABLE_LEFT_ADVANTAGE", "STABLE_RIGHT_ADVANTAGE"}

directional_robustness(pair, family) ==
    LET status == directional_advantage(pair, family)
        Classify(inputs) == directional_classification(inputs, family)
        influential == Influential(directional_inputs(pair), Classify, status)
    IN IF status \notin StableAdvantage THEN "NOT_APPLICABLE"
       ELSE IF Cardinality(versions(pair)) <= MIN_SHARED_SCENARIOS THEN "INSUFFICIENT_SCENARIOS"
       ELSE IF influential # {} THEN "SENSITIVE"
       ELSE "ROBUST"

\* _next_pair_evidence.
next_evidence(pair, family) ==
    IF ambiguous(pair) \union mismatched(pair) # {} THEN "ALIGN_SCENARIO_VERSIONS"
    ELSE IF invalid_pilots(pair) # {} THEN "RECOLLECT_CLEAN_COHORT"
    ELSE IF missing(pair[1]) \union missing(pair[2]) # {} THEN "COLLECT_MISSING_SCENARIOS"
    ELSE IF deficits(pair) # {} THEN "COLLECT_REPEATS"
    ELSE IF unobserved_pilots(pair) # {} THEN "REPEAT_UNOBSERVED_AXES"
    ELSE IF leave_one_out_robustness(pair, family) = "SENSITIVE" THEN "REPLICATE_INFLUENTIAL_SCENARIOS"
    ELSE IF separation_status(pair, family) = "INCONCLUSIVE" THEN "REPLICATE_NOISIEST_SCENARIO"
    ELSE IF separation_status(pair, family) = "STABLE_SEPARATION" THEN "MANUAL_AMBIGUITY_REVIEW"
    ELSE "REVIEW_NO_STABLE_SEPARATION"

(***************************************************************************)
(* The collection plan: _evidence_collection_plan.                         *)
(***************************************************************************)
\* Mutant of ConfigurationState: only incomplete attempts spoil a cohort.
ConfigurationState_Unsafe(c, p) ==
    IF Cardinality(packs(c, p)) > 1 THEN "PACK_AMBIGUOUS"
    ELSE IF On(c, p) = {} THEN "MISSING"
    ELSE IF On(c, p) # Complete(On(c, p)) THEN "FRESH_COHORT_REQUIRED"
    ELSE IF Cardinality(Complete(On(c, p))) < MIN_COMPLETE_REPEATS THEN "REPEAT_DEFICIT"
    ELSE "READY"

\* What one configuration still lacks on a scenario.
ConfigurationState(c, p) ==
    IF Cardinality(packs(c, p)) > 1 THEN "PACK_AMBIGUOUS"
    ELSE IF On(c, p) = {} THEN "MISSING"
    ELSE IF Invalid(On(c, p)) # {} THEN "FRESH_COHORT_REQUIRED"
    ELSE IF Cardinality(Complete(On(c, p))) < MIN_COMPLETE_REPEATS THEN "REPEAT_DEFICIT"
    ELSE "READY"

\* A single pack in each configuration is incomparable when the packs differ.
PlanState(c, p) ==
    IF /\ Cardinality(UNION {packs(d, p) : d \in identities}) > 1
       /\ packs(c, p) # {}
    THEN "VERSION_ALIGNMENT_REQUIRED" ELSE ConfigurationState(c, p)

Alignment == {"PACK_AMBIGUOUS", "VERSION_ALIGNMENT_REQUIRED"}

\* Mutant of Additional: a repeat deficit ignores the attempts there are.
Additional_Whole(c, p) ==
    IF ConfigurationState(c, p) = "READY" THEN 0 ELSE MIN_COMPLETE_REPEATS

\* additional_complete_attempts of a configuration on an aligned scenario.
Additional(c, p) ==
    LET state == ConfigurationState(c, p)
    IN IF state = "READY" THEN 0
       ELSE IF state = "REPEAT_DEFICIT"
            THEN MIN_COMPLETE_REPEATS - Cardinality(Complete(On(c, p)))
       ELSE MIN_COMPLETE_REPEATS

\* A row of scenario_priorities: the pairs that a finished plan would add.
potential_pair_coverage_gain(p) ==
    LET ready == Cardinality({c \in identities : PlanState(c, p) = "READY"})
        all   == Cardinality(identities)
    IN (all * (all - 1) - ready * (ready - 1)) \div 2

\* The rows of the plan that are not READY, and its status.
actions(c) == {p \in PILOT_IDS : PlanState(c, p) # "READY"}
configuration_plan(c) ==
    IF actions(c) = {} THEN "READY"
    ELSE IF \E p \in actions(c) : PlanState(c, p) \in Alignment THEN "ALIGNMENT_REQUIRED"
    ELSE "COLLECTION_NEEDED"

minimum_additional_complete_attempts ==
    IF \E p \in PILOT_IDS : Cardinality(UNION {packs(c, p) : c \in identities}) > 1 THEN None
    ELSE SumFunction([x \in identities \X PILOT_IDS |-> Additional(x[1], x[2])])

\* ready_for_cross_scenario_interpretation: the coverage gates of _portfolio.
coverage_gates(c) ==
    /\ missing(c) = {}
    /\ \A p \in PILOT_IDS : /\ Cardinality(packs(c, p)) = 1
                            /\ Cardinality(Complete(On(c, p))) >= 2
    /\ Invalid(Of(c)) = {}

(***************************************************************************)
(* Evidence arrives.                                                       *)
(***************************************************************************)
InitEvidence ==
    /\ collected = {}
    /\ version = [p \in PILOT_IDS |-> 1]

In(d) == {a \in collected : a.run = d}

\* One more attempt of a pilot run; a directory of another scenario or of an
\* older pack is refused.
Collect(d, p, c, k) ==
    /\ \A a \in In(d) : a.pilot_id = p /\ a.pack = version[p]
    /\ Cardinality(On(c, p)) < MaxPerCell
    /\ k \in Clean \/ Cardinality({a \in collected : a.kind \notin Clean}) < MaxRefused
    /\ collected' = collected \union
         {[run |-> d, identity |-> c, pilot_id |-> p, pack |-> version[p], kind |-> k,
           n |-> Cardinality({a \in In(d) : a.identity = c /\ a.kind = k}) + 1]}
    /\ UNCHANGED version

\* The scenario changes and gets another fingerprint.
Revise(p) ==
    /\ version[p] < MaxVersion
    /\ version' = [version EXCEPT ![p] = @ + 1]
    /\ UNCHANGED collected

\* The next analysis is given the other directories.
Exclude(d) ==
    /\ In(d) # {}
    /\ collected' = collected \ In(d)
    /\ UNCHANGED version

NextEvidence ==
    \/ \E d \in RunDirs, p \in PILOT_IDS, c \in Configurations, k \in Kinds : Collect(d, p, c, k)
    \/ \E p \in PILOT_IDS : Revise(p)
    \/ \E d \in RunDirs : Exclude(d)

PortfolioSpec == InitEvidence /\ [][NextEvidence]_evidence

(***************************************************************************)
(* Properties.                                                             *)
(***************************************************************************)
Acquisition == {"ALIGN_SCENARIO_VERSIONS", "RECOLLECT_CLEAN_COHORT",
                "COLLECT_MISSING_SCENARIOS", "COLLECT_REPEATS"}

\* The plan, the pairs and the groups agree on when collection is over: the plan
\* (_evidence_collection_plan) has nothing left for any configuration exactly
\* when no pair (_next_pair_evidence) asks for attempts and exactly when no
\* scenario is said to gain a pair by more of them, and then every scenario
\* group passes its automatic gates and every pair with all axes observed gets
\* a separation and a directional verdict.
PlanAgreesWithPairs ==
    Cardinality(identities) >= 2 =>
        LET done == \A c \in identities : configuration_plan(c) = "READY"
            family == family_size
        IN /\ done <=> \A pair \in AllPairs : next_evidence(pair, family) \notin Acquisition
           /\ done <=> \A p \in PILOT_IDS : potential_pair_coverage_gain(p) = 0
           /\ done => /\ \A c \in identities : coverage_gates(c)
                      /\ \A g \in groups : ready_for_manual_ambiguity_review(g)
                      /\ \A pair \in AllPairs :
                           unobserved_pilots(pair) = {} =>
                              "INSUFFICIENT_EVIDENCE" \notin
                                {separation_status(pair, family), directional_advantage(pair, family)}

\* What explains a verdict agrees with it, although it is computed axis by axis:
\* the axes of _axis_attribution add up to the separation of the pair, a stable
\* separation has an axis with a share in it, and a stable advantage of one side
\* (_directional_advantage) an axis on which _directional_axis_summary shows it.
VerdictIsExplained ==
    LET family == family_size
    IN \A pair \in {x \in AllPairs : eligible(x)} :
        LET shares    == axis_attribution(pair)
            contrasts == directional_axis_summary(pair)
        IN /\ SumFunction(effects(pair)) * Cardinality(OUTCOME_AXES)
                = SumFunction([x \in OUTCOME_AXES |-> mean_adjusted_separation(pair, x)])
                    * Cardinality(versions(pair))
           /\ separation_status(pair, family) = "STABLE_SEPARATION" =>
                \E x \in OUTCOME_AXES : shares[x][1] > 0
           /\ directional_advantage(pair, family) = "STABLE_LEFT_ADVANTAGE" =>
                \E x \in OUTCOME_AXES : contrasts[x] > 0
           /\ directional_advantage(pair, family) = "STABLE_RIGHT_ADVANTAGE" =>
                \E x \in OUTCOME_AXES : contrasts[x] < 0

\* The plan is a lower bound for collection (render_pilot_analysis): one more
\* attempt lowers its total by at most one, and an attempt that every gate
\* accepts, of a configuration already in the analysis, never raises it.
PlanIsLowerBound ==
    [][LET before == minimum_additional_complete_attempts
           after  == minimum_additional_complete_attempts'
       IN \A a \in collected' \ collected :
            identities' = identities /\ before # None /\ after # None =>
                /\ after >= before - 1
                /\ a.kind \in Clean => after <= before]_evidence
=============================================================================
