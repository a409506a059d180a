---------------------------- MODULE Calibration ----------------------------
(***************************************************************************)
(* Item calibration (analyze): the saved outcomes of several run           *)
(* directories become one matrix for each round and pack, and the matrix   *)
(* becomes tables of items, configurations and pairs, a panel of the items *)
(* that separate configurations, and a two-fold check of that panel.       *)
(*                                                                         *)
(* A respondent <<run, model, attempt>> is one attempt; every respondent is *)
(* a unit of its own here (the bundles of the community index are not      *)
(* modelled).  An item is <<"q", id>> in rounds 1 to 3, <<"t", n>> in 4.    *)
(* A group is [rows : respondent -> (item -> status), id : respondent ->    *)
(* configuration].  Rates are in millionths, the digits the code keeps.    *)
(*                                                                         *)
(* What the bootstraps draw is given: a sample has                         *)
(*   critical : the critical value of a simultaneous interval, or None     *)
(*              when too many draws were undefined,                        *)
(*   tight    : whether the other intervals stay beyond their threshold.   *)
(***************************************************************************)
EXTENDS Integers, Sequences, FiniteSets, SequencesExt, FiniteSetsExt, Functions, Results
LOCAL INSTANCE Bootstrap

CONSTANT None            \* an absent value

SCORED == {"PASS", "FAIL"}
MIN_ITEM_OBSERVATIONS == 5
MIN_ITEM_INTERVAL_OBSERVATIONS == 10
MIN_PAIR_ITEMS == 2
MIN_COMPARISON_ITEMS == 5
MIN_CONFIGURATION_RESPONDENTS == 5
MILLION == 1000000
ITEM_PAIR_EFFECT_THRESHOLD == MILLION \div 10

Abs(x) == IF x < 0 THEN -x ELSE x

\* n / d in millionths, towards zero.
Rate(n, d) == IF n < 0 THEN -((MILLION * (-n)) \div d) ELSE (MILLION * n) \div d

Binomial(n, k) ==
    IF k < 0 \/ k > n THEN 0
    ELSE FoldLeft(LAMBDA b, i : (b * (n - i + 1)) \div i, 1, [i \in 1..k |-> i])

MeanOf(S, F(_)) == MapThenSumSet(F, S) \div Cardinality(S)
Pairs(S) == {e \in {{x, y} : x, y \in S} : Cardinality(e) = 2}

(***************************************************************************)
(* collect_observations.  A run directory is [isolation, packs, models];   *)
(* a model is [public, key, reasoning, round4], with reasoning[r] the set   *)
(* of saved result files [attempt, rows] and round4 None or                *)
(* [grades, errors].                                                       *)
(***************************************************************************)
\* Mutant of model_identity: the key is part of the configuration.
model_identity_Keyed(model, isolation) == <<model.public, model.key, isolation>>

\* _model_identity: every field but the key, the labels and the routing.
model_identity(model, isolation) == <<model.public, isolation>>

\* What one attempt contributes: its outcomes as a set of <<item, status>>.
Contribution(group, run, model, attempt, identity, rows) ==
    [group |-> group, respondent |-> <<run, model, attempt>>, identity |-> identity,
     rows |-> rows]

ReasoningAttempts(dirs, i, j) ==
    LET d == dirs[i] m == d.models[j]
    IN UNION {{Contribution(<<r, d.packs[r]>>, i, j, file.attempt,
                            model_identity(m, d.isolation),
                            {<<<<"q", row.id>>, item_status(row)>> : row \in file.rows}) :
                  file \in m.reasoning[r]} : r \in DOMAIN m.reasoning}

GradeStatus(g) == IF g.timed_out THEN "INVALID" ELSE IF g.pass THEN "PASS" ELSE "FAIL"

\* A recorded error counts only when the attempt was not graded.
AgentAttempts(dirs, i, j) ==
    LET d == dirs[i] m == d.models[j]
        graded == {<<g.task, g.attempt>> : g \in m.round4.grades}
        errors == {e \in m.round4.errors :
                     e.task # None /\ e.attempt # None /\ <<e.task, e.attempt>> \notin graded}
    IN IF m.round4 = None THEN {}
       ELSE {Contribution(<<4, d.packs[4]>>, i, j, n, model_identity(m, d.isolation),
                {<<g.task, GradeStatus(g)>> : g \in {x \in m.round4.grades : x.attempt = n}}
                \cup {<<e.task, "INVALID">> : e \in {x \in errors : x.attempt = n}}) :
             n \in {x.attempt : x \in m.round4.grades \cup errors}}

Contributions(dirs) ==
    UNION {UNION {ReasoningAttempts(dirs, i, j) \cup AgentAttempts(dirs, i, j) :
                     j \in DOMAIN dirs[i].models} : i \in DOMAIN dirs}

Groups(dirs) == {c.group : c \in Contributions(dirs)}

\* Outcomes of one respondent that contradict each other are refused (_record).
Conflicting(dirs) ==
    \E c \in Contributions(dirs) : \E x, y \in c.rows : x[1] = y[1] /\ x[2] # y[2]

\* The configurations that left evidence in a group, and the group itself.
Active(dirs, g) == {c.identity : c \in {x \in Contributions(dirs) : x.group = g}}

group_of(dirs, g) ==
    LET mine == {c \in Contributions(dirs) : c.group = g /\ c.rows # {}}
        Of(r) == CHOOSE c \in mine : c.respondent = r
        Outcome(r, x) == (CHOOSE y \in Of(r).rows : y[1] = x)[2]
        respondents == {c.respondent : c \in mine}
    IN [rows |-> Table([r \in respondents |->
                          Table([x \in {y[1] : y \in Of(r).rows} |-> Outcome(r, x)])]),
        id   |-> Table([r \in respondents |-> Of(r).identity])]

Respondents(G) == DOMAIN G.rows
Items(G) == UNION {DOMAIN G.rows[r] : r \in Respondents(G)}
Configurations(G) == Range(G.id)
StatusIn(G, r, x) == IF x \in DOMAIN G.rows[r] THEN G.rows[r][x] ELSE "MISSING"

\* The units of a configuration (or of all, with c = None) scored on an item.
Units(G, c, x) ==
    {r \in Respondents(G) : (c = None \/ G.id[r] = c) /\ StatusIn(G, r, x) \in SCORED}
Passed(G, S, x) == Cardinality({r \in S : G.rows[r][x] = "PASS"})
PassRate(G, c, x) ==
    Rate(Passed(G, Units(G, c, x), x), Cardinality(Units(G, c, x)))

\* left's rate minus right's.
Difference(G, l, r, x) ==
    LET L == Units(G, l, x) R == Units(G, r, x)
    IN Rate(Passed(G, L, x) * Cardinality(R) - Passed(G, R, x) * Cardinality(L),
            Cardinality(L) * Cardinality(R))

\* Respondents sort by run, model and attempt (fewer than ten of each), and
\* _configuration_aliases numbers configurations as they are first seen.
Position(r) == 100 * r[1] + 10 * r[2] + r[3]
FirstSeen(G, c) == Min({Position(r) : r \in {x \in Respondents(G) : G.id[x] = c}})
OrderedPairs(G) ==
    {p \in Configurations(G) \X Configurations(G) : FirstSeen(G, p[1]) < FirstSeen(G, p[2])}

(***************************************************************************)
(* The tables.                                                             *)
(***************************************************************************)
\* The rest score of a unit: its rate on the other items, in sixtieths (exact for
\* up to six other items).
RestScore(G, r, x) ==
    LET rest == {y \in DOMAIN G.rows[r] \ {x} : G.rows[r][y] \in SCORED}
    IN IF rest = {} THEN None
       ELSE (60 * Cardinality({y \in rest : G.rows[r][y] = "PASS"})) \div Cardinality(rest)

\* The corrected item-total correlation: covariance and product of variances of
\* outcome and rest score (_correlation).
discrimination(G, x) ==
    LET scores == [r \in {u \in Units(G, None, x) : RestScore(G, u, x) # None} |-> RestScore(G, r, x)]
        U == DOMAIN scores
        n == Cardinality(U)
        passed == Passed(G, U, x)
        total == MapThenSumSet(LAMBDA r : scores[r], U)
        hits == MapThenSumSet(LAMBDA r : scores[r], {u \in U : G.rows[u][x] = "PASS"})
        squares == MapThenSumSet(LAMBDA r : scores[r] * scores[r], U)
    IN [units |-> n, numerator |-> n * hits - passed * total,
        variances |-> passed * (n - passed) * (n * squares - total * total)]

Defined(d) == d.units >= 3 /\ d.variances # 0
\* The correlation is at least 0.15: its square is 9 / 400 of the variances or more.
AtLeastWeak(d) ==
    d.numerator > 0 /\ d.numerator * d.numerator
                         >= 9 * (d.variances \div 400) - ((-9 * (d.variances % 400)) \div 400)

item_classification(G, x) ==
    LET scored == Cardinality(Units(G, None, x))
        passed == Passed(G, Units(G, None, x), x)
        d == discrimination(G, x)
    IN IF scored < MIN_ITEM_OBSERVATIONS THEN "INSUFFICIENT"
       ELSE IF 20 * passed >= 19 * scored THEN "CEILING"
       ELSE IF 20 * passed <= scored THEN "FLOOR"
       ELSE IF ~Defined(d) THEN "LOW_INFORMATION"
       ELSE IF d.numerator < 0 THEN "NEGATIVE"
       ELSE IF ~AtLeastWeak(d) THEN "WEAK"
       ELSE "USEFUL"

\* The Wilson interval of k out of n stays above 0.8 (_bounded_rate_interval).
MostlyAbove(k, n) == 5 * k >= 4 * n /\ 10000 * (5 * k - 4 * n) * (5 * k - 4 * n) >= 153664 * n

\* _item_discrimination_interval: beyond the threshold, across it, or withheld
\* because too many draws were undefined.
item_discrimination_interval(sample) ==
    IF sample.tight THEN "beyond" ELSE IF sample.critical = None THEN "withheld" ELSE "across"

robust_item_classification(G, x, sample) ==
    LET n == Cardinality(Units(G, None, x))
        passed == Passed(G, Units(G, None, x), x)
        d == discrimination(G, x)
        interval == item_discrimination_interval(sample)
    IN IF n < MIN_ITEM_INTERVAL_OBSERVATIONS THEN "INSUFFICIENT"
       ELSE IF 20 * passed >= 19 * n /\ MostlyAbove(passed, n) THEN "ROBUST_CEILING"
       ELSE IF 20 * passed <= n /\ MostlyAbove(n - passed, n) THEN "ROBUST_FLOOR"
       ELSE IF d.units < MIN_ITEM_INTERVAL_OBSERVATIONS \/ ~Defined(d) \/ interval = "withheld"
            THEN "UNSTABLE"
       ELSE IF d.numerator < 0 /\ interval = "beyond" THEN "ROBUST_NEGATIVE"
       ELSE IF AtLeastWeak(d) /\ interval = "beyond" THEN "ROBUST_USEFUL"
       ELSE "UNCERTAIN"

\* _item_metrics: a row for each item.
item_metrics(G, sample) ==
    Table([x \in Items(G) |->
        [counts |-> [s \in Statuses \cup {"MISSING"} |->
                        Cardinality({r \in Respondents(G) : StatusIn(G, r, x) = s})],
         classification |-> item_classification(G, x),
         robust_classification |-> robust_item_classification(G, x, sample)]])

\* Mutant of configuration_scorecards: an item that was never asked is a failed call.
configuration_scorecards_Missing(G, c) ==
    LET mine == {r \in Respondents(G) : G.id[r] = c}
        Count(s) == MapThenSumSet(LAMBDA r : Cardinality({x \in Items(G) :
                        StatusIn(G, r, x) \in {s, IF s = "INVALID" THEN "MISSING" ELSE s}}), mine)
    IN [counts |-> [s \in Statuses |-> Count(s)],
        sources |-> {<<r[1], r[2]>> : r \in mine},
        respondents |-> Cardinality({r \in mine : Range(G.rows[r]) \intersect SCORED # {}})]

\* _configuration_scorecards.
configuration_scorecards(G, c) ==
    LET mine == {r \in Respondents(G) : G.id[r] = c}
        Count(s) == MapThenSumSet(LAMBDA r : Cardinality({x \in DOMAIN G.rows[r] :
                                                            G.rows[r][x] = s}), mine)
    IN [counts |-> [s \in Statuses |-> Count(s)],
        sources |-> {<<r[1], r[2]>> : r \in mine},
        respondents |-> Cardinality({r \in mine : Range(G.rows[r]) \intersect SCORED # {}})]

\* _pairwise_stability: the pairs of respondents with enough items in common.
CommonScored(G, e) == {x \in Items(G) : \A r \in e : StatusIn(G, r, x) \in SCORED}
pairwise_stability(G, within) ==
    {e \in Pairs(Respondents(G)) :
        /\ Cardinality(CommonScored(G, e)) >= MIN_PAIR_ITEMS
        /\ (Cardinality({G.id[r] : r \in e}) = 1) = within}
disagreement(G, e) ==
    Cardinality({x \in CommonScored(G, e) : Cardinality({G.rows[r][x] : r \in e}) = 2})

\* _repeat_adjusted_components: how far the configurations are apart on an
\* item, and how far the units of one configuration are.
between_components(G, S, x) ==
    MeanOf(Pairs({<<c, PassRate(G, c, x)>> : c \in S}),
           LAMBDA e : Max({y[2] : y \in e}) - Min({y[2] : y \in e}))
DifferingPairs(G, c, x) ==
    Passed(G, Units(G, c, x), x)
        * (Cardinality(Units(G, c, x)) - Passed(G, Units(G, c, x), x))
within_components(G, S, x) ==
    MeanOf(S, LAMBDA c : Rate(DifferingPairs(G, c, x), Binomial(Cardinality(Units(G, c, x)), 2)))

\* The configurations with at least n units on an item.
Repeated(G, x, n) == {c \in Configurations(G) : Cardinality(Units(G, c, x)) >= n}

\* _repeat_adjusted_interval stays on the side of the threshold where the estimate
\* is.  Without differing repeats no draw moves it.
repeat_adjusted_interval(within, sample) == within = 0 \/ sample.tight

\* _item_repeat_separation, for the configurations with enough repeats.
item_repeat_separation(G, x, sample) ==
    LET robust  == Repeated(G, x, MIN_CONFIGURATION_RESPONDENTS)
        between == between_components(G, robust, x)
        within  == within_components(G, robust, x)
    IN IF Cardinality(robust) < 2 THEN "INSUFFICIENT"
       ELSE IF between = 0 /\ within = 0 THEN "ROBUST_NO_SEPARATION"
       ELSE IF between - within >= ITEM_PAIR_EFFECT_THRESHOLD /\ repeat_adjusted_interval(within, sample)
            THEN "ROBUST_SEPARATING"
       ELSE IF between - within < 0 /\ repeat_adjusted_interval(within, sample) THEN "ROBUST_NOISE_DOMINATED"
       ELSE "UNCERTAIN"

\* _item_relationships: the phi coefficient of two items over the units scored
\* on both, as its numerator and the product of the variances.
phi(G, e) ==
    LET U == {r \in Respondents(G) : \A x \in e : StatusIn(G, r, x) \in SCORED}
        n == Cardinality(U)
        both == Cardinality({r \in U : \A x \in e : G.rows[r][x] = "PASS"})
        Variance(x) == Passed(G, U, x) * (n - Passed(G, U, x))
        Product(F(_)) == FoldSet(LAMBDA x, t : F(x) * t, 1, e)
    IN [units |-> n, numerator |-> n * both - Product(LAMBDA x : Passed(G, U, x)),
        variances |-> Product(Variance)]

item_relationships(G, e, sample) ==
    LET p == phi(G, e)
        strong == 25 * p.numerator * p.numerator >= 16 * p.variances
    IN IF p.units < MIN_ITEM_INTERVAL_OBSERVATIONS THEN "INSUFFICIENT"
       ELSE IF p.variances = 0 THEN "UNSTABLE"
       ELSE IF ~strong THEN "UNCERTAIN"
       ELSE IF item_discrimination_interval(sample) = "withheld" THEN "UNSTABLE"
       ELSE IF item_discrimination_interval(sample) = "across" THEN "UNCERTAIN"
       ELSE IF p.numerator > 0 THEN "ROBUST_REDUNDANCY_CANDIDATE"
       ELSE "ROBUST_OPPOSING_CANDIDATE"

(***************************************************************************)
(* The comparison of two configurations over their common items.           *)
(***************************************************************************)
\* p values are records [num, den].
Less(p, q) == p.num * q.den < q.num * p.den

\* _exact_sign_pvalue; both None without a win or a loss.
exact_sign_pvalue(wins, losses) ==
    LET tail == MapThenSumSet(LAMBDA i : Binomial(wins + losses, i),
                              0..Min({wins, losses}))
    IN [num |-> Min({2 * tail, 2 ^ (wins + losses)}), den |-> 2 ^ (wins + losses)]

\* Holm's adjustment of p among all the tested ones is below 0.05: so are the
\* products of every p value that ranks no later.
HolmBelowAlpha(p, tested) ==
    LET Ahead(q) == Cardinality({z \in tested : Less(z.p_raw, q)})
    IN \A y \in tested : ~Less(p, y.p_raw) =>
        20 * y.p_raw.num * (Cardinality(tested) - Ahead(y.p_raw)) < y.p_raw.den

CommonItems(G, l, r) == {x \in Items(G) : Units(G, l, x) # {} /\ Units(G, r, x) # {}}

ScoredRespondents(G, c) ==
    {r \in Respondents(G) : G.id[r] = c /\ Range(G.rows[r]) \intersect SCORED # {}}

\* A row of _configuration_comparisons before the adjustment.
comparison_row(G, p) ==
    LET common == CommonItems(G, p[1], p[2])
        D(x)   == Difference(G, p[1], p[2], x)
        wins   == Cardinality({x \in common : D(x) > 0})
        losses == Cardinality({x \in common : D(x) < 0})
    IN [pair |-> p, wins |-> wins, losses |-> losses,
        effect |-> MapThenSumSet(D, common),
        p_raw |-> exact_sign_pvalue(wins, losses),
        enough |-> /\ Cardinality(common) >= MIN_COMPARISON_ITEMS
                   /\ \A c \in {p[1], p[2]} : Cardinality(ScoredRespondents(G, c))
                                                >= MIN_CONFIGURATION_RESPONDENTS]

\* _hierarchical_difference_interval excludes zero.  When all units agree on every
\* item and one side is ahead on all of them, every draw has that sign.
hierarchical_difference_interval(G, row, sample) ==
    LET common == CommonItems(G, row.pair[1], row.pair[2])
        Agree(c) == \A x \in common : Passed(G, Units(G, c, x), x)
                                        \in {0, Cardinality(Units(G, c, x))}
    IN \/ sample.tight
       \/ /\ Agree(row.pair[1]) /\ Agree(row.pair[2])
          /\ Cardinality(common) \in {row.wins, row.losses}

configuration_comparisons(G, sample) ==
    LET rows == {comparison_row(G, p) : p \in OrderedPairs(G)}
        eligible == {w \in rows : w.enough /\ w.wins + w.losses > 0}
        Decided(w) == w \in eligible /\ hierarchical_difference_interval(G, w, sample)
                      /\ HolmBelowAlpha(w.p_raw, eligible)
    IN {[pair |-> w.pair,
         classification |-> IF ~w.enough THEN "INSUFFICIENT"
                            ELSE IF Decided(w) /\ w.effect > 0 THEN "LEFT_HIGHER"
                            ELSE IF Decided(w) /\ w.effect < 0 THEN "RIGHT_HIGHER"
                            ELSE "UNCERTAIN"] : w \in rows}

(***************************************************************************)
(* Which items separate which configurations (_configuration_item_coverage)*)
(* and the panel that covers those directions.                             *)
(***************************************************************************)
EligibleItems(G, p) ==
    {x \in Items(G) : \A c \in {p[1], p[2]} :
        Cardinality(Units(G, c, x)) >= MIN_CONFIGURATION_RESPONDENTS}

\* _simultaneous_pair_interval.  Resampling cannot move a rate when all units
\* agree, and no draw is undefined when every unit has every item.
simultaneous_pair_interval(G, p, sample) ==
    LET items == EligibleItems(G, p)
        Agree(c) == \A x \in items : Passed(G, Units(G, c, x), x)
                                        \in {0, Cardinality(Units(G, c, x))}
        Whole(c) == \A x \in items : Units(G, c, x) = ScoredRespondents(G, c)
    IN IF sample.critical = None /\ (~Whole(p[1]) \/ ~Whole(p[2])) THEN None
       ELSE IF sample.critical = None \/ (Agree(p[1]) /\ Agree(p[2])) THEN 0
       ELSE sample.critical

\* A row of the table; margin is the bound nearest to zero of a decisive item.
coverage_row(p, x, effect, critical) ==
    [pair |-> p, item |-> x, effect |-> effect,
     margin |-> IF critical = None THEN 0 ELSE Abs(effect) - critical,
     classification |->
        IF critical = None THEN "UNSTABLE"
        ELSE IF Abs(effect) - critical < ITEM_PAIR_EFFECT_THRESHOLD THEN "UNCERTAIN"
        ELSE IF effect > 0 THEN "LEFT_HIGHER" ELSE "RIGHT_HIGHER"]

configuration_item_coverage(G, sample) ==
    UNION {{coverage_row(p, x, Difference(G, p[1], p[2], x), critical) :
               x \in EligibleItems(G, p), critical \in {simultaneous_pair_interval(G, p, sample)}} :
           p \in OrderedPairs(G)}

\* The confirmed direction <<higher, lower>> of a decisive row.
Decisive(coverage) == {w \in coverage : w.classification \in {"LEFT_HIGHER", "RIGHT_HIGHER"}}
Target(w) == IF w.classification = "LEFT_HIGHER" THEN w.pair ELSE <<w.pair[2], w.pair[1]>>

LexLess(s, t) == \E i \in DOMAIN s : s[i] < t[i] /\ \A j \in 1..(i - 1) : s[j] = t[j]

\* The best candidate [item, targets, new, dependent, margin, effect] after the
\* items already chosen: most new directions first, then the least dependent,
\* then the clearest.
next_item(candidates, chosen) ==
    LET Rank(c) == <<-Cardinality(c.new), Cardinality(c.dependent \intersect chosen),
                     Cardinality(c.dependent), -c.margin, -c.effect, c.item[2]>>
    IN CHOOSE c \in candidates : \A d \in candidates \ {c} : LexLess(Rank(c), Rank(d))

\* _discriminative_item_panel: a sequence of [item, new].
discriminative_item_panel(G, coverage, sample, max_items) ==
    LET rows == Decisive(coverage)
        items == {w.item : w \in rows}
        Of(x) == {w \in rows : w.item = x}
        Dependent(x) == {y \in items \ {x} : item_relationships(G, {x, y}, sample) \in
                            {"ROBUST_REDUNDANCY_CANDIDATE", "ROBUST_OPPOSING_CANDIDATE"}}
        all == {[item |-> x, targets |-> {Target(w) : w \in Of(x)}, dependent |-> Dependent(x),
                 margin |-> Min({w.margin : w \in Of(x)}),
                 effect |-> Max({Abs(w.effect) : w \in Of(x)})] : x \in items}
        Step(panel, i) ==
            LET covered == UNION {panel[n].new : n \in DOMAIN panel}
                chosen  == {panel[n].item : n \in DOMAIN panel}
                candidates ==
                    {[item |-> c.item, targets |-> c.targets, dependent |-> c.dependent,
                      margin |-> c.margin, effect |-> c.effect, new |-> c.targets \ covered] :
                        c \in {x \in all : x.item \notin chosen /\ x.targets \ covered # {}}}
            IN IF candidates = {} \/ (max_items # None /\ Len(panel) >= max_items) THEN panel
               ELSE LET best == next_item(candidates, chosen)
                    IN Append(panel, [item |-> best.item, new |-> best.new])
    IN FoldLeft(Step, <<>>, [i \in 1..Cardinality(items) |-> i])

Directions(coverage) == {Target(w) : w \in Decisive(coverage)}
Covered(panel) == UNION {panel[n].new : n \in DOMAIN panel}
SelectedItems(panel) == {panel[n].item : n \in DOMAIN panel}

PanelStatus(coverage, panel) ==
    IF Directions(coverage) = {}
    THEN IF coverage = {} THEN "INSUFFICIENT" ELSE "NO_DECISIVE_ITEMS"
    ELSE IF Directions(coverage) \ Covered(panel) # {} THEN "PARTIAL" ELSE "COMPLETE"

(***************************************************************************)
(* _panel_holdout_validation.                                              *)
(***************************************************************************)
\* The units in order: to the fold with fewer units of the configuration, and
\* alternating when it has as many of them.
fold_by_unit(G) ==
    LET Before(r) == {s \in Respondents(G) : Position(s) < Position(r)}
        order == [i \in 1..Cardinality(Respondents(G)) |->
                    CHOOSE r \in Respondents(G) : Cardinality(Before(r)) = i - 1]
        Place(folds, r) ==
            LET Count(f) == Cardinality({s \in DOMAIN folds : folds[s] = f /\ G.id[s] = G.id[r]})
                fold == IF Count(0) = Count(1) THEN Cardinality(DOMAIN folds) % 2
                        ELSE IF Count(0) < Count(1) THEN 0 ELSE 1
            IN Table([s \in DOMAIN folds \cup {r} |-> IF s = r THEN fold ELSE folds[s]])
    IN FoldLeft(Place, [r \in {} |-> 0], order)

Part(G, S) == [rows |-> Table(Restrict(G.rows, S)), id |-> Table(Restrict(G.id, S))]
InFold(G, folds, f) == Part(G, {r \in Respondents(G) : folds[r] = f})

\* _permutation_difference_test, exact: how many of the ways to label n units
\* as higher leave a difference at least as large.  The larger spaces, which
\* the code samples, are beyond the bounds.
permutation_difference_test(higher, passed_higher, lower, passed_lower) ==
    LET passed == passed_higher + passed_lower
        D(k) == Abs(k * lower - (passed - k) * higher)
        Ways(k) == Binomial(passed, k) * Binomial(higher + lower - passed, higher - k)
    IN [num |-> MapThenSumSet(Ways, {k \in 0..Min({passed, higher}) : D(k) >= D(passed_higher)}),
        den |-> Binomial(higher + lower, higher)]

\* The directions of a panel chosen on one fold, measured on the other.
evaluations(holdout, fold, panel) ==
    UNION {{LET H == Units(holdout, t[1], panel[n].item)
                L == Units(holdout, t[2], panel[n].item)
                h == Passed(holdout, H, panel[n].item)
                l == Passed(holdout, L, panel[n].item)
                enough == /\ Cardinality(H) >= MIN_CONFIGURATION_RESPONDENTS
                          /\ Cardinality(L) >= MIN_CONFIGURATION_RESPONDENTS
            IN [fold |-> fold, item |-> panel[n].item, target |-> t, tested |-> enough,
                effect |-> IF enough THEN Rate(h * Cardinality(L) - l * Cardinality(H),
                                               Cardinality(H) * Cardinality(L)) ELSE 0,
                p_raw |-> IF enough
                          THEN permutation_difference_test(Cardinality(H), h, Cardinality(L), l)
                          ELSE [num |-> 1, den |-> 1]] :
               t \in panel[n].new} : n \in DOMAIN panel}

\* Mutant of Classified: the direction of the held-out effect is not looked at.
Classified_Unsigned(e, tested) ==
    IF ~e.tested THEN "INSUFFICIENT"
    ELSE IF \/ ~HolmBelowAlpha(e.p_raw, tested)
            \/ Abs(e.effect) < ITEM_PAIR_EFFECT_THRESHOLD THEN "WEAK" ELSE "CONFIRMED"

Classified(e, tested) ==
    IF ~e.tested THEN "INSUFFICIENT"
    ELSE IF \/ ~HolmBelowAlpha(e.p_raw, tested)
            \/ Abs(e.effect) < ITEM_PAIR_EFFECT_THRESHOLD THEN "WEAK"
    ELSE IF e.effect > 0 THEN "CONFIRMED" ELSE "REVERSED"

\* The evaluations of both folds with their classifications.  samples[f] is
\* what the draws give for the training part when fold f is held out.
holdout_evaluations(G, samples, max_items) ==
    UNION {LET Panel(f) == discriminative_item_panel(
                    InFold(G, folds, 1 - f),
                    configuration_item_coverage(InFold(G, folds, 1 - f), samples[f]),
                    samples[f], max_items)
               found == UNION {evaluations(InFold(G, folds, f), f, Panel(f)) : f \in {0, 1}}
           IN UNION {{[row |-> e, classification |-> Classified(e, {x \in all : x.tested})] :
                         e \in all} : all \in {found}} : folds \in {fold_by_unit(G)}}

HoldoutStatus(found) ==
    LET classes == {e.classification : e \in found}
        folds == {e.row.fold : e \in {x \in found : x.classification # "INSUFFICIENT"}}
    IN IF "REVERSED" \in classes THEN "REVERSED_SIGNAL"
       ELSE IF Cardinality(folds) < 2 \/ "INSUFFICIENT" \in classes THEN "INSUFFICIENT"
       ELSE IF "WEAK" \in classes THEN "WEAK_GENERALIZATION" ELSE "STABLE"
=============================================================================
