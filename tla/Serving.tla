------------------------------ MODULE Serving ------------------------------
(***************************************************************************)
(* What the community commands answer from the aggregate rows: the gated   *)
(* shortlist (results recommend), the catalog of what was observed         *)
(* (results catalog), the collection plan (results plan) and the item      *)
(* outcomes of the index (results build).                                  *)
(*                                                                         *)
(* The constraints of a query are abstracted to one capacity bound,        *)
(* max_memory_gb, which a configuration without that metadata never meets. *)
(***************************************************************************)
EXTENDS Community

\* What _recommend_aggregate_rows accepts as a query, for the plan as well; an accuracy
\* floor is a rate.
ValidQuery(q) ==
    /\ q.round \in 1..4
    /\ q.objectives # {} /\ q.objectives \subseteq RECOMMENDATION_OBJECTIVES
    /\ q.max_memory # None => q.max_memory > 0
    /\ q.floor # None => q.floor \in 0..1000

matches_constraints(row, max_memory) ==
    \/ max_memory = None
    \/ row.configuration.memory # None /\ row.configuration.memory <= max_memory

\* The value of each objective, None below five bundles.
candidate_metrics(row) ==
    [accuracy   |-> IF row.pass_interval = None THEN None ELSE row.pass_interval.low,
     completion |-> IF row.completion_interval = None THEN None
                    ELSE row.completion_interval.low,
     latency    |-> IF row.observed.latency >= MIN_BASELINE_SUBMISSIONS
                    THEN row.wall90 ELSE None,
     throughput |-> IF row.observed.throughput >= MIN_BASELINE_SUBMISSIONS
                    THEN row.speed50 ELSE None]

AtLeast(objective, x, y) == IF objective = "latency" THEN x <= y ELSE x >= y

\* Mutant of dominates: no worse is enough.
MutantNoWorse(left, right, objectives) ==
    LET l == candidate_metrics(left) r == candidate_metrics(right)
    IN \A o \in objectives : l[o] # None /\ r[o] # None /\ AtLeast(o, l[o], r[o])

dominates(left, right, objectives) ==
    LET l == candidate_metrics(left) r == candidate_metrics(right)
    IN /\ \A o \in objectives : l[o] # None /\ r[o] # None /\ AtLeast(o, l[o], r[o])
       /\ \E o \in objectives : l[o] # r[o]

\* The pack a query is about: the requested one, or the only one there is.
SelectedPack(packs, pack) ==
    IF pack # None THEN pack
    ELSE IF Cardinality(packs) = 1 THEN CHOOSE p \in packs : TRUE ELSE None

PacksOf(rows, round) == {x.pack : x \in {y \in rows : y.round = round}}

Matched(rows, q) ==
    {x \in rows : /\ x.round = q.round
                  /\ x.pack = SelectedPack(PacksOf(rows, q.round), q.pack)
                  /\ matches_constraints(x, q.max_memory)}

Eligible(rows, q) ==
    {x \in Matched(rows, q) :
       /\ x.pass_interval # None
       /\ \A o \in q.objectives : candidate_metrics(x)[o] # None
       /\ q.floor # None => candidate_metrics(x).accuracy >= q.floor}

\* _recommend_aggregate_rows.
recommend(rows, q) ==
    LET packs    == PacksOf(rows, q.round)
        selected == SelectedPack(packs, q.pack)
        matched  == Matched(rows, q)
        eligible == Eligible(rows, q)
        candidates == {x \in eligible :
                         \A y \in eligible \ {x} : ~dominates(y, x, q.objectives)}
        Answer(status, m, e, c) ==
            [status |-> status, matched |-> m, eligible |-> e, candidates |-> c]
    IN IF q.pack = None /\ Cardinality(packs) > 1 THEN Answer("PACK_REQUIRED", {}, {}, {})
       ELSE IF selected \notin packs THEN Answer("INSUFFICIENT_EVIDENCE", {}, {}, {})
       ELSE Answer(IF matched = {} THEN "NO_MATCH"
                   ELSE IF eligible = {} THEN "INSUFFICIENT_EVIDENCE"
                   ELSE IF Cardinality(eligible) = 1 THEN "SINGLE_ELIGIBLE_CONFIGURATION"
                   ELSE "DESCRIPTIVE_CANDIDATES", matched, eligible, candidates)

\* serving_catalog._observation: which objectives a row is ready for.
readiness(row) ==
    LET m == candidate_metrics(row)
    IN [o \in RECOMMENDATION_OBJECTIVES |-> m.accuracy # None /\ m[o] # None]

\* serving_catalog._facet_rows for the optional facet memory_gb.
FacetRows(rows) ==
    LET declared == {x \in rows : x.configuration.memory # None}
        missing  == rows \ declared
        Of(v)    == {x \in declared : x.configuration.memory = v}
    IN [values |-> {[value |-> v,
                     configurations |-> Cardinality({x.configuration : x \in Of(v)}),
                     observations |-> Cardinality(Of(v)),
                     max_bundles |-> Max({x.observed.accuracy : x \in Of(v)}),
                     ready |-> Cardinality({x \in Of(v) : x.pass_interval # None})]
                       : v \in {x.configuration.memory : x \in declared}},
        missing |-> [configurations |-> Cardinality({x.configuration : x \in missing}),
                     observations |-> Cardinality(missing)]]

\* serving_catalog.build_catalog: one entry per configuration of the selected
\* rows; None for a round or a pack selects all.
build_catalog(rows, round, pack) ==
    LET selected == {x \in rows : (round = None \/ x.round = round)
                                  /\ (pack = None \/ x.pack = pack)}
        Observation(x) == [round |-> x.round, pack |-> x.pack,
                           independent_bundles |-> x.observed.accuracy,
                           readiness |-> readiness(x)]
    IN [status |-> IF selected # {} THEN "OBSERVED"
                   ELSE IF rows = {} THEN "EMPTY" ELSE "NO_MATCH",
        configurations |->
          [c \in {x.configuration : x \in selected} |->
             {Observation(x) : x \in {y \in selected : y.configuration = c}}],
        facets |-> FacetRows(selected)]

\* Mutant of Additional: a plan that does not ask for accuracy does not need it.
MutantNoPrerequisite(row, objectives, target) ==
    Max({0} \cup {target - row.observed[o] : o \in objectives})

\* collection_plan: the complete bundles one configuration still needs.
Additional(row, objectives, target) ==
    Max({0, MIN_BASELINE_SUBMISSIONS - row.observed.accuracy}
          \cup {target - row.observed[o] : o \in objectives})

build_collection_plan(rows, q, target) ==
    LET answer == recommend(rows, q)
        packs  == PacksOf(rows, q.round)
        need   == {<<x.configuration, Additional(x, q.objectives, target)>>
                     : x \in Matched(rows, q)}
        Plan(status, n) == [status |-> status, need |-> n, total |-> SumOf(n)]
    IN IF answer.status = "PACK_REQUIRED" THEN Plan("PACK_REQUIRED", {})
       ELSE IF SelectedPack(packs, q.pack) \notin packs THEN Plan("NO_OBSERVATIONS", {})
       ELSE IF need = {} THEN Plan("NO_MATCH", need)
       ELSE IF \A x \in need : x[2] = 0 THEN Plan("TARGET_MET", need)
       ELSE Plan("COLLECTION_NEEDED", need)

(***************************************************************************)
(* community_results.aggregate_item_diagnostics: one respondent per bundle,*)
(* configuration and attempt; two models of a bundle with one configuration*)
(* share their respondents, and a second, different outcome of one item    *)
(* raises.                                                                 *)
(***************************************************************************)
Outcomes(S) ==
    UNION {UNION {{[round |-> x[2], pack |-> b.packs[x[2]],
                    respondent |-> <<b.id, ConfigurationOf(b, x[1]), y.attempt>>,
                    item |-> y.item, status |-> y.status]
                      : y \in b.models[x[1]].rounds[x[2]].items} : x \in RunsOf(b)} : b \in S}

ItemsConflict(S) ==
    \E x, y \in Outcomes(S) :
        /\ x.round = y.round /\ x.pack = y.pack
        /\ x.respondent = y.respondent /\ x.item = y.item /\ x.status # y.status

\* render_index: the document is a function of the aggregates and of the item
\* counts; it raises where the items conflict.
ItemCounts(S) ==
    LET all == Outcomes(S)
        Of(x) == {y \in all : <<y.round, y.pack, y.item>> = <<x.round, x.pack, x.item>>}
    IN {[round |-> x.round, pack |-> x.pack, item |-> x.item,
         counts |-> [s \in PUBLIC_ITEM_STATUSES |-> CountStatus(Of(x), s)],
         bundles |-> Cardinality({y.respondent[1] : y \in Of(x)})] : x \in all}

render_index(S) ==
    [bundles |-> Cardinality(S), rows |-> aggregate_submissions(S), items |-> ItemCounts(S)]
=============================================================================
