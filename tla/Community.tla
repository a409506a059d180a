----------------------------- MODULE Community -----------------------------
(***************************************************************************)
(* Public result bundles and everything that is computed from a directory  *)
(* of them: the validation of one bundle, the aggregates of the index, the *)
(* relational rows of the observation database, the shortlist of serving   *)
(* candidates, the catalog and the collection plan.                        *)
(*                                                                         *)
(* A bundle is a record                                                    *)
(*   [id, schema, env, packs, models]                                      *)
(* with packs a function from the selected rounds to pack fingerprints and *)
(* models a sequence of                                                    *)
(*   [name, serving, scaffold, memory, rounds]                             *)
(* where rounds maps a round to its metrics, its item outcomes and its     *)
(* task rows, which only round 4 has.  Hashes are modelled by the value    *)
(* that is hashed: an ID is equal to another exactly when what it          *)
(* identifies is.  Rates and times are in thousandths.                     *)
(*                                                                         *)
(* A task row is [task, attempt, tokens, score, ready]: `score` stands for *)
(* its counts and times, `ready` for its flags, and attempt and tokens are *)
(* None or [int, value], where `int` says that the document writes an      *)
(* integer: 1 and not 1.5 or 1.0.                                          *)
(***************************************************************************)
EXTENDS Integers, Sequences, FiniteSets, FiniteSetsExt

CONSTANTS None        \* an absent value, and the null of the JSON documents

\* None is neither a number nor an interval.
ASSUME NoneAssumption ==
    None \notin Int /\ None \notin [estimate : Int, low : Int, high : Int, observed : Int]

PUBLIC_SCHEMA_VERSION == 4
MIN_BASELINE_SUBMISSIONS == 5
PUBLIC_ITEM_STATUSES == {"PASS", "FAIL", "INCOMPLETE", "REVIEW", "INVALID"}
RECOMMENDATION_OBJECTIVES == {"accuracy", "completion", "latency", "throughput"}

Thousandths(n, d) == (1000 * n) \div d

(***************************************************************************)
(* Identity of a configuration.  Bundles written before schema 2 carry no  *)
(* item outcomes, those before schema 3 no serving environment and those   *)
(* before schema 4 no execution scaffold.                                  *)
(***************************************************************************)
Unreported == [scope |-> "unreported", os |-> None]

\* Mutant of normalized_serving_environment: old bundles ran on one host.
MutantLegacyHost(schema, model) ==
    IF schema >= 3 THEN model.serving ELSE [scope |-> "same_host", os |-> None]

normalized_serving_environment(schema, model) ==
    IF schema >= 3 THEN model.serving ELSE Unreported

LegacyScaffold == [agent_backend |-> "codex_cli", isolation_mode |-> "none",
                   network |-> "unrestricted", fail_closed |-> FALSE]

normalized_execution_scaffold(schema, model) ==
    IF schema >= 4 THEN model.scaffold ELSE LegacyScaffold

configuration_id(schema, env, model) ==
    [runner |-> env,
     serving |-> normalized_serving_environment(schema, model),
     scaffold |-> normalized_execution_scaffold(schema, model),
     name |-> model.name, memory |-> model.memory]

ConfigurationOf(b, i) == configuration_id(b.schema, b.env, b.models[i])

(***************************************************************************)
(* validate_public_result.                                                 *)
(***************************************************************************)
ValidScaffold(s) ==
    /\ s.agent_backend \in {"codex_cli", "opencode_cli", "pi_cli"}
    /\ \/ s.isolation_mode = "macos_seatbelt" /\ s.fail_closed
          /\ s.network = "model_endpoint_only"
       \/ s.isolation_mode = "none" /\ ~s.fail_closed /\ s.network = "unrestricted"

ValidServing(s, env) ==
    /\ s.scope \in {"same_host", "remote", "unreported"}
    /\ s.scope = "same_host" => s.os = env
    /\ s.scope = "unreported" => s.os = None

(***************************************************************************)
(* Where a bundle gets its serving environment from: a model of the        *)
(* campaign has `declared`, its public_serving_environment or None, and    *)
(* `hosted`, whether it is the signed-in OpenAI Codex.                     *)
(***************************************************************************)
Systems == {"Linux", "Darwin", "Windows", "Other"}

\* validate_config: what a campaign may declare.
ValidDeclaration(model) ==
    LET s == model.declared
    IN s # None =>
         /\ s.scope \in {"same_host", "remote", "unreported"}
         /\ s.os \in Systems \cup {None}
         /\ s.scope = "unreported" => s.os = None
         /\ s.scope = "same_host" => ~model.hosted

\* _clean_serving_environment; None when the export is refused.
clean_serving_environment(model, runner) ==
    LET s == model.declared
    IN IF s = None THEN [scope |-> IF model.hosted THEN "remote" ELSE "unreported", os |-> None]
       ELSE IF s.scope = "same_host" /\ ~model.hosted /\ s.os \in {None, runner}
            THEN [scope |-> "same_host", os |-> runner]
       ELSE IF s.scope = "unreported" /\ s.os = None THEN Unreported
       ELSE IF s.scope = "remote" /\ s.os \in Systems \cup {None} THEN s
       ELSE None

\* What validate_config accepts can be exported, unless it names another system
\* than the one the campaign ran on, and what is exported is valid.
ASSUME DeclarationsExport ==
    \A scope \in {"same_host", "remote", "unreported", "other"}, os \in Systems \cup {None, "BeOS"},
       hosted \in BOOLEAN, runner \in Systems :
      \A model \in {[declared |-> d, hosted |-> hosted] : d \in {None, [scope |-> scope, os |-> os]}} :
        LET served == clean_serving_environment(model, runner)
        IN /\ served # None => ValidServing(served, runner)
           /\ ValidDeclaration(model) /\ (scope = "same_host" => os \in {None, runner}) => served # None

CountStatus(items, status) == Cardinality({x \in items : x.status = status})

\* One outcome per item and attempt, and metrics that repeat the outcomes.
ValidRound(r, m) ==
    /\ \A x, y \in m.items : (x.item = y.item /\ x.attempt = y.attempt) => x = y
    /\ \A x \in m.items : /\ x.status \in PUBLIC_ITEM_STATUSES /\ x.attempt >= 1
                          /\ x.wall # None => x.wall \in Nat
                          /\ x.tokens # None => x.tokens \in Nat
    /\ IF r = 4 THEN m.release_ready = CountStatus(m.items, "PASS")
       ELSE /\ m.passed = CountStatus(m.items, "PASS")
            /\ m.total = m.passed + CountStatus(m.items, "FAIL")
            /\ m.incomplete = CountStatus(m.items, "INCOMPLETE")
            /\ m.manual_review = CountStatus(m.items, "REVIEW")
            /\ m.infrastructure_errors = CountStatus(m.items, "INVALID")

\* TASK_NUMERIC_FIELDS: the number of an attempt and its tokens are like all the others,
\* absent or at least zero.
ValidTask(t) ==
    /\ t.attempt # None => t.attempt.value \in Nat
    /\ t.tokens # None => t.tokens.value \in Nat
    /\ t.score # None => t.score \in Nat
    /\ t.ready \in BOOLEAN \cup {None}

ValidModel(b, model) ==
    /\ b.schema >= 4 => ValidScaffold(model.scaffold)
    /\ b.schema >= 3 => ValidServing(model.serving, b.env)
    /\ DOMAIN model.rounds \subseteq DOMAIN b.packs
    /\ \A r \in DOMAIN model.rounds :
         /\ IF b.schema >= 2 THEN ValidRound(r, model.rounds[r])
            ELSE model.rounds[r].items = {}
         /\ IF r = 4 THEN \A k \in DOMAIN model.rounds[r].tasks : ValidTask(model.rounds[r].tasks[k])
            ELSE model.rounds[r].tasks = <<>>

validate_public_result(b) ==
    /\ b.schema \in 1..PUBLIC_SCHEMA_VERSION
    /\ DOMAIN b.packs # {} /\ DOMAIN b.packs \subseteq 1..4
    /\ b.models # <<>>
    /\ \A i \in DOMAIN b.models : ValidModel(b, b.models[i])

(***************************************************************************)
(* Relational rows (normalize_submissions).  A run is identified by its    *)
(* bundle, its configuration, the position of its model in the bundle, its *)
(* round and its pack.                                                     *)
(***************************************************************************)
RunId(b, i, r) == <<b.id, ConfigurationOf(b, i), i, r, b.packs[r]>>

RunsOf(b) == {x \in (DOMAIN b.models) \X (1..4) : x[2] \in DOMAIN b.models[x[1]].rounds}

BenchmarkRun(b, i, r) ==
    LET m == b.models[i].rounds[r]
    IN [run_id |-> RunId(b, i, r), bundle |-> b.id,
        configuration |-> ConfigurationOf(b, i), ordinal |-> i, round |-> r,
        pack |-> b.packs[r],
        passed |-> IF r = 4 THEN m.release_ready ELSE m.passed,
        total  |-> IF r = 4 THEN m.attempts ELSE m.total,
        incomplete |-> m.incomplete, manual_review |-> m.manual_review,
        infrastructure_errors |-> m.infrastructure_errors]

ItemObservations(b, i, r) ==
    {[run_id |-> RunId(b, i, r), item |-> x.item, attempt |-> x.attempt,
      status |-> x.status, wall |-> x.wall, tokens |-> x.tokens]
        : x \in b.models[i].rounds[r].items}

OptionalBoolean(flag) == IF flag = None THEN None ELSE IF flag THEN 1 ELSE 0

TaskObservations(b, i, r) ==
    LET tasks == b.models[i].rounds[r].tasks
    IN {[observation_id |-> <<RunId(b, i, r), k, tasks[k].task, tasks[k].attempt>>,
         run_id |-> RunId(b, i, r), ordinal |-> k, task |-> tasks[k].task,
         attempt |-> tasks[k].attempt, tokens |-> tasks[k].tokens, score |-> tasks[k].score,
         ready |-> OptionalBoolean(tasks[k].ready)] : k \in DOMAIN tasks}

ConfigurationRow(b, i) ==
    LET model == b.models[i]
    IN [configuration_id |-> ConfigurationOf(b, i), name |-> model.name, os |-> b.env,
        serving |-> normalized_serving_environment(b.schema, model),
        scaffold |-> normalized_execution_scaffold(b.schema, model),
        memory |-> model.memory]

normalize_submissions(S) ==
    [bundles |-> {[bundle |-> b.id, schema |-> b.schema, os |-> b.env] : b \in S},
     configurations |-> UNION {{ConfigurationRow(b, i) : i \in DOMAIN b.models} : b \in S},
     runs  |-> UNION {{BenchmarkRun(b, x[1], x[2]) : x \in RunsOf(b)} : b \in S},
     items |-> UNION {UNION {ItemObservations(b, x[1], x[2]) : x \in RunsOf(b)} : b \in S},
     tasks |-> UNION {UNION {TaskObservations(b, x[1], x[2]) : x \in RunsOf(b)} : b \in S}]

\* The primary keys and UNIQUE constraints of SCHEMA_SQL.
SchemaHolds(rows) ==
    /\ \A x, y \in rows.bundles : x.bundle = y.bundle => x = y
    /\ \A x, y \in rows.configurations : x.configuration_id = y.configuration_id => x = y
    /\ \A x, y \in rows.runs : x.run_id = y.run_id => x = y
    /\ \A x, y \in rows.runs : (x.bundle = y.bundle /\ x.ordinal = y.ordinal
                                  /\ x.round = y.round) => x = y
    /\ \A x, y \in rows.items : (x.run_id = y.run_id /\ x.item = y.item
                                   /\ x.attempt = y.attempt) => x = y
    /\ \A x, y \in rows.tasks : x.observation_id = y.observation_id => x = y
    /\ \A x, y \in rows.tasks : (x.run_id = y.run_id /\ x.ordinal = y.ordinal) => x = y

\* _validate_relational_semantics: every identity is recomputed from the
\* columns, the configuration's as if it came from a bundle of schema 4.
ValidConfigurationRow(c) ==
    /\ ValidScaffold(c.scaffold)
    /\ ValidServing(c.serving, c.os)
    /\ configuration_id(4, c.os, c) = c.configuration_id

ValidRunRow(r, rows) ==
    /\ \E b \in rows.bundles : \E c \in rows.configurations :
         b.bundle = r.bundle /\ c.configuration_id = r.configuration /\ b.os = c.os
    /\ r.run_id = <<r.bundle, r.configuration, r.ordinal, r.round, r.pack>>

ValidItemRow(x, rows) ==
    /\ \E r \in rows.runs : r.run_id = x.run_id
    /\ x.attempt >= 1 /\ x.status \in PUBLIC_ITEM_STATUSES
    /\ x.wall # None => x.wall \in Nat
    /\ x.tokens # None => x.tokens \in Nat

\* The loader asks more of a task row than the validator of its bundle does: attempts are
\* numbered from 1, and attempt and tokens are integers.  (A column of integers gives 1 for
\* 1.0; the fingerprint of what is read back then differs, which is refused as well.)
ValidTaskRow(t, rows) ==
    /\ \E r \in rows.runs : r.run_id = t.run_id
    /\ t.attempt # None => t.attempt.int /\ t.attempt.value >= 1
    /\ t.tokens # None => t.tokens.int /\ t.tokens.value >= 0
    /\ t.score # None => t.score \in Nat
    /\ t.ready \in {None, 0, 1}
    /\ t.observation_id = <<t.run_id, t.ordinal, t.task, t.attempt>>

RelationalSemantics(rows) ==
    /\ \A b \in rows.bundles : b.schema \in 1..4
    /\ \A c \in rows.configurations : ValidConfigurationRow(c)
    /\ \A r \in rows.runs : ValidRunRow(r, rows)
    /\ \A x \in rows.items : ValidItemRow(x, rows)
    /\ \A t \in rows.tasks : ValidTaskRow(t, rows)

\* load_database accepts the file; `fingerprint` stands for the metadata row,
\* which is recomputed from the rows.
load_database(db) ==
    /\ SchemaHolds(db.rows)
    /\ db.fingerprint = db.rows
    /\ RelationalSemantics(db.rows)

(***************************************************************************)
(* Aggregates.  Everything is grouped by round, pack and configuration;    *)
(* inside one bundle the models of a group are added up first, so that a   *)
(* bundle contributes at most one rate.                                    *)
(***************************************************************************)
SumOf(pairs) == MapThenSumSet(LAMBDA x : x[2], pairs)

\* Rates and times are sets of <<bundle, value>>.  Wilson score interval over n
\* rates with mean e, withheld below five rates; z = 1.96.
IntegerRoot(n) == CHOOSE k \in 0..1000 : k * k <= n /\ n < (k + 1) * (k + 1)

cluster_interval(rates) ==
    LET n == Cardinality(rates)
        e == SumOf(rates) \div n
        d == 1000 + 3842 \div n
        center == ((e + 1921 \div n) * 1000) \div d
        margin == (1960 * IntegerRoot((e * (1000 - e)) \div n + 960400 \div (n * n))) \div d
    IN IF n < MIN_BASELINE_SUBMISSIONS THEN None
       ELSE [estimate |-> e, low |-> Max({0, center - margin}),
             high |-> Min({1000, center + margin}), observed |-> n]

\* _percentile: the ceil(p * n)-th smallest value.
percentile(pairs, p) ==
    LET n == Cardinality(pairs)
        k == Max({1, (p * n + 99) \div 100})
    IN IF n = 0 THEN None
       ELSE CHOOSE v \in {x[2] : x \in pairs} :
              /\ Cardinality({x \in pairs : x[2] < v}) < k
              /\ Cardinality({x \in pairs : x[2] <= v}) >= k

\* What one bundle adds to a group, from its runs and their item observations.
Local(bundle, runs, items) ==
    LET walls == {x \in items : x.wall # None}
        rates == {<<x, Thousandths(x.tokens, x.wall)>>
                    : x \in {y \in walls : y.wall > 0 /\ y.tokens # None}}
        Total(field) == MapThenSumSet(LAMBDA x : x[field], runs)
    IN [bundle |-> bundle, runs |-> Cardinality(runs), passed |-> Total("passed"), total |-> Total("total"),
        incomplete |-> Total("incomplete"), manual_review |-> Total("manual_review"),
        infrastructure_errors |-> Total("infrastructure_errors"),
        wall |-> IF walls = {} THEN None
                 ELSE Thousandths(MapThenSumSet(LAMBDA x : x.wall, walls), Cardinality(walls)),
        rate |-> IF rates = {} THEN None ELSE SumOf(rates) \div Cardinality(rates)]

attempted(l) == l.total + l.incomplete + l.manual_review + l.infrastructure_errors

\* The totals and the rates of a group, from what its bundles add.
GroupRow(key, locals) ==
    LET Total(field) == MapThenSumSet(LAMBDA l : l[field], locals)
        pass == {<<l.bundle, Thousandths(l.passed, l.total)>>
                   : l \in {x \in locals : x.total > 0}}
        completion == {<<l.bundle, Thousandths(l.total, attempted(l))>>
                         : l \in {x \in locals : attempted(x) > 0}}
        walls == {<<l.bundle, l.wall>> : l \in {x \in locals : x.wall # None}}
        speeds == {<<l.bundle, l.rate>> : l \in {x \in locals : x.rate # None}}
    IN [round |-> key[1], pack |-> key[2], configuration |-> key[3],
        submissions |-> Cardinality(locals), runs |-> Total("runs"),
        passed |-> Total("passed"), total |-> Total("total"),
        incomplete |-> Total("incomplete"), manual_review |-> Total("manual_review"),
        infrastructure_errors |-> Total("infrastructure_errors"),
        observed |-> [accuracy |-> Cardinality(pass),
                      completion |-> Cardinality(completion),
                      latency |-> Cardinality(walls),
                      throughput |-> Cardinality(speeds)],
        pass_interval |-> cluster_interval(pass),
        completion_interval |-> cluster_interval(completion),
        wall50 |-> percentile(walls, 50), wall90 |-> percentile(walls, 90),
        speed50 |-> percentile(speeds, 50)]

\* aggregate_submissions, straight from the bundles: the positions of the
\* models of bundle b that belong to the group.
GroupModels(b, key) ==
    {i \in DOMAIN b.models : /\ key[1] \in DOMAIN b.models[i].rounds
                             /\ b.packs[key[1]] = key[2]
                             /\ ConfigurationOf(b, i) = key[3]}

GroupKeys(S) == UNION {{<<x[2], b.packs[x[2]], ConfigurationOf(b, x[1])>> : x \in RunsOf(b)}
                         : b \in S}

\* The totals one model adds: round 4 counts release-ready attempts.
ModelTotals(b, i, r) ==
    LET m == b.models[i].rounds[r]
    IN [ordinal |-> i,
        passed |-> IF r = 4 THEN m.release_ready ELSE m.passed,
        total  |-> IF r = 4 THEN m.attempts ELSE m.total,
        incomplete |-> m.incomplete, manual_review |-> m.manual_review,
        infrastructure_errors |-> m.infrastructure_errors]

BundleLocal(b, key) ==
    LET I == GroupModels(b, key)
        Timed(i) == {[ordinal |-> i, item |-> x.item, attempt |-> x.attempt,
                      wall |-> x.wall, tokens |-> x.tokens]
                        : x \in b.models[i].rounds[key[1]].items}
    IN Local(b.id, {ModelTotals(b, i, key[1]) : i \in I}, UNION {Timed(i) : i \in I})

\* Mutant of aggregate_submissions: one rate per model entry instead of one
\* per bundle.
MutantPerModel(S) ==
    LET Single(b, i) == [b EXCEPT !.models = <<b.models[i]>>]
        Entries(key) == UNION {{<<b, i>> : i \in GroupModels(b, key)} : b \in S}
        Part(x, key) == [BundleLocal(Single(x[1], x[2]), key) EXCEPT !.bundle = <<x[1].id, x[2]>>]
    IN {GroupRow(key, {Part(x, key) : x \in Entries(key)}) : key \in GroupKeys(S)}

aggregate_submissions(S) ==
    {GroupRow(key, {BundleLocal(b, key) : b \in {x \in S : GroupModels(x, key) # {}}})
       : key \in GroupKeys(S)}

\* aggregate_database, from the rows alone.
aggregate_database(rows) ==
    LET Keys == {<<r.round, r.pack, r.configuration>> : r \in rows.runs}
        In(key, bundle) == {r \in rows.runs : r.bundle = bundle
                              /\ <<r.round, r.pack, r.configuration>> = key}
        BundlesIn(key) == {b \in {r.bundle : r \in rows.runs} : In(key, b) # {}}
        ItemsOf(runs) == {x \in rows.items : \E r \in runs : r.run_id = x.run_id}
    IN {GroupRow(key, {Local(b, In(key, b), ItemsOf(In(key, b))) : b \in BundlesIn(key)})
          : key \in Keys}

(***************************************************************************)
(* The observations of results compare and results readiness: one for each *)
(* bundle, round and configuration, from the bundles and from the rows.    *)
(***************************************************************************)
PairedMetrics(l) ==
    [accuracy   |-> IF l.total > 0 THEN Thousandths(l.passed, l.total) ELSE None,
     completion |-> IF attempted(l) > 0 THEN Thousandths(l.total, attempted(l)) ELSE None,
     latency    |-> l.wall, throughput |-> l.rate]

bundle_observations(S) ==
    UNION {{[bundle |-> b.id, key |-> key, serving |-> key[3].serving,
             metrics |-> PairedMetrics(BundleLocal(b, key))] : key \in GroupKeys({b})} : b \in S}

\* paired_database_observations: the serving environment is a column of the
\* configuration's row.
paired_database_observations(rows) ==
    LET Key(r) == <<r.round, r.pack, r.configuration>>
        Serving(c) == (CHOOSE x \in rows.configurations : x.configuration_id = c).serving
        Runs(bundle, key) == {r \in rows.runs : r.bundle = bundle /\ Key(r) = key}
        ItemsOf(runs) == {x \in rows.items : \E r \in runs : r.run_id = x.run_id}
    IN {[bundle |-> r.bundle, key |-> Key(r), serving |-> Serving(r.configuration),
         metrics |-> PairedMetrics(Local(r.bundle, Runs(r.bundle, Key(r)),
                                         ItemsOf(Runs(r.bundle, Key(r)))))] : r \in rows.runs}
=============================================================================
