------------------------------- MODULE Report -------------------------------
(***************************************************************************)
(* What is read back from a run directory: the summary the report is       *)
(* rendered from (report.collect), the unresolved items (inspect_run) and  *)
(* the replay configuration (make_replay_config).  All three are functions *)
(* of the saved evidence: `result` maps <<model key, round, attempt>> to a *)
(* result.json payload, `run4` maps a model key to a run.json payload.     *)
(***************************************************************************)
EXTENDS Results, FiniteSetsExt

CONSTANTS Keys,            \* model keys (directory names under the run directory)
          MaxRepetitions,  \* the largest `repetitions` of any configuration
          Missing,         \* a file that does not exist
          Torn             \* a file that exists and does not parse as JSON

Attempts == 1..MaxRepetitions
Units    == Keys \X (1..3) \X Attempts

\* glob("attempt-*/result.json") under one model and round.
SavedAttempts(result, m, r) == {a \in Attempts : result[<<m, r, a>>] # Missing}

SumOver(result, m, r, f(_)) ==
    SumFunction([a \in SavedAttempts(result, m, r) |-> f(result[<<m, r, a>>])])

\* report.collect, rounds 1 to 3: "passed" adds up the saved scores, while the
\* other columns are recounted from the rows.
CollectRound(result, m, r) ==
    [attempts |-> Cardinality(SavedAttempts(result, m, r)),
     passed   |-> SumOver(result, m, r, LAMBDA p : p.score),
     total    |-> SumOver(result, m, r,
                    LAMBDA p : result_counts(p)["PASS"] + result_counts(p)["FAIL"]),
     manual_review |-> SumOver(result, m, r, LAMBDA p : result_counts(p)["REVIEW"]),
     incomplete    |-> SumOver(result, m, r, LAMBDA p : result_counts(p)["INCOMPLETE"]),
     infrastructure_errors |->
                   SumOver(result, m, r, LAMBDA p : result_counts(p)["INVALID"])]

\* report.collect, round 4.
CollectRound4(payload) ==
    [attempts |-> Len(payload.grades),
     planned_attempts |-> payload.attempts * Len(payload.tasks),
     infrastructure_errors |-> Len(payload.errors),
     release_ready |-> CountRows(payload.grades, LAMBDA g : g.attempt_pass)]

\* load_json raises on a torn run.json, and so does collect.
Collectable(run4, keys) == \A m \in keys : run4[m] # Torn

collect(result, run4, keys) ==
    [rounds |-> [m \in keys |-> [r \in 1..3 |-> CollectRound(result, m, r)]],
     round4 |-> [m \in keys |-> IF run4[m] = Missing THEN Missing
                                ELSE CollectRound4(run4[m])]]

(***************************************************************************)
(* inspection.inspect_run: the unresolved items of a run directory.        *)
(***************************************************************************)
\* Mutant of UNRESOLVED: the status added last is forgotten.
UNRESOLVED_Old == {"FAIL", "REVIEW", "INVALID"}

UNRESOLVED == {"FAIL", "INCOMPLETE", "REVIEW", "INVALID"}

InspectResult(result, u) ==
    LET rows == result[u].results
    IN {[model |-> u[1], round |-> u[2], attempt |-> u[3], item |-> rows[i].id,
         status |-> item_status(rows[i])]
          : i \in {j \in 1..Len(rows) : item_status(rows[j]) \in UNRESOLVED}}

InspectRun4(m, payload) ==
    LET failed == {i \in 1..Len(payload.grades) : ~payload.grades[i].attempt_pass}
        graded == {<<payload.grades[i].task, payload.grades[i].attempt>> : i \in failed}
        errors == {i \in 1..Len(payload.errors) :
                     <<payload.errors[i].task, payload.errors[i].attempt>> \notin graded}
    IN {[model |-> m, round |-> 4, attempt |-> payload.grades[i].attempt,
         item |-> payload.grades[i].task,
         status |-> IF payload.grades[i].model_timed_out THEN "INVALID" ELSE "FAIL"]
          : i \in failed}
       \cup
       {[model |-> m, round |-> 4, attempt |-> payload.errors[i].attempt,
         item |-> payload.errors[i].task, status |-> "INVALID"] : i \in errors}

inspect_run(result, run4, keys) ==
    (UNION {InspectResult(result, u) :
              u \in {v \in keys \X (1..3) \X Attempts : result[v] # Missing}})
    \cup (UNION {InspectRun4(m, run4[m]) : m \in {k \in keys : run4[k] # Missing}})

(***************************************************************************)
(* replay.make_replay_config: the items a replay campaign selects, as a    *)
(* set of <<model key, round, item>>; the empty set is the None the        *)
(* function returns when there is nothing to replay.                       *)
(***************************************************************************)
ReplayItems(result, run4, keys, include_review) ==
    LET statuses == {"FAIL", "INCOMPLETE", "INVALID"}
                      \cup (IF include_review THEN {"REVIEW"} ELSE {})
    IN {<<x.model, x.round, x.item>> :
          x \in {y \in inspect_run(result, run4, keys) : y.status \in statuses}}

(***************************************************************************)
(* public_results: the bundle that is exported from a run directory.  The  *)
(* metrics of a round come from collect, its item outcomes from the saved  *)
(* rows, and validate_public_result compares the two.                      *)
(***************************************************************************)
\* _public_item_observations, rounds 1 to 3.
PublicItems(result, m, r) ==
    UNION {LET rows == result[<<m, r, a>>].results
           IN {[item |-> rows[i].id, attempt |-> a, position |-> i,
                status |-> item_status(rows[i])] : i \in 1..Len(rows)}
             : a \in SavedAttempts(result, m, r)}

\* _public_item_observations, round 4: the errors that have no grade are added.
PublicItems4(payload) ==
    LET Status(g) == IF g.model_timed_out THEN "INVALID"
                     ELSE IF g.attempt_pass THEN "PASS" ELSE "FAIL"
        graded == {<<g.task, g.attempt>> : g \in Range(payload.grades)}
        lost   == {i \in 1..Len(payload.errors) :
                     <<payload.errors[i].task, payload.errors[i].attempt>> \notin graded}
    IN {[item |-> payload.grades[i].task, attempt |-> payload.grades[i].attempt,
         position |-> i, status |-> Status(payload.grades[i])]
          : i \in 1..Len(payload.grades)}
       \cup {[item |-> payload.errors[i].task, attempt |-> payload.errors[i].attempt,
              position |-> Len(payload.grades) + i, status |-> "INVALID"] : i \in lost}

\* One outcome per item and attempt.
ItemsAreUnique(items) ==
    \A x, y \in items : x.item = y.item /\ x.attempt = y.attempt => x.position = y.position

\* validate_public_result, "contradicts item outcomes".
MetricsMatch(metrics, items) ==
    LET N(s) == Cardinality({x \in items : x.status = s})
    IN /\ metrics.passed = N("PASS")
       /\ metrics.total = N("PASS") + N("FAIL")
       /\ metrics.incomplete = N("INCOMPLETE")
       /\ metrics.manual_review = N("REVIEW")
       /\ metrics.infrastructure_errors = N("INVALID")

\* build_public_result for one model and round: what it returns validates.
PublicRoundValidates(result, m, r) ==
    LET items == PublicItems(result, m, r)
    IN ItemsAreUnique(items) /\ MetricsMatch(CollectRound(result, m, r), items)

PublicRound4Validates(payload) ==
    LET items == PublicItems4(payload)
    IN /\ ItemsAreUnique(items)
       /\ CollectRound4(payload).release_ready
             = Cardinality({x \in items : x.status = "PASS"})
=============================================================================
