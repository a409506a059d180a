------------------------------ MODULE Campaign ------------------------------
(***************************************************************************)
(* A benchmark campaign over one run directory: orchestrator.run and       *)
(* _execute, with the runners they call (round12.run, round3.run and       *)
(* v4_runner.main) and the report generated at the end.  The operator may  *)
(* start the command again after it stopped, with the same or with another *)
(* configuration, as a dry run, or rebuild the report alone.  The process  *)
(* may be killed or interrupted between any two steps; what is on disk     *)
(* survives, everything else is lost.                                      *)
(*                                                                         *)
(* A step is a piece of the program between two points where a kill leaves *)
(* a different directory behind: one model call, one os.replace, the       *)
(* truncation of a file opened with mode "w", the end of that write.       *)
(***************************************************************************)
EXTENDS Report, TLC

CONSTANTS Configs,          \* the configurations the operator may pass
          Bank,             \* [1..3 -> Seq(Items)]: the questions of each round
          Items,            \* question ids
          MultiTurn,        \* the questions of round 3 with "multi_turn"
          Tasks,            \* round 4 task names
          CANONICAL_TASKS,  \* Seq(Tasks)
          MaxFaults,        \* bound: kills, failed calls and cut answers
          TornWrites        \* may a kill hit between open("w") and the end of a write?

NoTasks == <<>>   \* an absent item filter, or an absent round4_tasks

ModelConfig == [key : Keys, rounds : Seq(1..4), filters : [1..4 -> Seq(Items \cup Tasks)]]

Config == [models : Seq(ModelConfig), repetitions : Attempts, round4_tasks : Seq(Tasks)]

(***************************************************************************)
(* The plan: which units a configuration selects, in the order of the      *)
(* loops of _execute.                                                      *)
(***************************************************************************)

\* The rounds of the first inner loop: round 4 is handled after it.
ReasoningRounds(model) == SelectSeq(model.rounds, LAMBDA r : r \in 1..3)

\* The questions of round12.run and round3.run after question_filter.
Questions(model, r) ==
    IF model.filters[r] = NoTasks THEN Bank[r]
    ELSE SelectSeq(Bank[r], LAMBDA q : q \in Range(model.filters[r]))

\* `_item_filter(model, 4) or config.get("round4_tasks")`, then `or CANONICAL_TASKS`.
Round4Tasks(c, model) ==
    CASE model.filters[4] # NoTasks -> model.filters[4]
      [] model.filters[4] = NoTasks /\ c.round4_tasks # NoTasks -> c.round4_tasks
      [] OTHER -> CANONICAL_TASKS

\* _campaign_units.
ModelRoundUnits(c, model, r) ==
    CASE model.filters[r] # NoTasks -> Len(model.filters[r])
      [] model.filters[r] = NoTasks /\ r = 4 ->
           Len(IF c.round4_tasks # NoTasks THEN c.round4_tasks ELSE CANONICAL_TASKS)
      [] OTHER -> Len(Bank[r])

CampaignUnits(c) ==
    SumFunction([x \in {y \in (1..Len(c.models)) \X (1..4) :
                           y[2] \in Range(c.models[y[1]].rounds)}
                   |-> c.repetitions * ModelRoundUnits(c, c.models[x[1]], x[2])])

\* The result.json files and run.json files a complete campaign has.
PlannedUnits(c) ==
    UNION {{c.models[i].key} \X Range(ReasoningRounds(c.models[i])) \X (1..c.repetitions)
             : i \in 1..Len(c.models)}

Round4Keys(c) == {c.models[i].key : i \in {j \in 1..Len(c.models) :
                                             4 \in Range(c.models[j].rounds)}}

ConfigKeys(c) == {c.models[i].key : i \in 1..Len(c.models)}

\* validate_config, lines 65-96: what the plan relies on.
ValidConfig(c) ==
    /\ c.models # <<>>
    /\ \A i, j \in 1..Len(c.models) : c.models[i].key = c.models[j].key => i = j
    /\ \A i \in 1..Len(c.models) :
         LET rounds == c.models[i].rounds
         IN /\ rounds # <<>>
            /\ IsInjective(rounds)

\* validate_config, lines 164-200: a filter names items of a round of its model,
\* and neither it nor round4_tasks names one twice.
ValidFilters(c) ==
    /\ IsInjective(c.round4_tasks) /\ Range(c.round4_tasks) \subseteq Range(CANONICAL_TASKS)
    /\ \A i \in 1..Len(c.models), r \in 1..4 :
         LET filter == c.models[i].filters[r]
         IN /\ filter # NoTasks => r \in Range(c.models[i].rounds)
            /\ IsInjective(filter)
            /\ Range(filter) \subseteq Range(IF r = 4 THEN CANONICAL_TASKS ELSE Bank[r])

\* The ids of a pack's questions are distinct, and so are the names of the tasks.
ASSUME ConfigAssumption ==
    /\ MaxRepetitions \in Nat
    /\ MaxFaults \in Nat
    /\ TornWrites \in BOOLEAN
    /\ Bank \in [1..3 -> Seq(Items)] /\ \A r \in 1..3 : IsInjective(Bank[r])
    /\ CANONICAL_TASKS \in Seq(Tasks) /\ CANONICAL_TASKS # <<>> /\ IsInjective(CANONICAL_TASKS)
    /\ \A c \in Configs : c \in Config /\ ValidConfig(c) /\ ValidFilters(c)

\* t is what SelectSeq leaves of the list s, which repeats nothing.
Selected(t, s, S) == Range(t) = Range(s) \cap S /\ IsInjective(t)

\* Facts about SelectSeq, by evaluation.
ASSUME PlanAssumption ==
    \A c \in Configs : \A i \in 1..Len(c.models) :
      LET model == c.models[i]
      IN /\ ReasoningRounds(model) \in Seq(1..3)
         /\ Selected(ReasoningRounds(model), model.rounds, 1..3)
         /\ \A r \in 1..3 :
              /\ Questions(model, r) \in Seq(Items)
              /\ model.filters[r] # NoTasks =>
                   Selected(Questions(model, r), Bank[r], Range(model.filters[r]))

ASSUME SentinelAssumption ==
    Missing # Torn /\ Missing \notin Configs

-----------------------------------------------------------------------------
VARIABLES
    \* the run directory
    snapshot,   \* config.json
    result,     \* [Units -> result.json]
    graded,     \* the <<key, task, attempt>> with a grade.json of round 4
    run4,       \* [Keys -> round4/run.json]
    summary,    \* summary.json
    markdown,   \* REPORT.md, represented by the summary it renders
    \* the process
    pc,         \* where the process is; "idle" when there is none
    command,    \* "run", "dry-run" or "report"
    cfg,        \* the configuration it was given
    mi,         \* index of the current model
    ri, at,     \* indices of the two loops inside a model: the round (in
                \* round 4 the task) and the attempt
    rows,       \* the results list of round12.run / round3.run
    r4,         \* grades and errors of v4_runner.main
    dashboard,  \* the counters of TerminalDashboard
    outcome,    \* how the last process ended
    \* the environment
    faults      \* faults so far

disk == <<snapshot, result, graded, run4, summary, markdown>>
loop == <<mi, ri, at>>
proc == <<command, cfg, loop, rows, r4>>
vars == <<disk, pc, proc, dashboard, outcome, faults>>

EmptyR4 == [grades |-> <<>>, errors |-> <<>>]

FreshDashboard == [completed |-> 0, skipped |-> 0, tally |-> [s \in Statuses |-> 0]]

Model == cfg.models[mi]
Round == ReasoningRounds(Model)[ri]
Unit  == <<Model.key, Round, at>>
Qs    == Questions(Model, Round)
R4Tasks == Round4Tasks(cfg, Model)

\* Mutant of Finished: an existing file is skipped whatever it says.
Finished_Exists(p) == p # Missing

\* The condition under which _execute skips a saved result.json.
Finished(p) == p # Missing /\ p.infrastructure_errors = 0 /\ p.incomplete = 0

\* The condition under which it skips a saved run.json.
Finished4(p) == p # Missing /\ p # Torn /\ p.errors = <<>>

(***************************************************************************)
(* Dashboard updates: TerminalDashboard.record, skip and complete_plan.    *)
(***************************************************************************)
record(d, status) ==
    [completed |-> d.completed + 1, skipped |-> d.skipped,
     tally |-> [d.tally EXCEPT ![status] = @ + 1]]

skip(d, count) ==
    [completed |-> d.completed + count, skipped |-> d.skipped + count, tally |-> d.tally]

complete_plan(d) ==
    [completed |-> CampaignUnits(cfg), skipped |-> d.skipped, tally |-> d.tally]

(***************************************************************************)
(* Loop control.                                                           *)
(***************************************************************************)
StartModel(c, i) ==
    /\ mi' = i
    /\ ri' = 1
    /\ at' = 1
    /\ pc' = IF ReasoningRounds(c.models[i]) # <<>> THEN "unit" ELSE "round4"

NextUnit ==
    \/ /\ at < cfg.repetitions
       /\ at' = at + 1
       /\ pc' = "unit"
       /\ UNCHANGED <<mi, ri>>
    \/ /\ at >= cfg.repetitions
       /\ ri < Len(ReasoningRounds(Model))
       /\ ri' = ri + 1
       /\ at' = 1
       /\ pc' = "unit"
       /\ UNCHANGED mi
    \/ /\ at >= cfg.repetitions
       /\ ri >= Len(ReasoningRounds(Model))
       /\ pc' = "round4"
       /\ UNCHANGED loop

\* The two loops of v4_runner.main.
NextAttempt ==
    \/ /\ at < cfg.repetitions
       /\ at' = at + 1
       /\ UNCHANGED <<pc, ri>>
    \/ /\ at >= cfg.repetitions
       /\ at' = 1
       /\ ri' = ri + 1
       /\ pc' = IF ri < Len(R4Tasks) THEN "attempt" ELSE "run.json"

NextModel ==
    \/ /\ mi < Len(cfg.models)
       /\ StartModel(cfg, mi + 1)
    \/ /\ mi >= Len(cfg.models)
       /\ pc' = IF command = "dry-run" THEN "finish" ELSE "collect"
       /\ UNCHANGED loop

\* The process is gone: whatever it held in memory goes with it.
End(how) ==
    /\ pc' = "idle"
    /\ outcome' = how
    /\ rows' = <<>>
    /\ r4' = EmptyR4
    /\ UNCHANGED <<command, cfg, loop>>

Init ==
    /\ snapshot = Missing
    /\ result = [u \in Units |-> Missing]
    /\ graded = {}
    /\ run4 = [m \in Keys |-> Missing]
    /\ summary = Missing
    /\ markdown = Missing
    /\ pc = "idle"
    /\ command = "run"
    /\ cfg \in Configs
    /\ mi = 1 /\ ri = 1 /\ at = 1
    /\ rows = <<>>
    /\ r4 = EmptyR4
    /\ dashboard = FreshDashboard
    /\ outcome = "none"
    /\ faults = 0

(***************************************************************************)
(* orchestrator.run up to _execute: the snapshot is written by the first   *)
(* run and compared by every later one.                                    *)
(***************************************************************************)
Invoke(c, cmd) ==
    /\ pc = "idle"
    /\ snapshot \in {Missing, c}
    /\ snapshot' = c
    /\ command' = cmd
    /\ cfg' = c
    /\ dashboard' = FreshDashboard
    /\ outcome' = "running"
    /\ StartModel(c, 1)
    /\ UNCHANGED <<result, graded, run4, summary, markdown, rows, r4, faults>>

\* "resume config does not match the saved config.json": nothing is touched.
Refuse(c) ==
    /\ pc = "idle"
    /\ snapshot \notin {Missing, c}
    /\ outcome' = "refused"
    /\ UNCHANGED <<disk, pc, proc, dashboard, faults>>

\* The report command: generate(run_dir), with no run in progress.
InvokeReport ==
    /\ pc = "idle"
    /\ snapshot # Missing
    /\ pc' = "collect"
    /\ command' = "report"
    /\ cfg' = snapshot
    /\ outcome' = "running"
    /\ UNCHANGED <<disk, loop, rows, r4, dashboard, faults>>

(***************************************************************************)
(* Rounds 1 to 3.                                                          *)
(***************************************************************************)
SkipUnit ==
    /\ pc = "unit"
    /\ Finished(result[Unit])
    /\ dashboard' = skip(dashboard, result[Unit].planned)
    /\ NextUnit
    /\ UNCHANGED <<disk, command, cfg, rows, r4, outcome, faults>>

\* Mutant of StartUnit: a unit is started although its result is finished.
StartUnit_Again ==
    /\ pc = "unit"
    /\ command = "run"
    /\ pc' = "ask"
    /\ UNCHANGED <<disk, proc, dashboard, outcome, faults>>

StartUnit ==
    /\ pc = "unit"
    /\ ~Finished(result[Unit])
    /\ \/ command = "dry-run" /\ NextUnit
       \/ command = "run" /\ pc' = "ask" /\ UNCHANGED loop
    /\ UNCHANGED <<disk, command, cfg, rows, r4, dashboard, outcome, faults>>

\* What the environment may answer: errors and cut answers are bounded.
Respond(resp) ==
    IF resp \in {"right", "wrong"} THEN faults' = faults
    ELSE faults < MaxFaults /\ faults' = faults + 1

\* One iteration of the question loop.
Ask(resp) ==
    LET q   == Qs[Len(rows) + 1]
        row == IF Round = 3 THEN Row3(q, q \in MultiTurn, resp) ELSE Row12(q, resp)
    IN /\ pc = "ask"
       /\ Len(rows) < Len(Qs)
       /\ Respond(resp)
       /\ rows' = Append(rows, row)
       /\ dashboard' = record(dashboard, IF Round = 3 THEN mark3(row) ELSE row.status)
       /\ UNCHANGED <<disk, pc, command, cfg, loop, r4, outcome>>

\* Mutant of SaveResult: the file is also written before the last question.
SaveResult_Partial ==
    /\ pc = "ask"
    /\ result' = [result EXCEPT ![Unit] =
                    IF Round = 3 THEN Payload3(rows) ELSE Payload12(rows)]
    /\ rows' = <<>>
    /\ NextUnit
    /\ UNCHANGED <<snapshot, graded, run4, summary, markdown,
                   command, cfg, r4, dashboard, outcome, faults>>

\* save_json(out_dir / "result.json", payload): a temporary file and os.replace.
SaveResult ==
    /\ pc = "ask"
    /\ Len(rows) = Len(Qs)
    /\ result' = [result EXCEPT ![Unit] =
                    IF Round = 3 THEN Payload3(rows) ELSE Payload12(rows)]
    /\ rows' = <<>>
    /\ NextUnit
    /\ UNCHANGED <<snapshot, graded, run4, summary, markdown,
                   command, cfg, r4, dashboard, outcome, faults>>

(***************************************************************************)
(* Round 4.                                                                *)
(***************************************************************************)
\* Round 4 is not selected, or its run.json has no errors, or this is a dry run.
SkipRound4 ==
    /\ pc = "round4"
    /\ LET selected == 4 \in Range(Model.rounds)
           done     == Finished4(run4[Model.key])
       IN /\ selected => done \/ (command = "dry-run" /\ run4[Model.key] # Torn)
          /\ dashboard' = IF selected /\ done
                          THEN skip(dashboard, run4[Model.key].attempts
                                                 * Len(run4[Model.key].tasks))
                          ELSE dashboard
    /\ NextModel
    /\ UNCHANGED <<disk, command, cfg, rows, r4, outcome, faults>>

\* load_json raises on a torn run.json; `run` stops the dashboard and re-raises.
RejectRound4 ==
    /\ pc = "round4"
    /\ 4 \in Range(Model.rounds)
    /\ run4[Model.key] = Torn
    /\ End("stopped")
    /\ UNCHANGED <<disk, dashboard, faults>>

\* v4_runner.main starts over: every task and attempt, whatever was graded before.
StartRound4 ==
    /\ pc = "round4"
    /\ command = "run"
    /\ 4 \in Range(Model.rounds)
    /\ run4[Model.key] # Torn
    /\ ~Finished4(run4[Model.key])
    /\ pc' = "attempt"
    /\ ri' = 1
    /\ at' = 1
    /\ UNCHANGED <<disk, command, cfg, mi, rows, r4, dashboard, outcome, faults>>

\* preflight or the harness self-checks fail: return 2, and _execute raises.
FailPreflight ==
    /\ pc = "attempt"
    /\ ri = 1 /\ at = 1
    /\ faults < MaxFaults
    /\ faults' = faults + 1
    /\ End("stopped")
    /\ UNCHANGED <<disk, dashboard>>

\* One run_attempt: a grade, or an exception (the agent wrappers raise on a
\* timeout as on any other failure).
Attempt(how) ==
    LET task == R4Tasks[ri]
    IN /\ pc = "attempt"
       /\ how \in {"pass", "fail"} \/ faults < MaxFaults
       /\ faults' = IF how \in {"pass", "fail"} THEN faults ELSE faults + 1
       /\ IF how \in {"pass", "fail"}
          THEN /\ r4' = [r4 EXCEPT !.grades = Append(@,
                           [task |-> task, attempt |-> at, attempt_pass |-> how = "pass",
                            model_timed_out |-> FALSE])]
               /\ graded' = graded \cup {<<Model.key, task, at>>}
               /\ dashboard' = record(dashboard, IF how = "pass" THEN "PASS" ELSE "FAIL")
          ELSE /\ r4' = [r4 EXCEPT !.errors = Append(@,
                           [task |-> task, attempt |-> at, error |-> how])]
               /\ dashboard' = record(dashboard, "INVALID")
               /\ UNCHANGED graded
       /\ NextAttempt
       /\ UNCHANGED <<snapshot, result, run4, summary, markdown,
                      command, cfg, mi, rows, outcome>>

\* open(path, "w"): the old run.json is gone.
OpenRunJson ==
    /\ pc = "run.json"
    /\ run4' = [run4 EXCEPT ![Model.key] = Torn]
    /\ pc' = "dump"
    /\ UNCHANGED <<snapshot, result, graded, summary, markdown, proc, dashboard,
                   outcome, faults>>

\* json.dump has been flushed; the return code decides whether _execute raises.
DumpRunJson ==
    /\ pc = "dump"
    /\ run4' = [run4 EXCEPT ![Model.key] =
                  [tasks |-> R4Tasks, attempts |-> cfg.repetitions,
                   grades |-> r4.grades, errors |-> r4.errors]]
    /\ IF r4.errors # <<>>
       THEN End("stopped")
       ELSE /\ NextModel
            /\ r4' = EmptyR4
            /\ UNCHANGED <<command, cfg, rows, outcome>>
    /\ UNCHANGED <<snapshot, result, graded, summary, markdown, dashboard, faults>>

(***************************************************************************)
(* report.generate and the end of orchestrator.run.                        *)
(***************************************************************************)
\* Mutant of SaveSummary: a summary that is already there is kept.
SaveSummary_Cached ==
    /\ pc = "collect"
    /\ Collectable(run4, ConfigKeys(cfg))
    /\ summary' = IF summary = Missing THEN collect(result, run4, ConfigKeys(cfg))
                  ELSE summary
    /\ pc' = "open report"
    /\ UNCHANGED <<snapshot, result, graded, run4, markdown, proc, dashboard,
                   outcome, faults>>

SaveSummary ==
    /\ pc = "collect"
    /\ Collectable(run4, ConfigKeys(cfg))
    /\ summary' = collect(result, run4, ConfigKeys(cfg))
    /\ pc' = "open report"
    /\ UNCHANGED <<snapshot, result, graded, run4, markdown, proc, dashboard,
                   outcome, faults>>

RejectCollect ==
    /\ pc = "collect"
    /\ ~Collectable(run4, ConfigKeys(cfg))
    /\ End("stopped")
    /\ UNCHANGED <<disk, dashboard, faults>>

\* REPORT.md is written in place: first truncated, then filled.
OpenReport ==
    /\ pc = "open report"
    /\ markdown' = Torn
    /\ pc' = "write report"
    /\ UNCHANGED <<snapshot, result, graded, run4, summary, proc, dashboard,
                   outcome, faults>>

WriteReport ==
    /\ pc = "write report"
    /\ markdown' = summary
    /\ pc' = "finish"
    /\ UNCHANGED <<snapshot, result, graded, run4, summary, proc, dashboard,
                   outcome, faults>>

Finish ==
    /\ pc = "finish"
    /\ dashboard' = IF command = "dry-run" THEN complete_plan(dashboard) ELSE dashboard
    /\ End("success")
    /\ UNCHANGED <<disk, faults>>

(***************************************************************************)
(* The process is killed, or a KeyboardInterrupt (not an Exception, so no  *)
(* runner catches it) unwinds it through `run`.                            *)
(***************************************************************************)
InWrite == pc \in {"dump", "write report"}

Kill(how) ==
    /\ pc # "idle"
    /\ TornWrites \/ ~InWrite
    /\ faults < MaxFaults
    /\ faults' = faults + 1
    /\ End(how)
    /\ UNCHANGED <<disk, dashboard>>

-----------------------------------------------------------------------------
Step ==
    \/ SkipUnit
    \/ StartUnit
    \/ \E resp \in Responses : Ask(resp)
    \/ SaveResult
    \/ SkipRound4
    \/ RejectRound4
    \/ StartRound4
    \/ FailPreflight
    \/ \E how \in {"pass", "fail", "timeout", "error"} : Attempt(how)
    \/ OpenRunJson
    \/ DumpRunJson
    \/ SaveSummary
    \/ RejectCollect
    \/ OpenReport
    \/ WriteReport
    \/ Finish

Next ==
    \/ \E c \in Configs, cmd \in {"run", "dry-run"} : Invoke(c, cmd)
    \/ \E c \in Configs : Refuse(c)
    \/ InvokeReport
    \/ Step
    \/ \E how \in {"killed", "interrupted"} : Kill(how)

Spec == Init /\ [][Next]_vars

(***************************************************************************)
(* Fairness.  A running process keeps running; an operator whose run is    *)
(* not running starts the real command again and again (the weakest        *)
(* reading of "resume until it is done").  Faults are bounded by MaxFaults,*)
(* so from some point on no call fails and nobody kills the process.       *)
(***************************************************************************)
Resume == \E c \in Configs : Invoke(c, "run")

FairSpec == Spec /\ WF_vars(Step) /\ SF_vars(Resume)

-----------------------------------------------------------------------------
(***************************************************************************)
(* Properties.                                                             *)
(***************************************************************************)

Payload == [score : Nat, total : Nat, planned : Nat, incomplete : Nat,
            infrastructure_errors : Nat, results : Seq(Row(Items))]

Grade == [task : Tasks, attempt : Attempts, attempt_pass : BOOLEAN,
          model_timed_out : BOOLEAN]

Error == [task : Tasks, attempt : Attempts, error : {"timeout", "error"}]

Payload4 == [tasks : Seq(Tasks), attempts : Attempts,
             grades : Seq(Grade), errors : Seq(Error)]

\* A file that does not exist is no payload.
ASSUME FileAssumption == Missing \notin Payload

\* Every variable has its type: in particular no file other than run.json and
\* REPORT.md, the two written in place, is ever found torn.
TypeOK ==
    /\ snapshot \in Configs \cup {Missing}
    /\ result \in [Units -> Payload \cup {Missing}]
    /\ graded \subseteq Keys \X Tasks \X Attempts
    /\ run4 \in [Keys -> Payload4 \cup {Missing, Torn}]
    /\ pc \in {"idle", "unit", "ask", "round4", "attempt", "run.json", "dump",
               "collect", "open report", "write report", "finish"}
    /\ command \in {"run", "dry-run", "report"}
    /\ cfg \in Configs
    /\ mi \in Nat /\ ri \in Nat /\ at \in Nat
    /\ rows \in Seq(Row(Items))
    /\ r4 \in [grades : Seq(Grade), errors : Seq(Error)]
    /\ dashboard \in [completed : Nat, skipped : Nat, tally : [Statuses -> Nat]]
    /\ outcome \in {"none", "running", "refused", "stopped", "success", "killed",
                    "interrupted"}
    /\ faults \in 0..MaxFaults

ModelOf(c, m) == c.models[CHOOSE i \in 1..Len(c.models) : c.models[i].key = m]

Ids(rs) == [i \in 1..Len(rs) |-> rs[i].id]

\* A saved result.json belongs to a unit of the saved configuration and has one
\* row for each selected question, in order: a killed attempt leaves no partial
\* file, a resumed one no mixture, and a second configuration nothing at all.
ResultsComplete ==
    \A u \in Units : result[u] # Missing =>
        /\ snapshot # Missing
        /\ u \in PlannedUnits(snapshot)
        /\ Ids(result[u].results) = Questions(ModelOf(snapshot, u[1]), u[2])

\* Resume never runs a finished unit again: once a result.json or a run.json has
\* no retryable item, no later step, process or kill changes it.
FinishedNeverRewritten ==
    [][/\ \A u \in Units : Finished(result[u]) => result'[u] = result[u]
       /\ \A m \in Keys : Finished4(run4[m]) => run4'[m] = run4[m]]_vars

\* From its start to its end a dry run leaves the evidence and the reports of the
\* directory alone.  The one thing it may write is config.json, where there was
\* none: later commands are then bound to the configuration of the dry run.
DryRunInert ==
    [][command' = "dry-run" =>
         /\ UNCHANGED <<result, graded, run4, summary, markdown>>
         /\ snapshot' # snapshot => pc = "idle" /\ snapshot = Missing /\ snapshot' = cfg']_vars

\* Rows of status s in the evidence of configuration c.
EvidenceCount(c, s) ==
    SumFunction([u \in PlannedUnits(c) |-> result_counts(result[u])[s]])
    + SumFunction([m \in Round4Keys(c) |->
          CASE s = "PASS" -> CountRows(run4[m].grades, LAMBDA g : g.attempt_pass)
            [] s = "FAIL" -> CountRows(run4[m].grades, LAMBDA g : ~g.attempt_pass)
            [] s = "INVALID" -> Len(run4[m].errors)
            [] OTHER -> 0])

CutAnswer(row) == row.status = NoStatus /\ row.limited

CutInRound3 ==
    \E u \in Units : result[u] # Missing /\ \E row \in Range(result[u].results) : CutAnswer(row)

\* The progress bar never runs past its end, and a campaign or a dry run that
\* ends well leaves it exactly full, whatever part of it was resumed.  With
\* nothing resumed the PASS/FAIL/... counters on screen are then the statuses
\* that report, inspection and replay later read from the saved rows, with one
\* exception: an output-limited answer of round 3.
ProgressIsExact ==
    /\ dashboard.completed <= CampaignUnits(cfg)
    /\ outcome = "success" /\ command # "report"
         => dashboard.completed = CampaignUnits(cfg)
    /\ outcome = "success" /\ command = "run" /\ dashboard.skipped = 0 /\ ~CutInRound3
         => \A s \in Statuses : dashboard.tally[s] = EvidenceCount(cfg, s)

\* When a campaign or a report command ends well, summary.json and REPORT.md
\* show the evidence that is in the directory at that moment.
ReportIsCurrent ==
    outcome = "success" /\ command # "dry-run" =>
        /\ summary = collect(result, run4, ConfigKeys(cfg))
        /\ markdown = summary

\* A correct answer of round 3 that was cut at the output limit: it is in the
\* saved score, and every reader calls its row INCOMPLETE.
CutButCorrect(m) ==
    \E a \in SavedAttempts(result, m, 3) :
        \E row \in Range(result[<<m, 3, a>>].results) : CutAnswer(row) /\ row.correct = "yes"

\* Whatever was killed, resumed or retried before, the evidence of a directory
\* with a summary can be exported: the metrics the report shows are the counts of
\* the item outcomes, which validate_public_result insists on, and they account
\* for every selected question and task, those of round 4 that are not INVALID
\* with a grade.json.  The exception is a round 3 with a correct answer that was
\* cut.
ExportValidates ==
    pc = "idle" /\ summary # Missing /\ Collectable(run4, ConfigKeys(snapshot)) =>
      \A m \in ConfigKeys(snapshot) :
        /\ \A r \in 1..3 : (r = 3 /\ CutButCorrect(m)) \/
             /\ PublicRoundValidates(result, m, r)
             /\ \A a \in SavedAttempts(result, m, r) :
                  {x.item : x \in {y \in PublicItems(result, m, r) : y.attempt = a}}
                    = Range(Questions(ModelOf(snapshot, m), r))
        /\ run4[m] # Missing =>
             /\ PublicRound4Validates(run4[m])
             /\ {<<x.item, x.attempt>> : x \in PublicItems4(run4[m])}
                  = Range(Round4Tasks(snapshot, ModelOf(snapshot, m)))
                      \X (1..snapshot.repetitions)
             /\ {<<m, x.item, x.attempt>> :
                   x \in {y \in PublicItems4(run4[m]) : y.status # "INVALID"}} \subseteq graded

\* Replay and resume agree: whatever resume would run again, replay selects an
\* item of (inspection.inspect_run and _execute decide this from different data).
RetryableIsReplayed ==
    /\ \A u \in Units : result[u] # Missing /\ ~Finished(result[u]) =>
         \E x \in ReplayItems(result, [m \in Keys |-> Missing], Keys, FALSE) :
            x[1] = u[1] /\ x[2] = u[2]
    /\ \A m \in Keys : run4[m] \notin {Missing, Torn} /\ ~Finished4(run4[m]) =>
         \E x \in ReplayItems([u \in Units |-> Missing],
                              [k \in Keys |-> IF k = m THEN run4[m] ELSE Missing],
                              Keys, FALSE) : x[1] = m /\ x[2] = 4

\* The campaign has nothing left to do: every planned file is there and no row
\* is INVALID, and in rounds 1 and 2 none is INCOMPLETE.
Complete ==
    /\ snapshot # Missing
    /\ \A u \in PlannedUnits(snapshot) :
         /\ result[u] # Missing
         /\ \A row \in Range(result[u].results) :
              item_status(row) \notin (IF u[2] = 3 THEN {"INVALID"}
                                       ELSE {"INVALID", "INCOMPLETE"})
    /\ \A m \in Round4Keys(snapshot) : run4[m] \notin {Missing, Torn} /\ run4[m].errors = <<>>

\* Once the faults are over, an operator who keeps resuming ends with a complete
\* campaign, and its report is written.
EventuallyComplete == <>[]Complete /\ []<>(outcome = "success" /\ command = "run")

=============================================================================
