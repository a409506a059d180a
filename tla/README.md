# TLA+ models of llm-hardtest-report

`llm-hardtest` runs benchmark campaigns against language models and coding agents,
keeps the evidence in a run directory, and derives reports, replays, pilots, public
bundles and statistics from that directory. This project models the parts whose
correctness is hard to test: what is on disk when a process dies and what a second
process does with it, what happens while an agent and its supervisor race, and
whether the many computations that are written twice (resume and replay, exporter and
validator, JSON and SQL, gates and plans) say the same of the same evidence.

## The system

| Part | State it keeps | Operations | Talks to |
|---|---|---|---|
| campaign orchestrator (`orchestrator.py`) | `config.json` of the run directory; loop indices | `run`, `_execute`, resume, dry run | the round runners, the dashboard, the report |
| rounds 1 and 2 (`round12.py`), round 3 (`round3.py`) | `attempt-N/result.json`; the list of rows in memory | ask each question, grade, save | a model server through `backend.complete` |
| round 4 (`round4.py`, `rounds/round4/v4_runner.py`, `round4_agents.py`) | attempt and state directories, transcripts, `agent_meta.json`, `repo_after`, `grade.json`, `run.json` | preflight, `run_attempt` for each task and attempt, `regrade`, exit code | agent command lines, isolation, the grader |
| isolation (`isolation.py`) | a sandbox profile and a canary for each attempt | `preflight`, `audit` | the host |
| grader (`v4_grade.py`, `v4_hidden_report.py`) | baseline cache, `task.json` and `harness_spec.json` | `grade_attempt`, `measure_baseline`, `refresh_spec`, `aggregate` | public and hidden test suites |
| result normalisation (`results.py`) | none | `item_status`, `result_counts` | every reader of a `result.json` |
| report (`report.py`) | `summary.json`, `REPORT.md` | `collect`, `generate` | the evidence of all rounds |
| inspection and replay (`inspection.py`, `replay.py`) | none | list unresolved items, build a focused configuration | the evidence |
| progress display (`progress.py`) | counters, a refresh thread | `record`, `skip`, `complete_plan`, `finish` | called by the runners |
| agent backend (`backends.py`, `protocol.py`) | one agent process, a transcript that grows, the scan position and carry | `agent_turn`, `_new_protocol_calls`, `_stop_process` | the `codex` process and the operating system |
| round 5 pilot (`round5.py`) | attempt directories, `pilot_summary.json`, `PILOT_REPORT.md` | `run_pilot`, `run_attempt`, the grade | `agent_turn`, the scenario's fingerprint |
| pilot analyzer (`pilot_analysis.py`) | none | validate pilot directories, compare configurations, plan further collection | pilot directories |
| calibration (`calibration.py`), panels (`panel_config.py`) | a generated configuration | `analyze_runs`, `write_panel_config` | run directories, the orchestrator |
| public results (`public_results.py`), public pilots (`public_pilots.py`) | a bundle file | export, validate | run directories |
| community (`community_results.py`, `community_database.py`) | `results/submissions`, `INDEX.md`, an SQLite file | aggregate, recommend, index, build and check the database | bundles |
| catalog and plan (`serving_catalog.py`, `collection_plan.py`) | none | `build_catalog`, `build_collection_plan` | aggregate rows |
| comparison and readiness (`paired_comparison.py`, `prediction_readiness.py`) | none | test pairs of configurations, audit the evidence | bundle observations |
| submission (`github_submit.py`) | forks, branches, pull requests on GitHub | `open_submission_pr` | GitHub |
| files (`common.py`), packs (`packs.py`), command line (`cli.py`) | temporary files | `save_json`, `load_json`, fingerprints, dispatch | all of the above |

What is hard here: a process may be killed between any two file operations and is
then started again, perhaps with other arguments or another release; some files are
written in place; an agent may fail, hang, time out, change its session or be stopped
half-way through a conversation; the supervisor of an agent looks at a file that is
still being written; caches and copies go stale; remote requests are lost; and several
readers decide from different fields of the same evidence what is finished, eligible
or missing. `PROJECT.json` lists these hazards at their lines.

## Modules

| Module | Models | Kind |
|---|---|---|
| `Results` | rows, payloads, statuses and counts of `round12.py`, `round3.py`, `results.py` | operators |
| `Report` | `report.collect`, `inspect_run`, `make_replay_config`, the public export of a campaign and its validator, as functions of the evidence | operators |
| `Campaign` | `orchestrator.run`/`_execute` with the runners it calls, the dashboard's counters, the report, the operator and kills | state machine |
| `Turn` | the record that one agent turn returns | operators |
| `AgentTurn` | `CodexBackend.agent_turn`: agent, transcript, poll loop, deadline, circuit breaker, signals | state machine |
| `Pilot` | `run_pilot`, `run_attempt`, the grade, the analyzer's validation, the public row, release upgrades and kills | state machine |
| `AttemptLedger` | what a reader of `run.json` relies on | abstract specification |
| `Isolation` | the sandbox, its canary, the agents' preflights, the configuration that selects them | operators |
| `Round4` | `round4.run`, `v4_runner.main`, `run_attempt`, `regrade`, the three wrappers | state machine, implements `AttemptLedger` |
| `Grading` | the decisions of `v4_grade.py` on one submission, `aggregate` | operators |
| `Grader` | tasks, specs, baselines, the gate in front of a graded attempt | state machine over `Grading` |
| `Community` | bundles, their validation, aggregates, relational rows and loader, diagnostics | operators |
| `Serving` | shortlist, catalog, collection plan | operators over `Community` |
| `CommunityStore` | the directory of bundles, `INDEX.md` and the database under concurrent acceptance and kills | state machine over `Serving` |
| `Submission` | `open_submission_pr` for several accounts against GitHub | state machine |
| `Bootstrap` | resampling distributions and their quantiles | operators |
| `Portfolio` | the cross-pilot analysis over accumulating attempts | state machine over `Bootstrap` |
| `Comparison` | paired comparison and readiness audit over accumulating bundles | state machine over `Bootstrap` |
| `Calibration` | matrix, tables, panel and holdout | operators |
| `Focus` | campaigns, the generated panel configuration and the focused campaign | state machine over `Calibration` |
| `MC*` | constants for TLC (`AgentTurn` and `Submission` need none) | instances |
| `CampaignProofs`, `AgentTurnProofs`, `Round4Proofs`, `GraderProofs` | theorems about the state machine of that name | proofs |
| `PilotProofs` | theorems about `Pilot` and about `Portfolio`, the evidence of accumulated pilots | proofs |
| `CommunityProofs` | theorems about `CommunityStore` | proofs |
| `PublicProofs` | theorems about what the public sees: `Comparison` of published bundles, and `Submission` | proofs |
| `SumTheorems` | lemmas on sums over finite sets (induction, monotonicity, a sum of set sizes is the size of the union), and on the distributions, moments and quantiles of `Bootstrap` | proofs |

How they meet: `AgentTurn` shows that every turn that returns is a member of
`TurnResult` (`ReturnsTurnResult`), and `Pilot` takes its turns from `TurnResult`
(`PilotAssumption`). `Campaign` takes a round-4 attempt as one step that ends as a
grade or an error; `Round4` is that step in full and `ImplementsLedger` is the
contract between them. `Round4` aggregates its grades with `Grading!Aggregate`.
`Focus` and `Calibration` use the rows of `Results`. `Community!validate_public_result`
and `Report`'s export describe the two ends of a bundle.

### Campaign

The run directory is `snapshot` (`config.json`), `result` (a `result.json` for each
model key, round and attempt), `graded` (round-4 attempts with a `grade.json`), `run4`
(`run.json` for each model), `summary` and `markdown` (`REPORT.md`, represented by the
summary it was rendered from). A file that does not exist is `Missing`, one that does
not parse is `Torn`. The process is `pc`, the command, its configuration, the loop
indices and the two lists in memory; a kill (`Kill`) keeps the directory and drops the
process.

A step is the code between two points where a kill leaves different files: one model
call (`Ask`), one `os.replace` (`SaveResult`, `SaveSummary`), one round-4 attempt
(`Attempt`), the truncation of a file opened with mode `"w"` (`OpenRunJson`,
`OpenReport`) and the end of that write (`DumpRunJson`, `WriteReport`). `SkipUnit`,
`StartUnit`, `SkipRound4`, `RejectRound4` and `StartRound4` are the branches of
`_execute`; `Invoke`, `Refuse` and `InvokeReport` are the ways an operator starts a
command. `save_json` is one step because the temporary file it writes first is read by
nobody; two processes over one directory would share its name, which is a listed
hazard about which nothing is claimed.

Answers are abstracted to five responses (right or wrong, cut at the output limit or
not, error). A row keeps the fields that readers look at.

### AgentTurn

The agent appends text, ends a line, writes its last message and exits whenever it
likes; the harness checks the deadline, waits for one poll, scans the new lines and
sends signals. A line is `plain`, `error` (one router error) or `wide` (a router error
followed by more than the 8192 characters that the carry keeps). The deadline is a
number of polls. `SIGTERM` obliges the agent to nothing; `SIGKILL` makes it `dying`, and
the operating system may take longer than the 30 s that `_stop_process` waits.

### Pilot

An attempt directory is `Missing`, `Partial` (made, no `research_grade.json`) or graded
evidence: the grade, the workspace, `changes.patch`, and `made_with`, the fingerprint of
the release that collected it, which the program does not store and the model keeps as
history. `pack` is the fingerprint of each scenario in the installed release and may
change between two commands. A changed file is a record of what `_diff` shows of it: its
place in the order of names, `text`, `binary` or `nothing` (an empty file added or
removed, or a change of line ends only), whether its hunks end without a newline (`open`),
and which names its removed lines read as (`quotes`: the line `-- a/x` is shown as
`--- a/x`). The patch joins these as they are, so a header that follows an open file does
not begin a line (`Swallowed`); `PatchNames` is what the analyzer's pattern finds, and
`TellableChanges` says when that is the set of changed files. The test suites return
any two counts, since the file that prints them belongs to the workspace, or hang: a hung
suite that printed nothing is graded, one that printed something raises (`TestRaises`).

`collect_pilot_attempts` and `_validated_grade` are the analyzer's acceptance test, and
`ValidPublicAttempt` is what `validate_public_pilot_result` demands of a row, so
`SummaryIsAnalyzable` and `SummaryIsExportable` are claims about two programs: what the
runner saves, in any history, the other accepts. Each names what it excepts: changes that
a patch cannot tell and suites that report more passed tests than they have; a completed
attempt with an aborted turn.

### Round4, Isolation, AttemptLedger

One output directory of one model over several commands. An evidence directory is
`<<task, attempt, retry>>`; `Free` is the test of the retry loop in `run_attempt`. One
step is one file operation that a kill can separate from the next: making the state
directory (`PickDirectory`), `agent_meta.json` and preflight (`SaveMetadata`), the
agent's process (`RunTurn`), the judgement of the wrapper (`JudgeTurn`), `repo_after`
(`SaveRepo`), and the two halves of each file written in place. A turn is the set of
facts that the three wrappers judge by: sessions named in the output, timeout, abort,
exit code, error event, content, model mismatch, and whether the secret of the canary
shows. What a host answers to each probe of the isolation is an input (`Hosts`, restricted to
what `validate_config` lets pass when the campaign starts), and
`denied` is what the profile of the running attempt hides. `Left` is all that earlier
attempts may have left on the host: `PriorAttempts` covers attempt directories and agent
state, and the working copies of other tasks and attempts below `_work`, `run.json` and
`harness.log` stay readable, which `BoundaryHolds` says.

`AttemptLedger` says what is promised without any of this: a command settles the
planned attempts in order, each once; `run.json` is everything one command settled or
nothing; regrading changes no outcome. The mapping reads `settled` off the two lists in
memory and `published` off `run.json`. The regrade command is a step pair
(`Regrade`, `DumpRegraded`) that must map to withdrawing and publishing *the same*
outcomes, which is where retry directories matter.

### Grading, Grader

`Grading` has one operator for each decision: `RunPublic`, `RunHidden` and
`VerifyHidden` (nonce, sealed record, names and counts against the spec), `DetectRisky`
over the changed files, `ParseReport`, the four automatic scores in hundredths,
`GradeAttempt` with its flags, and `Aggregate` with pass@k. A changed file is a record
of what the patterns tell apart (place, kind of change, text or not, kinds of removed
lines, labels of added lines, and which of them the scan of the diff passes over: `Seen`
leaves out a line that begins with `++` and one that is glued to a removed last line).
`Grader` adds what changes over time: `Reauthor`,
`RefreshSpec`, `MeasureBaseline` with their writes in place, and `Grade` behind the gate
of `v4_runner.main`.

### Community, Serving, CommunityStore

Hashes are modelled by what is hashed: an ID equals another exactly when what it
identifies does. `aggregate_submissions` and `aggregate_database` are written from the
two source files separately, as are `bundle_observations` and
`paired_database_observations`; `load_database` recomputes every identity
(`RelationalSemantics`). Round-4 task rows are part of it (`TaskObservations`,
`ValidTaskRow`), with the attempts and tokens that the public validator takes and the
loader does not: zero attempts and fractions (`TasksAreNumbered`). Bundles of schema 1 lack serving environment and
scaffold, and each side completes them on its own. `CommunityStore` accepts bundles at
any time, also while `results build` or `results database` run or are killed.
`DeclarationsExport` relates the two validations of a declared serving environment:
what `validate_config` admits is exported, and what is exported is valid. The queries of
an instance are those the commands accept (`QueriesAreValid`).

### Submission

Each request of `open_submission_pr` is a step; a request may fail before or after it
took effect (`Fail` and the lost answer are both in the model), the process may be
killed, GitHub finishes a fork when it likes, owners merge pull requests and accounts
delete branches. GitHub is external: a reference is created only if it does not exist,
and a file only if its branch does not hold it. Contributors do not commit to the
default branch of their fork (`merge-upstream` then fast-forwards).

### Portfolio, Comparison, Calibration, Focus

The analyses are functions of evidence that accumulates. Where the code takes
thousands of resamples from a seeded generator, `Bootstrap` has the distribution they
are drawn from (`Portfolio`, `Comparison`), or the outcome of the draw is chosen when the
evidence changes and kept until it changes again (`Focus`: `draws`). What `Bootstrap`
leaves out is what a finite sample adds: luck when a quantile is close to a boundary, and
the order of the draws. `Portfolio` therefore says nothing about exchanging the sides of a
pair, for which the code draws the attempts in another order. Quantiles are nearest ranks
as in `calibration._percentile` (`Lower` and `Upper` treat a weight of exactly the tail
differently, as the code does with the 100th and the 3900th of 4000 draws); the pilots'
own `_percentile` interpolates between two neighbouring draws. The sign-flip test tries
all signs of up to `ExactPairs` pairs (16 in the code) and draws them for more: the number
of draws that come out extreme is then an input (`Sampled`), of which nothing is assumed
but its range. Rates are integers in millionths or thousandths. `Portfolio` keeps one
outcome axis that is always observed and one that may be missing; distances and means
are divided by the number of attempts, which is exact for up to three attempts a side and
rounds down beyond (`Over` does the same to a whole distribution, towards zero from both
sides). `Comparison` keeps
one round; `Focus` keeps rounds 2 and 4, whose items are named differently and
translated by `_runtime_item`.

## Runs

| Run | Instance | Shows |
|---|---|---|
| `campaign_safety` | 2 models, 4 configurations, 5 questions, 2 tasks, 2 repetitions, 2 faults, torn writes | results complete or absent, finished evidence never rewritten; progress, report, export and replay agree with the evidence |
| `campaign_liveness` | the two round-4 configurations, 2 faults, no torn write | an operator who keeps resuming ends with a complete campaign and a report |
| `agent_turn` | 5 lines, 4 polls | exact scan, consistent result, and the turn returns |
| `pilot_attempt` | 1 attempt, 9 kinds of turn, 6 sets of changes (3 that a patch can tell, 3 that it cannot), 4 test results, 2 faults | write authority is earned; the analyzer accepts what can be told; the public validator accepts the row |
| `pilot_resume` | 2 configurations, 2 models, 2 scenarios, 2 attempts, 1 kill, 1 upgrade | evidence is never mixed or overwritten; the summary covers the request and the analyzer accepts it |
| `grading` | 2 tasks (two public modes; gated), each authored once more with one more public test and the first also with a renamed hidden one, 1 kill, 10 hidden runs x 14 diffs and 4 hidden runs x 3 reports x 4 public results | baselines and specs are current when used; verdicts are earned and consistent |
| `round4` | 1 task with 2 messages, 2 attempts, 3 wrappers, with and without isolation, 9 hosts, 5 kinds of turn, 2 commands, 2 faults | no mixed evidence, whole conversations, closed boundary, exact rates, refinement of the ledger |
| `community` | 6 kinds of bundle (ties, duplicates, contradictions, schema 1, round 4, a task row with attempt 0), up to 5 bundles, 3 queries | JSON and SQL agree; plan, catalog and recommender agree; the shortlist covers |
| `submission` | the owner and a contributor, 2 bundles, 1 fault | a pull request is one file; retrying a fork that was not ready leads somewhere |
| `portfolio` | 2 configurations, 2 scenarios, 2 revisions, 2 directories, 2 attempts in each cell, 1 attempt that a gate refuses | gates, verdicts, attribution and plan agree |
| `comparison` | 7 kinds of bundle, up to 7 bundles, 4 queries | a direction is beyond its floor; the exact test keeps the announced resolution; readiness counts what is tested |
| `focus` | 7 kinds of campaign, 2 collected and 1 focused, 5 attempts each, 3 draws, 3 options | tables agree, the holdout is sound, focused evidence pools |

Every property has a mutant in `PROJECT.json`: a plausible bug in one definition (the
operators named after a definition, or `Mutant...`) under which TLC finds the property
violated.

Bounds. Two configurations with one model each would not show a failure of one model
that stops the next; two models and two repetitions let every loop turn over, and one
configuration runs the rounds out of order and with filters, as replays do. Two faults
are the smallest number with a fault during the recovery from a fault; two commands in
`round4` are the smallest number with a retry directory. Five lines are two more than
the threshold of three, and four polls let a scan fall before, between and after them.
Five bundles are the number that the serving gates ask for; six nonzero pairs are the
first that can reach the 0.05 level of the exact test, so `comparison` tries all signs of
up to six pairs (`ExactPairs`) and draws those of seven: a decisive exact test and the other branch
both occur, the second with no extreme draw, with some and with nothing else.
Five attempts are `MIN_CONFIGURATION_RESPONDENTS`, and two campaigns of five give the
ten units with which both folds of the holdout are complete. `portfolio` has
`MIN_SHARED_SCENARIOS` as a parameter and sets it to one of two scenarios. The named bounds
are `MaxFaults`, `MaxLines`, `Polls`, `MaxAttempts`, `MaxPack`, `MaxRepetitions`,
`MaxRuns`, `MaxRelease`, `MaxKills`, `MaxBundles`, `ExactPairs`, `MaxVersion`, `MaxPerCell`,
`MaxRefused` and `MaxCollected`. Deadlock is not checked in `community`, `comparison` and `focus`, where
evidence only accumulates up to the bound.

Fairness. `Campaign!FairSpec` asks that a running process takes its next step (weak
fairness of `Step`) and that an operator who can start the command again and again does
so (strong fairness of `Resume`, since dry runs and reports may occupy the directory in
between). Faults are bounded, so from some point on nothing fails: this is the premise
of "resume until it is done". `AgentTurn!FairSpec` asks that the harness is scheduled
and that time passes; nothing is asked of the agent, not even that a killed process
dies. `Submission!FairSpec` asks that a started command goes on, that GitHub finishes a
fork it was asked for, and that an account told to retry the same command does so
whenever it repeatedly can (strong fairness of `Retried`, since the same account may run
the command for another bundle in between).

## What the code does that its documents do not say

Each of these was found while a definition was translated; the properties name them as
exceptions where they matter.

* `run.json` is opened with mode `"w"` and read with `load_json` at the start of every
  later run (`v4_runner.py:709`, `orchestrator.py:353`). A kill in between blocks resume
  and report for good, while `docs/REPOSITORY_GUIDE.md:27` says that result JSON "is
  written atomically". `EventuallyComplete` is therefore stated for runs without a torn
  write.
* `round3.run` grades an answer that was cut at the output limit (`round3.py:138`) and
  readers call the row `INCOMPLETE`: a report may show more passed than total
  (`docs/SCORING.md:48`), resume does not retry the item (`orchestrator.py:323` looks for
  an `incomplete` count that round 3 does not write), and the export of that round is
  refused.
* One error in round 4 makes the next resume run all attempts of that model again,
  graded ones included (`v4_runner.py:668`; `README.md:30`).
* Router errors written after the last poll are not seen by the circuit breaker when the
  process exits (`backends.py:371`; `docs/ROUND5_PILOT.md:124`).
* A turn that the breaker ended with exit code 0 does not stop the attempt
  (`round5.py:388`; `docs/ROUND5_PILOT.md:124`); the public validator then refuses the
  row of the completed attempt, the exception in `SummaryIsExportable`.
* Grades saved before the first summary are not tied to a fingerprint, so a resume after
  a release upgrade labels them with the new one (`round5.py:474`;
  `docs/ROUND5_PILOT.md:158`).
* The timeout branch of `_test` adds bytes to text and raises for any hung suite that
  printed something (`round5.py:210`).
* A change is listed in a grade and not in its patch, or the other way round, when the
  patch shows nothing of it, when the file before it has no final newline and swallows its
  header, or when a removed line reads like a header; the analyzer then rejects
  genuine evidence (`round5.py:189`, `pilot_analysis.py:89`), an exception in
  `SummaryIsAnalyzable`. The other is a suite that reports more passed tests than it has
  (`pilot_analysis.py:80`).
* An isolated agent can read the working copies of other attempts and models below
  `_work`, `run.json` and `harness.log` (`round4.py:74`, `v4_runner.py:456`), the exceptions
  in `BoundaryHolds`.
* A valid public bundle whose task rows have attempt 0, or attempts or tokens with a
  fraction, makes every build of the database raise (`public_results.py:526`,
  `community_database.py:578`), the exception in `DatabaseAgrees`.
* With more than 16 pairs a p value may be smaller than the floor announced for the exact
  test (`paired_comparison.py:113`), so `ResolutionIsHonest` is about that test.
* A round-4 attempt that times out is an infrastructure error and not part of the
  `attempts` column (`round4_agents.py:139`, `report.py:80`;
  `docs/GETTING_STARTED.md:70`), and pass@k then counts the next graded attempt in its
  place, the exception in `RatesAreExact`.
* Two models of one valid bundle with the same identity and different outcomes make
  `results build` raise for the whole directory (`community_results.py:583`), while
  `docs/COMMUNITY_DATABASE.md:41` says that "duplicate configuration rows remain auditable
  observations" and `README.md:285` speaks of duplicate model rows in one contribution.
* A protected test that is no longer UTF-8 has an empty diff and counts as extended, and
  a removed line that holds only a string or a part of one counts as documentation; lines
  after a removed one that begins with `--` are taken for their neighbours, and an added
  line that begins with `++` or is glued to a removed last line is not scanned
  (`v4_grade.py:1012`, `v4_grade.py:1048`): the exceptions in `PassIsEarned`. `unescalated_conflict` is added
  to the findings after the penalty was computed; the `parse_error` branch of
  `verify_hidden_result` cannot be reached.
* The codex wrapper does not compare the session of a continuation; `regrade` ends with
  code 0 when the file it rewrote has errors.
* `validate_config` admits port 0 for an isolated endpoint and the constructor of the
  isolation refuses it (`orchestrator.py:234`, `isolation.py:72`).
* `panel_config.py:99` compares identities without the isolation of the campaign while
  `calibration.py:133` includes it: a model that ran in isolation gets no items, the
  exception in `FocusedRunsPool`.
* The gate of `v4_runner` accepts a spec of an earlier release whose hidden tests have the
  same names while the public suite has grown, so an attempt may pass with fewer public
  tests than the current release ships (`v4_runner.py:657`); `PassIsEarned` names the spec.
* The interval of a rate takes the root of a negative difference when a bundle reports
  more passed than total (`community_results.py:58`); the validator compares the two only
  through item outcomes, so not for round 4 and not in schema 1. The exporter never writes
  such a bundle (`BodiesAreCounted`).
* A submission that fails after its branch was created cannot be retried until the
  branch is deleted; `INDEX.md` is written in place, and `results build --check` fails
  on a submission until the index is rebuilt.
* In the pilot plan, `REPEAT_UNOBSERVED_AXES` is not satisfied by appending repeats, a
  plan may be `READY` while an axis is unobserved, and the two attempts of a fresh cohort
  are not a minimum when leaving out one directory keeps two complete attempts elsewhere
  (`pilot_analysis.py:804`).
* Five shared bundles admit a paired test but can give no direction: with five nonzero
  pairs the exact p value is 0.0625 at best. The readiness audit's model profile ignores
  the execution scaffold, which the comparison treats as part of a configuration.

## Proofs

Every theorem holds for all values of the constants that satisfy the assumptions of its
module; TLC evaluates the assumptions for the instances of the runs. Each proof has the
same shape: an inductive invariant, a lemma that each action preserves it, and lemmas
that read the property off it. Where a property counts, the induction runs over finite
sets (`SumTheorems!SubsetInduction`, which follows from a least counterexample in `Nat`).

`CampaignProofs` works for every set of configurations, question bank, task list, number
of repetitions and number of faults that satisfy `ConfigAssumption` (configurations are
typed and pass `validate_config`, including its checks of filters in `ValidFilters`; the
ids of a pack's questions and the names of the tasks are distinct), `PlanAssumption`
(what `SelectSeq` leaves of the lists it filters), `SentinelAssumption` and
`FileAssumption` (`Missing` and `Torn` differ from data):

* `Typing`: `TypeOK` and `LoopInv`. Types alone are not inductive: the indices must be
  inside the lists they index when `pc` says that they are used, so `LoopInv` describes the
  loops and is part of the theorem (`TypeInvariant`, `WorkInvariant`).
* `SavedResultsComplete`: `ResultsComplete`. The inductive part is that, while questions
  are being asked, the rows in memory are a prefix of the selected questions and the
  process works on the saved configuration.
* `NoRewrite`: `FinishedNeverRewritten`, from the fact that a process that asks questions
  or runs attempts has found its file unfinished and nobody else writes.
* `DryRunIsInert`: `DryRunInert`. Its first part is the step that starts a dry run, which
  may write a `config.json` that was not there and changes nothing else; the second is
  every later step of that run.
* `ReportCurrent`: `ReportIsCurrent`; between `collect` and the end nothing changes the
  evidence, and the Markdown file is the last to be written.
* `ReplayCoversResume`: `RetryableIsReplayed`. Resume decides by the counters of a
  payload and replay by its rows, so the invariant `RetryInv` says that the counters are
  those of the rows and that each row could have come from one question.
* `ExportAlwaysValidates`: `ExportValidates`, whose parts are: the exporter publishes
  one item for each selected question (`RoundExports`, on `RetryInv` and
  `SavedResultsComplete`); `run.json` holds each planned attempt of round 4 once, as a
  grade or as an error (`Run4Inv`: while the loop runs, what is collected is exactly the
  attempts before the current one); the published totals are sizes of sets of items
  (`PublicCounts`, through `SigmaOfSizes`), which is what the validator recomputes.
* `ProgressStaysExact`: `ProgressIsExact`. The plan is a finite set `Work` of units with
  `CampaignUnits` elements (`PlanSize`), and the place of the process determines the set
  `Done` of those that the loops have passed; each way a unit is passed (asked, attempted,
  skipped with its file, skipped with its `run.json`) has a lemma that adds it to `Done`.
  `BarInv` says that `completed` is the size of `Done` in a run and at most that in a dry
  run, hence at most the size of the plan. That a skipped file is worth as many units as
  the plan gives it rests on `ResultsInv`, `RetryInv` and `Run4Inv`. `TallyInv` says that,
  as long as nothing was skipped, the counters on screen are those of the rows of the
  files passed plus those of the rows in memory (sums over finite sets: `UnitTotal`,
  `KeyTotal`); `ShownAsRead` is the fact that makes these the counts of a later reader,
  and the place where the cut answers of round 3 have to be excepted.

`AgentTurnProofs` works for every deadline and every number of lines:

* `ExactScan`: `ScanIsExact`. The inductive part (`ScanInv`) adds that a line whose start
  the carry has dropped is a long one and is the next line to be completed; the step of
  the scan is a fact about cardinalities (`ScanCounts`): what is counted before and what
  is counted now are disjoint and together lie between the errors that fit in the carry
  and all errors of the complete lines.
* `ReturnsResult`: `ReturnsTurnResult`, with `VerdictInv`: a verdict is given once, on
  leaving the poll loop. This is the assumption `Turns \subseteq TurnResult` under which
  `PilotProofs` works, so the two sets of theorems compose.
* `TypeCorrect`: `TypeOK`, of which `now \in 0..Polls` says that no poll starts after the
  deadline.

`PilotProofs` works for all models, scenarios, attempts, turns, edits, test results and
faults that satisfy `PilotAssumption` (types, names of changed files that differ, and no model is
configured twice; a suite may report any counts), `ChosenAssumption` (the chosen models are distinct models of the
configuration, a fact about `SelectSeq`) and `SentinelAssumption`. The inductive
invariant is `PilotInv`, a conjunction of parts that later ones build on:

* `LoopInv`, `PackInv`: while a process is in the loops the current model and attempt
  exist, the fingerprints are in range, and the process works under the fingerprint and
  scenario that any saved summary of its directory has.
* `DirsInv`: abandoned directories are partial; the directory a process is working in is
  partial and not abandoned. Gives `AbandonedDirectories` (`AbandonedStaysPartial`) and
  `FinalGrades` (`GradesAreFinal`): a grade is only written where there is none.
* `TurnsInv`: while turns go on, all of them were good, in one session and over an
  unchanged workspace; when they are over, either all three were good or a turn or an
  early edit says why not. Gives `ApprovalEarned` (`ApprovalIsEarned`).
* `EvidenceInv`: graded evidence is of the scenario and attempt its directory is named
  after, passes `_validated_grade` if its scores are valid, and its patch is the visible
  part of its changes.
  Gives `ExplainedGrades` (`GradeIsExplained`).
* `RowsInv`: the rows in memory are distinct, agree with the disk, and are exactly those
  of the attempts before the current one in the order of the two loops. Distinctness of
  the models is what makes a new row new.
* `SummaryInv`: the saved summary lists what is on disk, under the configuration in
  `config.json`, and has the identity of the running process. Gives `IdentityKept`
  (`SummaryKeepsIdentity`: neither the identity changes nor is a new grade made under
  another one; lemma `NewGrades`), `Analyzable` (`SummaryIsAnalyzable`, with a lemma that a
  patch of changes that can be told names exactly them), `RowsExportable`
  (`SummaryIsExportable`) and `RequestCovered` (`SuccessCoversRequest`).

`TypeCorrect` proves `TypeOK` from `PilotInv`.

`Round4Proofs` works for every list of tasks without repetition, every number of
attempts, messages, commands and faults, and all agents, hosts and turns that satisfy
`PlanAssumption`, `AgentAssumption` and `SentinelAssumption`. Its invariant `IInv` is a
conjunction in the order in which the parts are proved:

* `TypeOK`; `InPlan`: the loop index names an attempt of the plan; `Progress`: which files
  of the current directory exist at each `pc`.
* `Untaken`, `TakenInOrder`: directories that no retry has reached are empty, and retry
  *r* is taken only after *r - 1*. With `OneWriter` (all files of a directory carry the
  number of one command) they give `OneRunPerDirectory` (`EvidenceOfOneRun`).
* `Conversation`: the turns on disk answer a prefix of the prompts, in one session where
  the agent names it. `WholeGrades` carries this to graded directories and gives
  `GradesAreWhole` (`GradeIsWhole`).
* `InSight`, `Probed`: what is hidden from the running attempt, and that its boundary was
  probed on the host it runs on; what of `Left` remains in sight is of the two kinds that
  the property excepts. Gives `BoundaryAlwaysHolds` (`BoundaryHolds`).
* `MemorySettles`, `FileSettles`: the two lists in memory, and `run.json`, settle each
  attempt of a prefix of the plan once, and every grade in them is backed by a directory
  on disk that no later step changes (`EvidenceKept`). Gives `PublishedRatesAreExact`
  (`RatesAreExact`).
* `Refinement`: `ImplementsLedger`. `LedgerStep` shows for each action that it is a step
  of `AttemptLedger` under the mapping or leaves its variables alone; `RunAttempt`'s
  endings map to settling one attempt, and `Regrade` withdraws and publishes the same
  outcomes because it reads the directory that `Backed` names.

`GraderProofs` works for all releases and submissions that satisfy `SuiteAssumption` (the
names and counts a spec learns are those of a run over the untouched repository) and
`SubmissionAssumption` (scores are numbers, and what is looked at is finite). `IInv` is
`SpecsAreMade` (every spec on disk, or being written, was made from a release up to
the current one),
`CacheIsSound` (a cached baseline is what the fingerprint it carries measures) and
`GradeIsGated` (a grade was made behind the gate). It gives
`BaselineStaysCurrent` (`BaselineIsCurrent`), `GenuineIsVerified` (`GenuineIsNotForged`),
`PassesAreEarned` (`PassIsEarned`) and `VerdictsAreConsistent` (`VerdictsAgree`). The last
needs the arithmetic of the scores: that the weighted sum stays in its range, that it
is at most the points for form under a forged result, that a result worse than an
untouched repository with failures earns nothing for hidden tests, and that the penalty is the sum
of the severities found (`SeveritySum`, `PenaltyRange`, `HiddenScore`).

`CommunityProofs` works for every set of bundles that the public validator accepts
(`BodiesAreValid`) and whose counts are counts (`BodiesAreCounted`: finite lists, and
passed at most total, which the exporter guarantees and the validator compares only for
some rounds and schemas), and for valid queries (`QueriesAreValid`). `RowsInv` says that the
directory is finite and the rows are its aggregates, `StoreInv` adds what the running
command has loaded and that the database is never half written.

* `ShortlistAlwaysCovers` (`ShortlistCovers`): dominance is transitive and irreflexive on
  rows whose numbers are real (`RowIsReal`), so above each dominated row there is an
  undominated one (`Undominated`, a greatest element of a finite set). That the numbers
  are real needs the existence of the root in the Wilson interval (`Root`) and that a
  percentile of a nonempty list is one of its values.
* `ReadinessIsOne` (`ReadyIsEligible`): the plan's search for the smallest number of
  additional bundles returns zero exactly when the row is eligible.
* `PlanNeverOvercounts` (`PlanIsLowerBound`, an action property): accepting a bundle
  enlarges one group by one run (`RowsGrow`, `CountsGrow`), and a need falls by at most
  one and never rises (`NeedFalls`).
* `DatabaseAlwaysAgrees` (`DatabaseAgrees`): what is stored of bundles whose task
  rows are numbered from one in integers passes the loader, and of others does not
  (`LoaderAccepts`, table by table), the aggregates over relational rows are those over
  the JSON documents (`AggregatesAgree`, a bijection between rows and pairs of bundle and
  model, under which every sum is carried), and so are the observations
  (`ObservationsAgree`).

`PublicProofs` works, for `Submission`, for all accounts, bundles and numbers of faults
(`UsersAssumption`, `FaultsAssumption`, `MissingAssumption`). `IInv` adds to `TypeOK` that
a running command has a bundle, that the base of a branch holds accepted bundles only, that
a branch for which a pull request is about to be opened or is open has the file
(`CommandHasBundle`, `BasesAreUpstream`, `FileIsPut`, `PullHasFile`). It gives
`PullAddsOneFile` (`PullIsOneFile`) and `TypeCorrect`.

### The analyses

The analyses are functions of evidence that accumulates, so their invariants are short
and the work is in lemmas about the functions.

`PilotProofs` works, for `Portfolio`, for every finite set of scenarios, every table of
metrics and all bounds that satisfy `PortfolioAssumption`. `EvidenceTyped` (a multiset of
attempts with scores in range, under versions in range) is preserved by every step:

* `PlanAndPairsAgree` (`PlanAgreesWithPairs`). The plan, the pairs and the coverage gains
  are three computations over the same attempts. Each is shown equivalent to one
  statement: the plan by `PlanIsDone` (from what `ReadyState` says of one
  configuration), the pairs by `PairsAreDone`, the gains by `NothingToGain`; the
  statement is that every scenario has one current version with enough complete
  attempts of every configuration. `OverCovers`, `OverIsReviewable` and `FinishedIsJudged`
  then give the gates, the groups and the verdicts.
* `PlanIsNeverOptimistic` (`PlanIsLowerBound`, an action property). The total that the
  plan asks for is a sum over configurations, scenarios and versions (`PlanTotal`, and
  `PlanTotalNext` for the next state); one attempt changes one cell (`OneMoreAttempt`,
  `StepAddsOne`), and the cell asks for at most one less and, if the attempt was
  complete, for no more (`OneMoreInTotal`, `TotalOfStep`).

`PublicProofs` works, for `Comparison`, for all bundles, queries and planning targets
that satisfy `ComparisonAssumption`: what the functions validate themselves (`ValidQuery`,
`ValidThresholds`, and `ValidFloors`: a floor is not negative), what the public validator
admits (`ValidBodies`: finite lists of rows whose counts, seconds and tokens are not
negative), that the draws that come out extreme are at most the draws (`ValidSamples`), and
that `MaxBundles` and `ExactPairs` are numbers. The invariant is `BundlesAreFew`: at most
`MaxBundles` bundles were accepted, which makes `PUNIT` divisible by the number of sign
patterns. `AnswersStayConsistent` (`AnswersAreConsistent`) joins two theorems:

* `EdgesAreTested` (`ReadyEdgesAreTested`): the pairs that the audit calls eligible are
  those that the comparison tests on every objective.
* `ResolutionHolds` (`ResolutionIsHonest`), of the objectives whose signs are all tried. An
  effect of zero may take any sign, and all
  other effects may be flipped together, without the sum becoming less extreme; so the
  extreme patterns are at least two times the patterns of the zeros (`TwiceAsMany`,
  `FloorHolds`, where powers of two count subsets: `PowerStep`, `PowerOfSum`). Holm's
  adjustment of any row is at least the floor of the row ranked first times the whole
  family (`HolmIsAbove`), so when every row is exact and limited none is below the level
  (`AboveIsNotBelow`).

`DirectionsAreEarned` (`DirectionIsEarned`) is a claim about tails: the decision compares
a quantile of resampled sums with the floor, the property speaks of the sum that was
observed. It holds because the interval contains the observed sum for every list of
effects (`IntervalHoldsSum`, `SumTheorems!IntervalHoldsMean`), and that rests on a bound
for the weight of the resampled sums at the observed one or below. `Expect` is the sum
of a function over a distribution with its weights; a sum of two draws is expected draw
by draw (`ExpectPlus`), and a draw of `Choice` index by index (`ExpectChoice`). With n
effects and v the second moment of one draw about the mean (all in units of 1 / n), by
induction on the number of draws the mean stays, the second moment grows linearly and the
fourth at most like three times the square of the second (`ScatterStep`); here the fourth
moment of one draw is at most the square of v, because n effects of weight one are drawn
n times (`ChoiceDrift`). A function of the resampled sum that is negative above the mean
and bounded below it (`TestToTheRight`, `TestToTheLeft`) then has an expectation too large
for a light lower side: it weighs at least a thirty-fourth of everything (`TailOfDraws`),
and so does the upper one, by the mirrored effects (`QuantilesMirrored`, which shows that
the two ranks differ only where a weight is exactly that of a tail). Each tail of the program's intervals
has a fortieth at most.

### Only model-checked

* The liveness properties `EventuallyComplete`, `AlwaysReturns` and `NotReadyIsRetryable`:
  fairness and `ENABLED` are out of the provers' reach.
* `VerdictIsExplained`: its first part is an equation between exact means, and the model's
  distances are exact only up to three attempts a side. Its other parts relate a
  quantile of a distribution to the mean of what it is made of.
* `HoldoutIsSound` concerns folds that both have enough units. With other numbers of
  units and attempts the folds can be less even than in the instance, so it is a
  statement about the protocol's sizes and not about all constants.
* `TablesAgree` compares tables that `Calibration` computes by walking lists row by row:
  what a recursive definition computes for every list is induction over data.
  `FocusedRunsPool` compares identities before and after a walk of the same kind.

## Not modelled

* The HTTP transport, prompts, answer matching, event parsing and command lines of the
  agents: choices between the outcomes that the callers tell apart.
* Credential and text checks of `validate_config`, rules of the public validators on
  text, keys and secrets, argument parsing, printing and every rendering: no state that
  changes over time and no decision that another part relies on.
* `packs.py`: a fingerprint is a value that changes with a release.
* The refresh thread of the dashboard: it draws under a lock and no evidence depends on
  it. Two processes over one directory: the program takes no lock and does not claim to
  support them.
* The standalone codex path of `v4_runner` (`codex_exec`, `extract_session_id`), which
  `round4.run` replaces by a factory.
* The index of pilot bundles (`aggregate_pilot_submissions`), sums over validated rows.
* The benchmark's own material under `rounds/`: tasks, repositories and hidden suites.

## Plan

1. Split `TablesAgree` by table, so that the parts that compare sets of items (and not
   results of walks) become theorems over `Calibration`.
2. Carry the bound of `TailOfDraws` over `Over` and `Mixture`, whose draws are rounded down
   and come from several lists, for the last two parts of `VerdictIsExplained`.
