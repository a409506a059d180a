-------------------------------- MODULE Pilot --------------------------------
(***************************************************************************)
(* The research pilot of round 5: run_pilot over one pilot directory, the  *)
(* three-turn attempt it runs (run_attempt), the grade it saves and the    *)
(* analyzer's validation of what was saved (collect_pilot_attempts).       *)
(*                                                                         *)
(* The operator may run the command again over the same directory, with    *)
(* another configuration, other models, another number of attempts or      *)
(* another pilot, and may install a release with a new scenario            *)
(* fingerprint in between.  The process may be killed at any point.        *)
(***************************************************************************)
EXTENDS Turn, Sequences, FiniteSets, FiniteSetsExt, SequencesExt

CONSTANTS Keys,         \* models of transport codex_cli
          PilotIds,     \* scenarios
          MaxAttempts,  \* bound: the largest --attempts
          PilotConfigs, \* configurations, each a sequence of distinct keys
          Turns,        \* what agent_turn returns: a subset of TurnResult
          Tests,        \* what _test returns
          Edits,        \* the sets of files an agent may have changed
          MaxPack,      \* bound: releases with a new scenario fingerprint
          MaxFaults,    \* bound: kills and agent processes that cannot be killed
          Missing, Partial, Torn

\* A changed file, by what _diff shows of it.  `name` is the place of its path among
\* the sorted ones.  A text change has a header and hunks, a binary one a line of
\* its own, and an empty file that was added or removed, or a change of line ends
\* only, nothing at all.  The hunks are `open` when their last line has no newline;
\* `quotes` are the names that a removed line reads as: "-- a/x" becomes "--- a/x".
Files == {f \in [name : Nat, shows : {"text", "binary", "nothing"}, open : BOOLEAN,
                 quotes : SUBSET Nat] :
            f.shows # "text" => ~f.open /\ f.quotes = {}}

Names(changed) == {f.name : f \in changed}

\* The counts that _test reads in the output of a suite, whatever they are: "PUBLIC:
\* n/m" is printed by a file of the workspace.
TestResult == [passed : Nat, total : Nat, timed_out : BOOLEAN]

ASSUME PilotAssumption ==
    /\ Turns \subseteq TurnResult
    /\ Tests \subseteq TestResult
    /\ Edits \subseteq SUBSET Files
    /\ \A changed \in Edits : \A f, g \in changed : f.name = g.name => f = g
    /\ MaxAttempts \in Nat \ {0} /\ MaxPack \in Nat /\ MaxFaults \in Nat
    /\ MaxErrors \in Nat
    /\ \A c \in PilotConfigs : c \in Seq(Keys) /\ IsInjective(c)

(***************************************************************************)
(* What the files hold.                                                    *)
(***************************************************************************)
Reasons == {"none", "unsupported_tool_loop", "timeout", "agent_exit", "missing_session",
            "empty_output", "preapproval_edit", "incomplete_turns"}

Grade == [pilot_id : PilotIds, attempt : 1..MaxAttempts,
          status : {"COMPLETE", "INCOMPLETE"}, stop_reason : Reasons,
          protocol_aborted : BOOLEAN, turns_completed : 0..3,
          no_edit_before_approval : BOOLEAN, unsupported_tool_calls : Nat,
          public : Tests, hidden : Tests, release_ready : BOOLEAN,
          final_changed_files : SUBSET Nat, turns : Seq(Turns)]

SummaryRow == [model : Keys, grade : Grade]

Summary == [pilot_id : PilotIds, pack : 0..MaxPack, attempts : Seq(SummaryRow)]

\* research_grade.json, the workspace that stays beside it, and changes.patch,
\* which shows a set of changes in the order of their names.
Evidence == [grade : Grade, workspace : Edits \cup {{}}, patch : SUBSET Files,
             made_with : 0..MaxPack]

ASSUME SentinelAssumption ==
    /\ Missing # Partial
    /\ Missing \notin PilotConfigs
    /\ Missing \notin Summary
    /\ Missing \notin Evidence /\ Partial \notin Evidence

\* The attempt directories under a pilot directory.
Dirs == Keys \X PilotIds \X (1..MaxAttempts)

VARIABLES
    \* the pilot directory
    snapshot,   \* config.json
    dirs,       \* attempt directories: Missing, Partial or graded evidence
    summary,    \* pilot_summary.json
    markdown,   \* PILOT_REPORT.md, represented by the summary it renders
    \* the installed release
    pack,       \* the fingerprint of each scenario
    \* the process
    pc, args,   \* args: the chosen models, attempts, pilot and its fingerprint
    mi, at,     \* indices of the two loops
    rows,       \* rows of the summary so far
    turns,      \* the turns of the attempt so far
    work,       \* the changes of the workspace since the task's repository
    early,      \* names of files that differed after turn 1 or turn 2
    outcome,
    \* history
    faults,
    abandoned   \* directories that an earlier process left partial

disk    == <<snapshot, dirs, summary, markdown>>
attempt == <<turns, work, early>>
vars    == <<disk, pack, pc, args, mi, at, rows, attempt, outcome, faults, abandoned>>

Current == <<args.models[mi], args.pilot_id, at>>

(***************************************************************************)
(* The grade.                                                              *)
(***************************************************************************)
TurnOk(t) == t.returncode = 0 /\ ~t.timed_out /\ t.output_valid

AllTurnsOk(ts) == Len(ts) = 3 /\ \A i \in 1..Len(ts) : TurnOk(ts[i])

\* The body of the loop of _attempt_stop_reason.
TurnProblem(t) ==
    IF t.protocol_aborted THEN "unsupported_tool_loop"
    ELSE IF t.timed_out THEN "timeout"
    ELSE IF t.returncode # 0 THEN "agent_exit"
    ELSE IF ~t.session THEN "missing_session"
    ELSE IF ~t.output_valid THEN "empty_output"
    ELSE "none"

_attempt_stop_reason(ts, preapproval_changed) ==
    LET bad == {i \in 1..Len(ts) : TurnProblem(ts[i]) # "none"}
    IN IF AllTurnsOk(ts) THEN "none"
       ELSE IF bad # {} THEN TurnProblem(ts[Min(bad)])
       ELSE IF preapproval_changed THEN "preapproval_edit"
       ELSE "incomplete_turns"

\* The router errors of the turns of an attempt, of which there are at most three.
ErrorsOf(ts, i) == IF i <= Len(ts) THEN ts[i].errors ELSE 0

Errors(ts) == ErrorsOf(ts, 1) + ErrorsOf(ts, 2) + ErrorsOf(ts, 3)

\* The unsupported_tool_calls of a grade.
Counted(ts) == Errors(ts)

Passed(test) == test.total > 0 /\ test.passed = test.total

_research_grade(ts, edits, final, public, hidden) ==
    [pilot_id |-> args.pilot_id, attempt |-> at,
     status |-> IF AllTurnsOk(ts) THEN "COMPLETE" ELSE "INCOMPLETE",
     stop_reason |-> _attempt_stop_reason(ts, edits # {}),
     protocol_aborted |-> \E i \in 1..Len(ts) : ts[i].protocol_aborted,
     turns_completed |-> Len(ts),
     no_edit_before_approval |-> edits = {},
     unsupported_tool_calls |-> Counted(ts),
     public |-> public, hidden |-> hidden,
     release_ready |-> AllTurnsOk(ts) /\ edits = {} /\ Passed(public) /\ Passed(hidden),
     final_changed_files |-> Names(final),
     turns |-> ts]

\* Mutant of _diff: a file that is no UTF-8 text is left out.
_diff_TextOnly(changed) == {f \in changed : f.shows = "text"}

\* changes.patch: the changes that leave a line in it.
_diff(changed) == {f \in changed : f.shows # "nothing"}

\* The lines of a patch are joined as they are, so a header that comes after hunks
\* without a final newline does not begin a line.
Swallowed(f, patch) ==
    \E g \in patch : /\ g.open /\ g.name < f.name
                     /\ ~\E h \in patch : g.name < h.name /\ h.name < f.name

\* The names that _recompute_report_accuracy finds in a patch: those of the headers
\* and of the lines that look like one.
PatchNames(patch) ==
    Names({f \in patch : ~Swallowed(f, patch)}) \cup UNION {f.quotes : f \in patch}

(***************************************************************************)
(* The analyzer's view of one summary: collect_pilot_attempts, with        *)
(* _validated_grade and the comparison of grade and patch.  The transcripts*)
(* it rescans are those whose errors the turns recorded.                   *)
(***************************************************************************)
\* _score; the public validator makes the same test.
ValidScore(x) == x.passed <= x.total

_validated_grade(g) ==
    LET complete == g.turns_completed = 3 /\ \A i \in 1..Len(g.turns) : TurnOk(g.turns[i])
    IN /\ ValidScore(g.public) /\ ValidScore(g.hidden)
       /\ g.turns_completed = Len(g.turns)
       /\ g.unsupported_tool_calls = Errors(g.turns)
       /\ \A i \in 1..Len(g.turns) :
            /\ g.turns[i].protocol_aborted
                 <=> g.turns[i].termination_reason = "unsupported_tool_loop"
            /\ g.turns[i].protocol_aborted
                 => g.turns[i].errors >= MAX_UNSUPPORTED_CALLS_PER_AGENT_TURN
       /\ g.status = "COMPLETE" <=> complete
       /\ g.protocol_aborted <=> \E i \in 1..Len(g.turns) : g.turns[i].protocol_aborted
       /\ g.stop_reason = _attempt_stop_reason(g.turns, ~g.no_edit_before_approval)
       /\ g.release_ready <=> /\ complete /\ g.no_edit_before_approval
                              /\ Passed(g.public) /\ Passed(g.hidden)

IsGraded(d) == d \notin {Missing, Partial}

collect_pilot_attempts(s) ==
    /\ s.attempts # <<>>
    /\ \A i, j \in 1..Len(s.attempts) :
         s.attempts[i].model = s.attempts[j].model
           /\ s.attempts[i].grade.attempt = s.attempts[j].grade.attempt => i = j
    /\ \A i \in 1..Len(s.attempts) :
         LET row == s.attempts[i]
             d   == <<row.model, s.pilot_id, row.grade.attempt>>
         IN /\ row.model \in Range(snapshot)
            /\ IsGraded(dirs[d])
            /\ dirs[d].grade = row.grade
            /\ row.grade.pilot_id = s.pilot_id
            /\ _validated_grade(row.grade)
            /\ PatchNames(dirs[d].patch) = row.grade.final_changed_files

(***************************************************************************)
(* public_pilots: the bundle that is exported from a pilot directory has   *)
(* one row for each analyzed attempt, and validates every row on its own,  *)
(* without the turns the grade was made from.                              *)
(***************************************************************************)
STOP_REASONS == Reasons \ {"none"}

\* build_public_pilot_result: the row of an attempt.
PublicAttempt(g) ==
    [status |-> g.status, turns_completed |-> g.turns_completed,
     no_edit_before_approval |-> g.no_edit_before_approval,
     tool_protocol_clean |-> g.unsupported_tool_calls = 0,
     unsupported_tool_calls |-> g.unsupported_tool_calls,
     protocol_aborted |-> g.protocol_aborted, stop_reason |-> g.stop_reason,
     public |-> g.public, hidden |-> g.hidden, release_ready |-> g.release_ready]

\* validate_public_pilot_result for one row.
ValidPublicAttempt(x) ==
    /\ x.status = "COMPLETE" => x.turns_completed = 3
    /\ x.tool_protocol_clean <=> x.unsupported_tool_calls = 0
    /\ x.stop_reason \in STOP_REASONS \cup {"none"}
    /\ x.protocol_aborted <=> x.stop_reason = "unsupported_tool_loop"
    /\ x.protocol_aborted => x.unsupported_tool_calls >= MAX_UNSUPPORTED_CALLS_PER_AGENT_TURN
    /\ x.status = "COMPLETE" <=> x.stop_reason = "none"
    /\ ValidScore(x.public) /\ ValidScore(x.hidden)
    /\ x.release_ready <=> /\ x.status = "COMPLETE" /\ x.no_edit_before_approval
                           /\ Passed(x.public) /\ Passed(x.hidden)

-----------------------------------------------------------------------------
NoArgs == [models |-> <<>>, attempts |-> 0, pilot_id |-> Missing, pack |-> 0]

Init ==
    /\ snapshot = Missing
    /\ dirs = [d \in Dirs |-> Missing]
    /\ summary = Missing
    /\ markdown = Missing
    /\ pack = [p \in PilotIds |-> 0]
    /\ pc = "idle"
    /\ args = NoArgs
    /\ mi = 1 /\ at = 1
    /\ rows = <<>>
    /\ turns = <<>> /\ work = {} /\ early = {}
    /\ outcome = "none"
    /\ faults = 0
    /\ abandoned = {}

\* The process is gone.  The rows it had collected and the attempt it was in are
\* lost; a directory it had begun stays behind.
End(how) ==
    /\ pc' = "idle"
    /\ outcome' = how
    /\ rows' = <<>>
    /\ turns' = <<>> /\ work' = {} /\ early' = {}
    /\ abandoned' = {d \in Dirs : dirs[d] = Partial}

(***************************************************************************)
(* run_pilot up to its loops.                                              *)
(***************************************************************************)
\* [model for model in config["models"] if model["key"] in model_keys]
Chosen(c, keys) == SelectSeq(c, LAMBDA k : k \in keys)

\* Facts about SelectSeq, by evaluation.
ASSUME ChosenAssumption ==
    \A c \in PilotConfigs, keys \in SUBSET Keys :
      /\ Chosen(c, keys) \in Seq(Keys)
      /\ IsInjective(Chosen(c, keys))
      /\ Range(Chosen(c, keys)) \subseteq Range(c)

\* Mutant of Resumable: the scenario of the saved summary is not compared.
Resumable_AnyPilot(p) == summary # Missing => summary.pack = pack[p]

\* A saved summary must be of the same scenario and fingerprint.
Resumable(p) == summary # Missing => summary.pilot_id = p /\ summary.pack = pack[p]

Invoke(c, keys, n, p) ==
    /\ pc = "idle"
    /\ Chosen(c, keys) # <<>>
    /\ snapshot \in {Missing, c}
    /\ snapshot' = c
    /\ Resumable(p)
    /\ pc' = "next"
    /\ args' = [models |-> Chosen(c, keys), attempts |-> n, pilot_id |-> p, pack |-> pack[p]]
    /\ mi' = 1 /\ at' = 1
    /\ outcome' = "running"
    /\ UNCHANGED <<dirs, summary, markdown, pack, rows, attempt, faults, abandoned>>

\* Another configuration, or a summary of another scenario or fingerprint.
Refuse(c, p) ==
    /\ pc = "idle"
    /\ snapshot # Missing
    /\ snapshot # c \/ ~Resumable(p)
    /\ outcome' = "refused"
    /\ UNCHANGED <<disk, pack, pc, args, mi, at, rows, attempt, faults, abandoned>>

\* Another release is installed between two runs.
Upgrade(p) ==
    /\ pc = "idle"
    /\ pack[p] < MaxPack
    /\ pack' = [pack EXCEPT ![p] = @ + 1]
    /\ UNCHANGED <<disk, pc, args, mi, at, rows, attempt, outcome, faults, abandoned>>

(***************************************************************************)
(* The loops.                                                              *)
(***************************************************************************)
AddRow(grade) ==
    /\ rows' = Append(rows, [model |-> Current[1], grade |-> grade])
    /\ \/ at < args.attempts /\ at' = at + 1 /\ pc' = "next" /\ UNCHANGED mi
       \/ /\ at >= args.attempts
          /\ at' = 1
          /\ mi' = mi + 1
          /\ pc' = IF mi < Len(args.models) THEN "next" ELSE "summary"

\* A saved grade is used again; it has to be of this scenario.
ReuseAttempt ==
    /\ pc = "next"
    /\ IsGraded(dirs[Current])
    /\ dirs[Current].grade.pilot_id = args.pilot_id
    /\ AddRow(dirs[Current].grade)
    /\ UNCHANGED <<disk, pack, args, attempt, outcome, faults, abandoned>>

\* "partial pilot evidence exists; preserve it and start a new run".
RejectPartial ==
    /\ pc = "next"
    /\ dirs[Current] = Partial
    /\ End("stopped")
    /\ UNCHANGED <<disk, pack, args, mi, at, faults>>

\* Mutant of StartAttempt: a partial directory is used again.
StartAttempt_Anew ==
    /\ pc = "next"
    /\ dirs[Current] \in {Missing, Partial}
    /\ dirs' = [dirs EXCEPT ![Current] = Partial]
    /\ pc' = "turn"
    /\ UNCHANGED <<snapshot, summary, markdown, pack, args, mi, at, rows, attempt,
                   outcome, faults, abandoned>>

\* attempt_dir.mkdir and the copy of the task's repository.
StartAttempt ==
    /\ pc = "next"
    /\ dirs[Current] = Missing
    /\ dirs' = [dirs EXCEPT ![Current] = Partial]
    /\ pc' = "turn"
    /\ UNCHANGED <<snapshot, summary, markdown, pack, args, mi, at, rows, attempt,
                   outcome, faults, abandoned>>

(***************************************************************************)
(* run_attempt.                                                            *)
(***************************************************************************)
\* Mutant of StopsAttempt: the session id is not looked at.
StopsAttempt_NoSession(t, number, session, changed) ==
    t.returncode # 0 \/ t.timed_out \/ ~t.output_valid \/ (number < 3 /\ changed # {})

\* The test after each turn.
StopsAttempt(t, number, session, changed) ==
    \/ t.returncode # 0
    \/ t.timed_out
    \/ ~session
    \/ ~t.output_valid
    \/ number < 3 /\ changed # {}

\* `session_id = result.get("session_id") or session_id`; agent_turn returns the
\* id it was given.
Turn(t, changed) ==
    LET number  == Len(turns) + 1
        resumed == \E i \in 1..Len(turns) : turns[i].session
    IN /\ pc = "turn"
       /\ resumed => t.session
       /\ turns' = Append(turns, t)
       /\ work' = changed
       /\ early' = IF number < 3 THEN early \cup Names(changed) ELSE early
       /\ pc' = IF number = 3 \/ StopsAttempt(t, number, t.session \/ resumed, changed)
                THEN "grade" ELSE "turn"
       /\ UNCHANGED <<disk, pack, args, mi, at, rows, outcome, faults, abandoned>>

\* agent_turn raises: the agent survived SIGKILL for 30 s.
TurnRaises ==
    /\ pc = "turn"
    /\ faults < MaxFaults
    /\ faults' = faults + 1
    /\ End("stopped")
    /\ UNCHANGED <<disk, pack, args, mi, at>>

\* _test catches TimeoutExpired and joins the captured streams as text, but what
\* the exception carries is bytes: if the hung suite had printed anything, the
\* TypeError leaves run_attempt.  A silent one is graded below.
TestRaises ==
    /\ pc = "grade"
    /\ \E test \in Tests : test.timed_out
    /\ End("stopped")
    /\ UNCHANGED <<disk, pack, args, mi, at, faults>>

\* Both test runs, changes.patch, and save_json of the grade: the directory is
\* partial until the last of these.
SaveGrade(public, hidden) ==
    LET grade == _research_grade(turns, early, work, public, hidden)
    IN /\ pc = "grade"
       /\ dirs' = [dirs EXCEPT ![Current] =
                     [grade |-> grade, workspace |-> work, patch |-> _diff(work),
                      made_with |-> pack[args.pilot_id]]]
       /\ AddRow(grade)
       /\ turns' = <<>> /\ work' = {} /\ early' = {}
       /\ UNCHANGED <<snapshot, summary, markdown, pack, args, outcome, faults, abandoned>>


\* Mutant of SaveSummary: a summary that is already there is kept.
SaveSummary_Once ==
    /\ pc = "summary"
    /\ summary' = IF summary # Missing THEN summary
                  ELSE [pilot_id |-> args.pilot_id, pack |-> args.pack, attempts |-> rows]
    /\ pc' = "open report"
    /\ UNCHANGED <<snapshot, dirs, markdown, pack, args, mi, at, rows, attempt,
                   outcome, faults, abandoned>>

SaveSummary ==
    /\ pc = "summary"
    /\ summary' = [pilot_id |-> args.pilot_id, pack |-> args.pack, attempts |-> rows]
    /\ pc' = "open report"
    /\ UNCHANGED <<snapshot, dirs, markdown, pack, args, mi, at, rows, attempt,
                   outcome, faults, abandoned>>

OpenReport ==
    /\ pc = "open report"
    /\ markdown' = Torn
    /\ pc' = "write report"
    /\ UNCHANGED <<snapshot, dirs, summary, pack, args, mi, at, rows, attempt,
                   outcome, faults, abandoned>>

WriteReport ==
    /\ pc = "write report"
    /\ markdown' = summary
    /\ End("success")
    /\ UNCHANGED <<snapshot, dirs, summary, pack, args, mi, at, faults>>

Kill ==
    /\ pc # "idle"
    /\ faults < MaxFaults
    /\ faults' = faults + 1
    /\ End("killed")
    /\ UNCHANGED <<disk, pack, args, mi, at>>

-----------------------------------------------------------------------------
Next ==
    \/ \E c \in PilotConfigs, keys \in SUBSET Keys, n \in 1..MaxAttempts, p \in PilotIds :
         Invoke(c, keys, n, p)
    \/ \E c \in PilotConfigs, p \in PilotIds : Refuse(c, p)
    \/ \E p \in PilotIds : Upgrade(p)
    \/ ReuseAttempt
    \/ RejectPartial
    \/ StartAttempt
    \/ \E t \in Turns, changed \in Edits : Turn(t, changed)
    \/ TurnRaises
    \/ TestRaises
    \/ \E public, hidden \in Tests : SaveGrade(public, hidden)
    \/ SaveSummary
    \/ OpenReport
    \/ WriteReport
    \/ Kill

Spec == Init /\ [][Next]_vars

-----------------------------------------------------------------------------
(***************************************************************************)
(* Properties.                                                             *)
(***************************************************************************)
\* Every variable has its type; only PILOT_REPORT.md is ever found half written.
TypeOK ==
    /\ snapshot \in PilotConfigs \cup {Missing}
    /\ dirs \in [Dirs -> Evidence \cup {Missing, Partial}]
    /\ summary \in Summary \cup {Missing}
    /\ markdown \in Summary \cup {Missing, Torn}
    /\ pack \in [PilotIds -> 0..MaxPack]
    /\ pc \in {"idle", "next", "turn", "grade", "summary", "open report", "write report"}
    /\ args = NoArgs \/ args \in [models : Seq(Keys), attempts : 1..MaxAttempts,
                                  pilot_id : PilotIds, pack : 0..MaxPack]
    /\ mi \in Nat /\ at \in 1..MaxAttempts
    /\ rows \in Seq(SummaryRow)
    /\ turns \in Seq(Turns) /\ work \in Edits \cup {{}} /\ early \subseteq Nat
    /\ outcome \in {"none", "running", "refused", "stopped", "success", "killed"}
    /\ faults \in 0..MaxFaults
    /\ abandoned \subseteq Dirs

\* A directory that some process left partial is never used, completed or
\* overwritten by a later one.
AbandonedStaysPartial == \A d \in abandoned : dirs[d] = Partial

\* A saved research_grade.json never changes.
GradesAreFinal ==
    [][\A d \in Dirs : IsGraded(dirs[d]) => dirs'[d] = dirs[d]]_vars

\* Write authority (turn 3) is granted only in the session of turn 1 and over a
\* workspace that neither read-only turn changed.
ApprovalIsEarned ==
    pc = "turn" /\ Len(turns) = 2 => /\ work = {} /\ early = {}
                                     /\ \A i \in 1..2 : turns[i].session /\ TurnOk(turns[i])

\* The changes of a workspace that a patch can tell: every changed file leaves a
\* line in it, only the last one may end without a newline, and no removed line looks
\* like the header of a file that did not change.
TellableChanges(changed) ==
    \A f \in changed : /\ f.shows # "nothing"
                       /\ f.open => \A g \in changed : g.name <= f.name
                       /\ f.quotes \subseteq Names(changed)

\* Whatever was run, killed and resumed before, the analyzer accepts the summary
\* in the directory: it lists each attempt once, with the grade that is on disk,
\* of one scenario, and every grade agrees with its own evidence.  The exceptions
\* are an attempt whose changes a patch cannot tell, for which the analyzer refuses
\* the whole run, and a suite that reports more passed tests than it has.
SummaryIsAnalyzable ==
    summary # Missing
      /\ (\A i \in 1..Len(summary.attempts) :
            LET row == summary.attempts[i]
                d   == <<row.model, summary.pilot_id, row.grade.attempt>>
            IN IsGraded(dirs[d]) => /\ TellableChanges(dirs[d].workspace)
                                    /\ ValidScore(row.grade.public)
                                    /\ ValidScore(row.grade.hidden))
        => collect_pilot_attempts(summary)

\* The rows of a summary stand on their own: once the analyzer accepts the summary,
\* the public validator accepts the row that is exported for a grade, whatever the
\* turns were.  The exception is an attempt that went on to its end after the
\* circuit breaker had stopped a turn whose process exited with code 0.
SummaryIsExportable ==
    summary # Missing /\ collect_pilot_attempts(summary) =>
      \A i \in 1..Len(summary.attempts) :
        LET g == summary.attempts[i].grade
        IN (g.status = "COMPLETE" /\ g.protocol_aborted) \/ ValidPublicAttempt(PublicAttempt(g))

\* Once a directory has a summary, its scenario and fingerprint never change, and
\* whatever release is installed later, no attempt is graded in it that was made
\* with another scenario or fingerprint than the summary names.  (Attempts graded
\* before the first summary are not covered: nothing compares them.)
SummaryKeepsIdentity ==
    [][summary # Missing =>
         /\ summary'.pilot_id = summary.pilot_id /\ summary'.pack = summary.pack
         /\ \A d \in Dirs :
              dirs'[d] # dirs[d] /\ IsGraded(dirs'[d]) =>
                d[2] = summary.pilot_id /\ dirs'[d].made_with = summary.pack]_vars

\* A run that ends well has a summary of exactly the models and attempts it was
\* asked for, whatever part of them was there before.
SuccessCoversRequest ==
    outcome = "success" =>
      /\ markdown = summary
      /\ {<<summary.attempts[i].model, summary.attempts[i].grade.attempt>>
            : i \in 1..Len(summary.attempts)} = Range(args.models) \X (1..args.attempts)

\* A grade explains itself: an attempt is COMPLETE exactly when no stop reason is
\* given, and then nothing was edited before approval; the catch-all reason of
\* _attempt_stop_reason is never needed.
GradeIsExplained ==
    \A d \in Dirs : IsGraded(dirs[d]) =>
      LET g == dirs[d].grade
      IN /\ g.status = "COMPLETE" <=> g.stop_reason = "none"
         /\ g.status = "COMPLETE" => g.no_edit_before_approval
         /\ g.stop_reason # "incomplete_turns"

=============================================================================
