------------------------------- MODULE Round4 -------------------------------
(***************************************************************************)
(* Round 4 for one model: round4.run, v4_runner.main, run_attempt and      *)
(* regrade, with the agent wrappers of round4_agents.py.  The command is   *)
(* run again and again over one output directory; it may be killed between *)
(* any two steps, and run.json and grade.json are written in place.        *)
(*                                                                         *)
(* An evidence directory is <<task, attempt, retry>>: attemptN itself for  *)
(* retry 0, attemptN/retryR otherwise; the agent's private state directory *)
(* has the same index.  What a file was written by is kept as `by`, the    *)
(* number of the command, which the program does not store.                *)
(***************************************************************************)
EXTENDS Grading, Isolation

CONSTANTS Tasks,      \* Seq: the selected tasks
          Authored,   \* [task -> [multi_turn, marks, tail]]: the prompt of task.json
          Messages,   \* messages of a multi-turn prompt (five in the code)
          Repeats,    \* attempts of each task
          Backends,   \* a subset of {"codex_cli", "opencode_cli", "pi_cli"}
          Modes,      \* a subset of {"none", "macos_seatbelt"}
          Hosts,      \* what a preflight may find
          RawTurns,   \* what the agent's command line may do in one turn
          MaxRuns,    \* bound: commands started in this directory
          MaxFaults,  \* bound: kills, exceptions and irregular turns
          Missing, Torn

VARIABLES backend,    \* the agent backend of the model
          mode,       \* its round4_isolation
          stateDir,   \* evidence ids whose private state directory exists
          meta,       \* [id -> Missing or [by, host, turns]]: agent_meta.json; the host
                      \* is there once the preflight of an isolated agent passed
          transcript, \* [id -> Seq([by, sessions])]: transcript_turnN.txt
          repoAfter,  \* [id -> Missing or [by, good]]: the saved working copy
          gradeFile,  \* [id -> Missing, Torn or a grade]
          runJson,    \* Missing, Torn or [grades, errors]
          pc, run, faults,
          at,         \* the position in Plan
          id,         \* the evidence directory of the attempt
          session,    \* the session of the first turn, or Missing
          turn,       \* turns completed
          denied,     \* paths that the agent of this attempt cannot read
          grades, errors, \* the lists of main
          code        \* exit code of the last command that ended, or Missing

disk == <<stateDir, meta, transcript, repoAfter, gradeFile, runJson>>
vars == <<backend, mode, disk, pc, run, faults, at, id, session, turn, denied, grades, errors, code>>

Units == {Tasks[i] : i \in 1..Len(Tasks)} \X (1..Repeats)

\* The two loops of main.
Plan == [n \in 1..(Len(Tasks) * Repeats) |->
           <<Tasks[1 + ((n - 1) \div Repeats)], 1 + ((n - 1) % Repeats)>>]

MaxRetry == MaxRuns
Ids == {<<u[1], u[2], r>> : u \in Units, r \in 0..MaxRetry}
Unit == Plan[at]

\* validate_config refuses a task that is named twice.
ASSUME PlanAssumption ==
    /\ Tasks \in Seq(DOMAIN Authored)
    /\ \A i, j \in 1..Len(Tasks) : Tasks[i] = Tasks[j] => i = j
    /\ Repeats \in Nat \ {0} /\ Messages \in Nat \ {0}
    /\ MaxRuns \in Nat /\ MaxFaults \in Nat

\* The agents, the two values of round4_isolation, and what can be read from the
\* machine and from a transcript.
ASSUME AgentAssumption ==
    /\ Backends \subseteq {"codex_cli", "opencode_cli", "pi_cli"}
    /\ Modes \subseteq {"none", "macos_seatbelt"}
    /\ \A host \in Hosts : host.leaks \subseteq CATEGORIES
    /\ \A raw \in RawTurns : IsFiniteSet(raw.sessions) /\ Missing \notin raw.sessions

\* What of the host matters once the agent runs.
Boundary(host) ==
    [leaks |-> host.leaks, external |-> host.external, reachable |-> host.reachable]

Sessions == (UNION {raw.sessions : raw \in RawTurns}) \cup {"own"}
MetaRecords == [by : Nat, host : {Boundary(host) : host \in Hosts} \cup {Missing},
                turns : Seq([session : Sessions \cup {Missing}])]
Works == [by : Nat, good : BOOLEAN]
GradeRecords == [task : DOMAIN Authored, attempt : Nat, retry : Nat, pass : BOOLEAN, by : Nat,
                 heard : Nat]
Payloads == [grades : Seq(GradeRecords), errors : Seq(Units)]

\* No file and half a file are not the contents of one.
ASSUME SentinelAssumption ==
    /\ Missing # Torn /\ Missing # "own"
    /\ \A x \in {Missing, Torn} : x \notin GradeRecords /\ x \notin Payloads
    /\ Missing \notin MetaRecords /\ Missing \notin Works /\ Missing \notin Ids
    /\ Missing \notin [1..Len(Plan) -> {"pass", "fail", "invalid"}]

\* split_multiturn and build_multiturn_prompts: one message for each section, or one
\* shot when the authored prompt has another shape.
Prompts(t) ==
    LET a == Authored[t]
    IN IF a.multi_turn /\ a.marks = Messages /\ a.tail THEN Messages ELSE 1

\* The grade: `good` is what the hidden suite says of the working copy that was
\* graded, `heard` the turns whose transcript the grader saw.
GradeOf(u, r, work, heard) ==
    [task |-> u[1], attempt |-> u[2], retry |-> r, pass |-> work.good, by |-> work.by,
     heard |-> heard]

(***************************************************************************)
(* One turn of the three wrappers.  A raw turn is [sessions, timed_out,     *)
(* aborted, returncode, error, content, mismatch, canary].                  *)
(***************************************************************************)

CommonFailure(raw) ==
    raw.timed_out \/ raw.returncode # 0 \/ ~raw.content \/ raw.mismatch
    \/ BoundaryViolation(mode, raw)

CodexFailure(raw) == CommonFailure(raw) \/ raw.aborted

\* Mutant of OpenCodeFailure: the session of a continuation is not compared.
MutantAnySession(raw, requested) ==
    CommonFailure(raw) \/ raw.error \/ (requested = Missing /\ raw.sessions = {})

\* A continuation that names no session is taken to be the requested one.
OpenCodeFailure(raw, requested) ==
    \/ CommonFailure(raw) \/ raw.error
    \/ Cardinality(raw.sessions) > 1
    \/ requested # Missing /\ raw.sessions # {} /\ raw.sessions # {requested}
    \/ requested = Missing /\ raw.sessions = {}

\* pi is given a session id that the harness makes up.
PiFailure(raw, requested) ==
    CommonFailure(raw) \/ raw.error \/ raw.aborted \/ raw.sessions # {requested}

\* The session that the wrapper asks for; "own" is pi's new identifier.
Requested == IF backend = "pi_cli" /\ session = Missing THEN "own" ELSE session

Failure(raw) ==
    CASE backend = "codex_cli"    -> CodexFailure(raw)
      [] backend = "opencode_cli" -> OpenCodeFailure(raw, Requested)
      [] backend = "pi_cli"       -> PiFailure(raw, Requested)

\* The session_id of the result: for codex the one found in the transcript.
Returned(raw) ==
    IF Requested # Missing THEN Requested
    ELSE IF raw.sessions = {} THEN Missing ELSE CHOOSE s \in raw.sessions : TRUE

(***************************************************************************)
(* The command.                                                            *)
(***************************************************************************)

Init ==
    /\ backend \in Backends /\ mode \in Modes /\ denied = {}
    /\ stateDir = {} /\ meta = [i \in Ids |-> Missing] /\ transcript = [i \in Ids |-> <<>>]
    /\ repoAfter = [i \in Ids |-> Missing] /\ gradeFile = [i \in Ids |-> Missing]
    /\ runJson = Missing
    /\ pc = "idle" /\ run = 0 /\ faults = 0 /\ at = 1 /\ id = Missing
    /\ session = Missing /\ turn = 0 /\ grades = <<>> /\ errors = <<>> /\ code = Missing

Start ==
    /\ pc = "idle" /\ run < MaxRuns
    /\ run' = run + 1 /\ pc' = "check" /\ at' = 1 /\ grades' = <<>> /\ errors' = <<>>
    /\ code' = Missing
    /\ UNCHANGED <<backend, mode, disk, faults, id, session, turn, denied>>

\* Preflight of the server, baselines and the disarmed tasks: the command goes on
\* or ends with code 2; a dry run makes working copies and ends with code 0.
Check(server, armed, dry) ==
    /\ pc = "check"
    /\ \/ ~dry /\ ServerReady(server) /\ armed /\ pc' = "attempt" /\ UNCHANGED code
       \/ ~dry /\ ~(ServerReady(server) /\ armed) /\ pc' = "idle" /\ code' = 2
       \/ dry /\ pc' = "idle" /\ code' = 0
    /\ UNCHANGED <<backend, mode, disk, run, faults, at, id, session, turn, denied, grades, errors>>

\* Mutant of Free: a directory without a grade is taken again.
MutantUngraded(i) == gradeFile[i] = Missing

\* The test of the retry loop in run_attempt.
Free(i) == i \notin stateDir /\ meta[i] = Missing

\* The retry loop, and the constructor of the agent up to the state directory.
PickDirectory ==
    /\ pc = "attempt" /\ at <= Len(Plan)
    /\ \E r \in 0..MaxRetry :
         /\ Free(<<Unit[1], Unit[2], r>>)
         /\ \A q \in 0..(r - 1) : ~Free(<<Unit[1], Unit[2], q>>)
         /\ id' = <<Unit[1], Unit[2], r>>
    /\ denied' = Denied(mode, id', stateDir)
    /\ stateDir' = stateDir \cup {id'}
    /\ session' = Missing /\ turn' = 0 /\ pc' = "agent"
    /\ UNCHANGED <<backend, mode, meta, transcript, repoAfter, gradeFile, runJson, run, faults, at,
                   grades, errors, code>>

\* Counted as a fault: a turn that fails, or that does not name its session.
Irregular(raw) == Failure(raw) \/ raw.sessions # {IF session = Missing THEN "own" ELSE session}

Fault == faults < MaxFaults /\ faults' = faults + 1

\* The rest of the attempt is a try block: an exception is one entry of errors.
Raise ==
    /\ errors' = Append(errors, Unit)
    /\ at' = at + 1 /\ pc' = "attempt"
    /\ UNCHANGED grades

\* agent_meta.json, isolation and preflight of the agent, which may refuse.
SaveMetadata(host) ==
    /\ pc = "agent"
    /\ \/ /\ Isolated(mode, host) /\ CliReady(backend, host)
          /\ meta' = [meta EXCEPT ![id] = [by |-> run, turns |-> <<>>,
                                              host |-> IF mode = "none" THEN Missing ELSE Boundary(host)]]
          /\ pc' = "turn" /\ UNCHANGED <<at, grades, errors, faults>>
       \/ /\ ~(Isolated(mode, host) /\ CliReady(backend, host)) /\ Fault /\ Raise
          /\ meta' = [meta EXCEPT ![id] = [by |-> run, host |-> Missing, turns |-> <<>>]]
    /\ UNCHANGED <<backend, mode, stateDir, transcript, repoAfter, gradeFile, runJson, run, id,
                   session, turn, denied, code>>

\* A continuation needs the session of the first turn, and a wrapper refuses to
\* write where a transcript is.
RefuseTurn ==
    /\ pc = "turn"
    /\ (turn > 0 /\ session = Missing) \/ Len(transcript[id]) > turn
    /\ Raise
    /\ UNCHANGED <<backend, mode, disk, run, faults, id, session, turn, denied, code>>

\* The agent's process: its output is on disk before the turn is judged.  There is
\* a secret to show only when the attempt is isolated.
RunTurn(raw) ==
    /\ pc = "turn" /\ Len(transcript[id]) = turn
    /\ raw.canary => mode # "none"
    /\ turn > 0 => session # Missing
    /\ transcript' = [transcript EXCEPT ![id] = Append(@, [by |-> run, raw |-> raw])]
    /\ pc' = "judge"
    /\ IF Irregular(raw) THEN Fault ELSE UNCHANGED faults
    /\ UNCHANGED <<backend, mode, stateDir, meta, repoAfter, gradeFile, runJson, run, at, id,
                   session, turn, denied, grades, errors, code>>

\* _record_turn, the audit, the failures of the wrapper; then the next prompt.
JudgeTurn ==
    /\ pc = "judge"
    /\ LET raw == transcript[id][turn + 1].raw
       IN /\ meta' = [meta EXCEPT ![id].turns = Append(@, [session |-> Returned(raw)])]
          /\ \/ Failure(raw) /\ Raise /\ UNCHANGED <<session, turn, denied>>
             \/ /\ ~Failure(raw)
                /\ session' = Returned(raw) /\ turn' = turn + 1
                /\ pc' = IF turn + 1 = Prompts(Unit[1]) THEN "save" ELSE "turn"
                /\ UNCHANGED <<at, grades, errors>>
    /\ UNCHANGED <<backend, mode, stateDir, transcript, repoAfter, gradeFile, runJson, run, faults, id,
                   denied, code>>

\* The working copy is saved before it is graded.
SaveRepo(good) ==
    /\ pc = "save"
    /\ repoAfter' = [repoAfter EXCEPT ![id] = [by |-> run, good |-> good]]
    /\ pc' = "grade"
    /\ UNCHANGED <<backend, mode, stateDir, meta, transcript, gradeFile, runJson, run, faults, at, id,
                   session, turn, denied, grades, errors, code>>

\* grade_attempt may raise as well; grade.json is opened with mode "w".
OpenGrade(raises) ==
    /\ pc = "grade"
    /\ \/ raises /\ Fault /\ Raise /\ UNCHANGED gradeFile
       \/ /\ ~raises /\ gradeFile' = [gradeFile EXCEPT ![id] = Torn] /\ pc' = "dump"
          /\ UNCHANGED <<at, grades, errors, faults>>
    /\ UNCHANGED <<backend, mode, stateDir, meta, transcript, repoAfter, runJson, run, id,
                   session, turn, denied, code>>

DumpGrade ==
    /\ pc = "dump"
    /\ LET g == GradeOf(Unit, id[3], repoAfter[id], turn)
       IN /\ gradeFile' = [gradeFile EXCEPT ![id] = g] /\ grades' = Append(grades, g)
    /\ at' = at + 1 /\ pc' = "attempt"
    /\ UNCHANGED <<backend, mode, stateDir, meta, transcript, repoAfter, runJson, run, faults, id,
                   session, turn, denied, errors, code>>

OpenRunJson ==
    /\ pc = "attempt" /\ at > Len(Plan)
    /\ runJson' = Torn /\ pc' = "write"
    /\ UNCHANGED <<backend, mode, stateDir, meta, transcript, repoAfter, gradeFile, run, faults, at, id,
                   session, turn, denied, grades, errors, code>>

DumpRunJson ==
    /\ pc = "write"
    /\ runJson' = [grades |-> grades, errors |-> errors]
    /\ code' = IF errors = <<>> THEN 0 ELSE 2
    /\ pc' = "idle"
    /\ UNCHANGED <<backend, mode, stateDir, meta, transcript, repoAfter, gradeFile, run, faults, at, id,
                   session, turn, denied, grades, errors>>

\* Mutant of Regraded: evidence_subdir is ignored.
MutantFirstDirectory ==
    [n \in 1..Len(runJson.grades) |->
        LET g == runJson.grades[n]
            i == <<g.task, g.attempt, 0>>
        IN IF repoAfter[i] = Missing THEN g
           ELSE GradeOf(<<g.task, g.attempt>>, g.retry, repoAfter[i], Len(transcript[i]))]

EvidenceId(g) == <<g.task, g.attempt, g.retry>>

\* The n-th of a set of positions.
Nth(S, n) == CHOOSE k \in S : Cardinality({j \in S : j <= k}) = n

\* regrade: the grades of run.json are made again from repo_after and all the
\* transcripts of the evidence directory; grades without a saved copy are dropped.
Regraded ==
    LET kept == {n \in 1..Len(runJson.grades) : repoAfter[EvidenceId(runJson.grades[n])] # Missing}
        Again(g) == GradeOf(<<g.task, g.attempt>>, g.retry, repoAfter[EvidenceId(g)],
                            Len(transcript[EvidenceId(g)]))
    IN [n \in 1..Cardinality(kept) |-> Again(runJson.grades[Nth(kept, n)])]

Regrade ==
    /\ pc = "idle" /\ runJson \notin {Missing, Torn}
    /\ pc' = "rewrite"
    /\ grades' = Regraded /\ errors' = runJson.errors
    /\ runJson' = Torn
    /\ code' = Missing
    /\ UNCHANGED <<backend, mode, stateDir, meta, transcript, repoAfter, gradeFile, run, faults, at, id,
                   session, turn, denied>>

DumpRegraded ==
    /\ pc = "rewrite"
    /\ runJson' = [grades |-> grades, errors |-> errors]
    /\ code' = 0 /\ pc' = "idle"
    /\ UNCHANGED <<backend, mode, stateDir, meta, transcript, repoAfter, gradeFile, run, faults, at, id,
                   session, turn, denied, grades, errors>>

Kill ==
    /\ pc # "idle" /\ Fault
    /\ pc' = "idle" /\ code' = Missing /\ at' = 1 /\ id' = Missing
    /\ session' = Missing /\ turn' = 0 /\ denied' = {} /\ grades' = <<>> /\ errors' = <<>>
    /\ UNCHANGED <<backend, mode, disk, run>>

Done == pc = "idle" /\ run = MaxRuns /\ UNCHANGED vars

Step ==
    \/ \E server \in {"frontier", "serving", "down", "other_model"}, armed, dry \in BOOLEAN :
          Check(server, armed, dry)
    \/ PickDirectory
    \/ \E host \in {h \in Hosts : ValidIsolation(mode, h)} : SaveMetadata(host)
    \/ RefuseTurn
    \/ \E raw \in RawTurns : RunTurn(raw)
    \/ JudgeTurn
    \/ \E good \in BOOLEAN : SaveRepo(good)
    \/ \E raises \in BOOLEAN : OpenGrade(raises)
    \/ DumpGrade
    \/ OpenRunJson
    \/ DumpRunJson
    \/ DumpRegraded

Next ==
    \/ Start
    \/ Regrade
    \/ Step
    \/ Kill
    \/ Done

Spec == Init /\ [][Next]_vars

(***************************************************************************)
(* What a reader of run.json relies on: AttemptLedger.                     *)
(***************************************************************************)

Outcome(payload, u) ==
    LET Graded(pass) == \E n \in 1..Len(payload.grades) :
                            /\ <<payload.grades[n].task, payload.grades[n].attempt>> = u
                            /\ payload.grades[n].pass = pass
    IN IF u \in {payload.errors[n] : n \in 1..Len(payload.errors)} THEN "invalid"
       ELSE IF Graded(TRUE) THEN "pass" ELSE IF Graded(FALSE) THEN "fail" ELSE "lost"

SettledUpTo(payload, n) == [m \in 1..n |-> Outcome(payload, Plan[m])]

Phase == CASE pc \in {"idle", "check"} -> "idle"
           [] pc \in {"write", "rewrite"} -> "writing"
           [] OTHER -> "settling"

InMemory == [grades |-> grades, errors |-> errors]

SettledSoFar == CASE Phase = "idle"    -> <<>>
                  [] Phase = "writing" -> SettledUpTo(InMemory, Len(Plan))
                  [] OTHER             -> SettledUpTo(InMemory, at - 1)

PublishedFile == IF runJson \in {Missing, Torn} THEN Missing ELSE SettledUpTo(runJson, Len(Plan))

Ledger == INSTANCE AttemptLedger WITH
    Plan <- Plan, Outcomes <- {"pass", "fail", "invalid"}, NoFile <- Missing,
    phase <- Phase, settled <- SettledSoFar, published <- PublishedFile

(***************************************************************************)
(* Properties.                                                             *)
(***************************************************************************)

\* Round4 implements AttemptLedger: every planned attempt is settled once and in
\* order, run.json is all of one command or nothing, an attempt whose agent timed
\* out, crashed or refused stays in the file as invalid, and regrade, whatever
\* retries and kills came before, gives back the outcomes that were published.
ImplementsLedger == Ledger!LedgerSpec

\* Everything in one evidence directory was written by one command: a command
\* that finds the remains of a killed one (a state directory, an agent_meta.json,
\* half of the turns) goes to a retry directory and mixes nothing.
EvidenceOfOneRun ==
    \A i \in Ids :
        Cardinality((IF meta[i] = Missing THEN {} ELSE {meta[i].by})
                    \cup {transcript[i][n].by : n \in 1..Len(transcript[i])}
                    \cup (IF repoAfter[i] = Missing THEN {} ELSE {repoAfter[i].by})
                    \cup (IF gradeFile[i] \in {Missing, Torn} THEN {} ELSE {gradeFile[i].by})) <= 1

\* With isolation a turn only runs inside a boundary that holds: the sandbox of this
\* host really hides every protected category and the network, the private state and
\* the evidence that any earlier or killed command left of this or another attempt
\* are out of sight, and the agent's own state is not.  The exceptions are what the
\* profile leaves readable: the working copies of other tasks and attempts below
\* _work, and run.json and harness.log.
BoundaryHolds ==
    mode = "macos_seatbelt" /\ pc \in {"turn", "judge"} =>
        /\ meta[id].host.leaks = {} /\ meta[id].host.external = "denied"
        /\ meta[id].host.reachable
        /\ \A path \in Left(id, stateDir) \ denied : path[1] \in {"scratch", "report"}
        /\ <<"state", id[1], id[2], id[3]>> \notin denied

\* A grade covers a whole conversation: all prompts were answered, no turn timed
\* out, failed, or came from another model, and where the command line names its
\* session (opencode, pi) all turns ran in one.
GradeIsWhole ==
    \A i \in Ids :
        gradeFile[i] \notin {Missing, Torn} =>
            LET raws == {transcript[i][n].raw : n \in 1..Len(transcript[i])}
            IN /\ Len(transcript[i]) = Prompts(i[1]) /\ gradeFile[i].heard = Prompts(i[1])
               /\ \A raw \in raws : ~CommonFailure(raw)
               /\ backend # "codex_cli" => Cardinality(UNION {raw.sessions : raw \in raws}) = 1

\* pass@k is over the first k attempts when nothing failed.  With an invalid
\* attempt the next graded one takes its place, so pass@k may count attempt k + 1;
\* that file has errors and its command ended with code 2.
RatesAreExact ==
    runJson \notin {Missing, Torn} =>
        LET all == {runJson.grades[n] : n \in 1..Len(runJson.grades)}
            hits == Aggregate(all).hits
            truly(k) == {t \in {g.task : g \in all} :
                           \E g \in all : g.task = t /\ g.attempt <= k /\ g.pass}
        IN /\ runJson.errors = <<>> => Aggregate(all).attempts = Len(Plan)
           /\ \A k \in 1..3 : truly(k) \subseteq hits[k]
           /\ runJson.errors = <<>> => \A k \in 1..3 : hits[k] = truly(k)
=============================================================================
