----------------------------- MODULE PilotProofs -----------------------------
(***************************************************************************)
(* Proofs about Pilot, for every set of models, scenarios, turns, edits    *)
(* and test results and every bound, and about Portfolio, the analysis of  *)
(* what it writes, for any scenarios, configurations and evidence.         *)
(***************************************************************************)
EXTENDS Pilot, Portfolio, SumTheorems

-----------------------------------------------------------------------------
(***************************************************************************)
(* The loops of run_pilot.                                                 *)
(***************************************************************************)

\* While a process is in the loops, the current model and attempt exist.
LoopInv ==
    pc \in {"next", "turn", "grade"} =>
      /\ args.models \in Seq(Keys)
      /\ args.attempts \in 1..MaxAttempts
      /\ args.pilot_id \in PilotIds
      /\ mi \in 1..Len(args.models)
      /\ at \in 1..args.attempts

\* The next row either stays inside the loops or leaves them.
LEMMA AddRowLoop ==
    ASSUME LoopInv, NEW grade, pc \in {"next", "turn", "grade"}, AddRow(grade), args' = args
    PROVE  LoopInv' /\ pc' \in {"next", "summary"}
<1>1. CASE at < args.attempts /\ at' = at + 1 /\ pc' = "next" /\ UNCHANGED mi
  BY <1>1, PilotAssumption DEF LoopInv
<1>2. CASE /\ at >= args.attempts /\ at' = 1 /\ mi' = mi + 1
           /\ pc' = IF mi < Len(args.models) THEN "next" ELSE "summary"
  BY <1>2, PilotAssumption DEF LoopInv
<1> QED
  BY <1>1, <1>2 DEF AddRow

\* Every step keeps the loop variables in range.
LEMMA LoopStep == LoopInv /\ [Next]_vars => LoopInv'
<1> SUFFICES ASSUME LoopInv, [Next]_vars PROVE LoopInv'
  OBVIOUS
<1>1. ASSUME NEW c \in PilotConfigs, NEW keys \in SUBSET Keys, NEW n \in 1..MaxAttempts,
             NEW p \in PilotIds, Invoke(c, keys, n, p)
      PROVE  LoopInv'
  <2>1. Chosen(c, keys) \in Seq(Keys) /\ Chosen(c, keys) # <<>>
    BY <1>1, ChosenAssumption DEF Invoke
  <2>2. 1 \in 1..Len(Chosen(c, keys))
    BY <2>1
  <2>3. 1 \in 1..n
    BY PilotAssumption
  <2>4. /\ args' = [models |-> Chosen(c, keys), attempts |-> n, pilot_id |-> p, pack |-> pack[p]]
        /\ mi' = 1 /\ at' = 1
    BY <1>1 DEF Invoke
  <2> QED
    BY <2>1, <2>2, <2>3, <2>4 DEF LoopInv
<1>2. ASSUME NEW c \in PilotConfigs, NEW p \in PilotIds, Refuse(c, p) PROVE LoopInv'
  BY <1>2 DEF Refuse, LoopInv
<1>3. ASSUME NEW p \in PilotIds, Upgrade(p) PROVE LoopInv'
  BY <1>3 DEF Upgrade, LoopInv
<1>4. CASE ReuseAttempt
  BY <1>4, AddRowLoop DEF ReuseAttempt
<1>5. ASSUME NEW how, End(how) PROVE LoopInv'
  BY <1>5 DEF End, LoopInv
<1>6. CASE StartAttempt
  BY <1>6 DEF StartAttempt, LoopInv
<1>7. ASSUME NEW t \in Turns, NEW changed \in Edits, Turn(t, changed) PROVE LoopInv'
  BY <1>7 DEF Turn, LoopInv
<1>8. ASSUME NEW public \in Tests, NEW hidden \in Tests, SaveGrade(public, hidden)
      PROVE  LoopInv'
  <2>1. PICK grade : AddRow(grade)
    BY <1>8 DEF SaveGrade
  <2> QED
    BY <1>8, <2>1, AddRowLoop DEF SaveGrade
<1>9. CASE SaveSummary \/ OpenReport
  BY <1>9 DEF SaveSummary, OpenReport, LoopInv
<1>10. CASE UNCHANGED vars
  BY <1>10 DEF vars, LoopInv
<1> QED
  BY <1>1, <1>2, <1>3, <1>4, <1>5, <1>6, <1>7, <1>8, <1>9, <1>10
  DEF Next, RejectPartial, TurnRaises, TestRaises, WriteReport, Kill

\* The fingerprints of the installed release, and of the one a process started with.
PackInv ==
    /\ pack \in [PilotIds -> 0..MaxPack]
    /\ pc # "idle" => args.pack \in 0..MaxPack /\ args.pack = pack[args.pilot_id]

\* Every step keeps the fingerprints in range.
LEMMA PackStep == PackInv /\ [Next]_vars => PackInv'
<1> SUFFICES ASSUME PackInv, [Next]_vars PROVE PackInv'
  OBVIOUS
<1>1. ASSUME NEW c \in PilotConfigs, NEW keys \in SUBSET Keys, NEW n \in 1..MaxAttempts,
             NEW p \in PilotIds, Invoke(c, keys, n, p)
      PROVE  PackInv'
  BY <1>1 DEF Invoke, PackInv
<1>2. ASSUME NEW p \in PilotIds, Upgrade(p) PROVE PackInv'
  BY <1>2, PilotAssumption DEF Upgrade, PackInv
<1>3. ASSUME pack' = pack, args' = args, pc = "idle" => pc' = "idle" PROVE PackInv'
  BY <1>3 DEF PackInv
<1>4. CASE UNCHANGED vars
  BY <1>3, <1>4 DEF vars
<1>5. ASSUME NEW c \in PilotConfigs, NEW p \in PilotIds, Refuse(c, p) PROVE PackInv'
  BY <1>3, <1>5 DEF Refuse
<1> QED
  BY <1>1, <1>2, <1>3, <1>4, <1>5
  DEF Next, ReuseAttempt, RejectPartial, StartAttempt, Turn, TurnRaises, TestRaises,
      SaveGrade, SaveSummary, OpenReport, WriteReport, Kill, End

\* The current directory is one of the attempt directories.
LEMMA CurrentInDirs ==
    ASSUME LoopInv, pc \in {"next", "turn", "grade"}
    PROVE  Current \in Dirs
<1>1. args.models[mi] \in Keys /\ at \in 1..MaxAttempts /\ args.pilot_id \in PilotIds
  BY PilotAssumption DEF LoopInv
<1> QED
  BY <1>1 DEF Current, Dirs

-----------------------------------------------------------------------------
(***************************************************************************)
(* The attempt directories.                                                *)
(***************************************************************************)

\* A process is inside an attempt.
InAttempt == pc \in {"turn", "grade"}

\* Abandoned directories are partial, and the one a process is working in is
\* partial too but was not there when the process started.
DirsInv ==
    /\ \A d \in abandoned : dirs[d] = Partial
    /\ InAttempt => Current \notin abandoned /\ dirs[Current] = Partial
    /\ DOMAIN dirs = Dirs

\* The directories after a step that leaves them alone and stays outside or
\* inside an attempt as it was.
LEMMA DirsSame ==
    ASSUME DirsInv, dirs' = dirs, abandoned' = abandoned,
           InAttempt' => InAttempt /\ Current' = Current
    PROVE  DirsInv'
BY DEF DirsInv

\* No step touches an abandoned directory or a graded one.
LEMMA DirsStep ==
    ASSUME LoopInv, DirsInv, [Next]_vars
    PROVE  /\ DirsInv'
           /\ \A d \in Dirs : IsGraded(dirs[d]) => dirs'[d] = dirs[d]
<1>1. ASSUME NEW c \in PilotConfigs, NEW keys \in SUBSET Keys, NEW n \in 1..MaxAttempts,
             NEW p \in PilotIds, Invoke(c, keys, n, p)
      PROVE  DirsInv' /\ dirs' = dirs
  BY <1>1, DirsSame DEF Invoke, InAttempt
<1>2. ASSUME NEW c \in PilotConfigs, NEW p \in PilotIds, Refuse(c, p)
      PROVE  DirsInv' /\ dirs' = dirs
  BY <1>2, DirsSame DEF Refuse, InAttempt, disk, Current
<1>3. ASSUME NEW p \in PilotIds, Upgrade(p)
      PROVE  DirsInv' /\ dirs' = dirs
  BY <1>3, DirsSame DEF Upgrade, InAttempt, disk, Current
<1>4. CASE ReuseAttempt
  <2>1. PICK grade : AddRow(grade)
    BY <1>4 DEF ReuseAttempt
  <2>2. pc' \in {"next", "summary"}
    BY <1>4, <2>1, AddRowLoop DEF ReuseAttempt
  <2> QED
    BY <1>4, <2>2, DirsSame DEF ReuseAttempt, InAttempt, disk
<1>5. ASSUME NEW how, End(how), dirs' = dirs
      PROVE  DirsInv'
  BY <1>5 DEF End, DirsInv, InAttempt
<1>6. CASE StartAttempt
  <2>1. /\ pc = "next" /\ dirs[Current] = Missing
        /\ dirs' = [dirs EXCEPT ![Current] = Partial]
        /\ pc' = "turn" /\ Current' = Current /\ abandoned' = abandoned
    BY <1>6 DEF StartAttempt, Current
  <2>2. Current \notin abandoned
    BY <2>1, SentinelAssumption DEF DirsInv
  <2>3. Current \in Dirs
    BY <2>1, CurrentInDirs
  <2> QED
    BY <2>1, <2>2, <2>3 DEF InAttempt, IsGraded, DirsInv
<1>7. ASSUME NEW t \in Turns, NEW changed \in Edits, Turn(t, changed)
      PROVE  DirsInv' /\ dirs' = dirs
  <2>1. pc = "turn" /\ UNCHANGED <<dirs, args, mi, at, abandoned>>
    BY <1>7 DEF Turn, disk
  <2> QED
    BY <2>1, DirsSame DEF InAttempt, Current
<1>8. ASSUME NEW public \in Tests, NEW hidden \in Tests, SaveGrade(public, hidden)
      PROVE  DirsInv' /\ \A d \in Dirs : IsGraded(dirs[d]) => dirs'[d] = dirs[d]
  <2>1. PICK grade, saved :
          /\ AddRow(grade)
          /\ dirs' = [dirs EXCEPT ![Current] = saved]
    BY <1>8 DEF SaveGrade
  <2>2. /\ pc = "grade" /\ args' = args /\ abandoned' = abandoned
    BY <1>8 DEF SaveGrade
  <2>3. pc' \in {"next", "summary"}
    BY <2>1, <2>2, AddRowLoop
  <2>4. Current \notin abandoned /\ dirs[Current] = Partial /\ DOMAIN dirs = Dirs
    BY <2>2 DEF DirsInv, InAttempt
  <2>5. DirsInv'
    BY <2>1, <2>2, <2>3, <2>4 DEF DirsInv, InAttempt
  <2> QED
    BY <2>1, <2>4, <2>5 DEF IsGraded
<1>9. CASE SaveSummary \/ OpenReport
  BY <1>9, DirsSame DEF SaveSummary, OpenReport, InAttempt
<1>10. CASE UNCHANGED vars
  BY <1>10, DirsSame DEF vars, disk, InAttempt, Current
<1>11. CASE RejectPartial \/ TurnRaises \/ TestRaises \/ WriteReport \/ Kill
  BY <1>11, <1>5 DEF RejectPartial, TurnRaises, TestRaises, WriteReport, Kill, disk
<1> QED
  BY <1>1, <1>2, <1>3, <1>4, <1>6, <1>7, <1>8, <1>9, <1>10, <1>11
  DEF Next, ReuseAttempt, SaveSummary, OpenReport, vars, disk,
      RejectPartial, TurnRaises, TestRaises, WriteReport, Kill

-----------------------------------------------------------------------------
(***************************************************************************)
(* The turns of an attempt.                                                *)
(***************************************************************************)

\* Outside an attempt nothing is left of the last one.  While turns go on, all of
\* them were good, in one session and over an unchanged workspace; when they are
\* over, all but the last were good, and either all three were or something
\* explains why not.
TurnsInv ==
    /\ ~InAttempt => turns = <<>> /\ work = {} /\ early = {}
    /\ pc = "turn" =>
         /\ turns \in Seq(Turns) /\ Len(turns) < 3
         /\ work = {} /\ early = {}
         /\ \A i \in 1..Len(turns) : TurnOk(turns[i]) /\ turns[i].session
    /\ pc = "grade" =>
         /\ turns \in Seq(Turns) /\ Len(turns) \in 1..3
         /\ work \in Edits
         /\ \A i \in 1..(Len(turns) - 1) : TurnOk(turns[i]) /\ turns[i].session
         /\ AllTurnsOk(turns) => early = {}
         /\ \/ AllTurnsOk(turns)
            \/ early # {}
            \/ \E i \in 1..Len(turns) : TurnProblem(turns[i]) # "none"

\* A turn that stops the attempt by itself has a problem; one that does not is good.
LEMMA ProblemTurn ==
    ASSUME NEW t \in Turns, NEW number, NEW session, NEW changed
    PROVE  /\ StopsAttempt(t, number, session, changed) =>
                \/ TurnProblem(t) # "none"
                \/ ~session
                \/ number < 3 /\ changed # {}
           /\ ~StopsAttempt(t, number, session, changed) =>
                /\ TurnOk(t) /\ session
                /\ number < 3 => changed = {}
           /\ ~t.session => TurnProblem(t) # "none"
BY DEF StopsAttempt, TurnProblem, TurnOk

\* Every step keeps the account of the turns.
LEMMA TurnsStep ==
    ASSUME LoopInv, TurnsInv, [Next]_vars
    PROVE  TurnsInv'
<1>1. ASSUME pc' \notin {"turn", "grade"}, turns' = <<>>, work' = {}, early' = {}
      PROVE  TurnsInv'
  BY <1>1 DEF TurnsInv, InAttempt
<1>2. ASSUME NEW how, End(how) PROVE TurnsInv'
  BY <1>2, <1>1 DEF End
<1>3. ASSUME ~InAttempt, UNCHANGED attempt, pc' \notin {"turn", "grade"} PROVE TurnsInv'
  BY <1>3, <1>1 DEF attempt, TurnsInv
<1>4. ASSUME NEW c \in PilotConfigs, NEW keys \in SUBSET Keys, NEW n \in 1..MaxAttempts,
             NEW p \in PilotIds, Invoke(c, keys, n, p)
      PROVE  TurnsInv'
  BY <1>4, <1>3 DEF Invoke, InAttempt
<1>5. ASSUME NEW c \in PilotConfigs, NEW p \in PilotIds, Refuse(c, p) PROVE TurnsInv'
  BY <1>5, <1>3 DEF Refuse, InAttempt
<1>6. ASSUME NEW p \in PilotIds, Upgrade(p) PROVE TurnsInv'
  BY <1>6, <1>3 DEF Upgrade, InAttempt
<1>7. CASE ReuseAttempt
  <2>1. PICK grade : AddRow(grade)
    BY <1>7 DEF ReuseAttempt
  <2>2. pc' \in {"next", "summary"}
    BY <1>7, <2>1, AddRowLoop DEF ReuseAttempt
  <2> QED
    BY <1>7, <2>2, <1>3 DEF ReuseAttempt, InAttempt
<1>8. CASE StartAttempt
  <2>1. turns' = <<>> /\ work' = {} /\ early' = {} /\ pc' = "turn"
    BY <1>8 DEF StartAttempt, TurnsInv, InAttempt, attempt
  <2> QED
    BY <2>1 DEF TurnsInv, InAttempt
<1>9. ASSUME NEW t \in Turns, NEW changed \in Edits, Turn(t, changed) PROVE TurnsInv'
  <2> DEFINE number  == Len(turns) + 1
             resumed == \E i \in 1..Len(turns) : turns[i].session
             stops   == StopsAttempt(t, number, t.session \/ resumed, changed)
  <2>1. /\ pc = "turn" /\ turns' = Append(turns, t) /\ work' = changed
        /\ resumed => t.session
        /\ early' = IF number < 3 THEN early \cup Names(changed) ELSE early
        /\ pc' = IF number = 3 \/ stops THEN "grade" ELSE "turn"
    BY <1>9 DEF Turn
  <2>2. /\ turns \in Seq(Turns) /\ Len(turns) \in Nat /\ Len(turns) < 3
        /\ work = {} /\ early = {}
        /\ \A i \in 1..Len(turns) : TurnOk(turns[i]) /\ turns[i].session
    BY <2>1 DEF TurnsInv
  <2>3. /\ turns' \in Seq(Turns) /\ Len(turns') = number /\ number \in 1..3
        /\ \A i \in 1..Len(turns) : turns'[i] = turns[i]
        /\ turns'[number] = t
    BY <2>1, <2>2
  <2>4. resumed \/ t.session <=> t.session
    BY <2>1
  <2>10. Names(changed) = {} <=> changed = {}
    BY DEF Names
  <2>9. \A i \in 1..(Len(turns') - 1) : TurnOk(turns'[i]) /\ turns'[i].session
    BY <2>2, <2>3
  <2>5. ASSUME ~stops
        PROVE  /\ \A i \in 1..number : TurnOk(turns'[i]) /\ turns'[i].session
               /\ number < 3 => changed = {}
    <3>1. TurnOk(t) /\ t.session /\ (number < 3 => changed = {})
      BY <2>5, <2>4, ProblemTurn
    <3> QED
      BY <3>1, <2>2, <2>3
  <2>6. CASE number < 3 /\ ~stops
    BY <2>1, <2>2, <2>3, <2>5, <2>6, <2>10 DEF TurnsInv, InAttempt
  <2>7. CASE number = 3 /\ ~stops
    <3>1. AllTurnsOk(turns')
      BY <2>3, <2>5, <2>7 DEF AllTurnsOk
    <3> QED
      BY <2>1, <2>2, <2>3, <2>7, <2>9, <3>1 DEF TurnsInv, InAttempt
  <2>8. CASE stops
    <3>1. \/ TurnProblem(t) # "none"
          \/ number < 3 /\ changed # {}
      BY <2>8, <2>4, ProblemTurn
    <3>2. number < 3 => ~AllTurnsOk(turns')
      BY <2>3 DEF AllTurnsOk
    <3>3. number = 3 => early' = {}
      BY <2>1, <2>2
    <3>4. number < 3 /\ changed # {} => early' # {}
      BY <2>1, <2>10
    <3>5. TurnProblem(t) # "none" => \E i \in 1..Len(turns') : TurnProblem(turns'[i]) # "none"
      BY <2>3
    <3> QED
      BY <2>1, <2>3, <2>8, <2>9, <3>1, <3>2, <3>3, <3>4, <3>5 DEF TurnsInv, InAttempt
  <2> QED
    BY <2>3, <2>6, <2>7, <2>8
<1>10. ASSUME NEW public \in Tests, NEW hidden \in Tests, SaveGrade(public, hidden)
       PROVE  TurnsInv'
  <2>1. PICK grade : AddRow(grade)
    BY <1>10 DEF SaveGrade
  <2>2. pc' \in {"next", "summary"}
    BY <1>10, <2>1, AddRowLoop DEF SaveGrade
  <2> QED
    BY <1>10, <2>2, <1>1 DEF SaveGrade
<1>11. CASE SaveSummary \/ OpenReport
  BY <1>11, <1>3 DEF SaveSummary, OpenReport, InAttempt
<1>12. CASE UNCHANGED vars
  BY <1>12 DEF vars, attempt, TurnsInv, InAttempt
<1> QED
  BY <1>2, <1>4, <1>5, <1>6, <1>7, <1>8, <1>9, <1>10, <1>11, <1>12
  DEF Next, RejectPartial, TurnRaises, TestRaises, WriteReport, Kill

-----------------------------------------------------------------------------
(***************************************************************************)
(* The grade.                                                              *)
(***************************************************************************)

\* What every turn is.
LEMMA TurnFacts ==
    ASSUME NEW t \in Turns
    PROVE  /\ t \in TurnRecord
           /\ t.protocol_aborted <=> t.termination_reason = "unsupported_tool_loop"
           /\ t.protocol_aborted => t.errors >= MAX_UNSUPPORTED_CALLS_PER_AGENT_TURN
           /\ t.errors \in Nat
           /\ t.protocol_aborted \in BOOLEAN
BY PilotAssumption DEF TurnResult, TurnRecord

\* The first bad turn of at most three is one of them, and none comes before it.
LEMMA FirstBad ==
    ASSUME NEW n \in 1..3, NEW bad \in SUBSET (1..n), bad # {}
    PROVE  Min(bad) \in bad /\ \A y \in bad : Min(bad) <= y
<1>1. \E x \in bad : \A y \in bad : x <= y
  <2>1. CASE 1 \in bad
    BY <2>1
  <2>2. CASE 1 \notin bad /\ 2 \in bad
    BY <2>2
  <2>3. CASE 1 \notin bad /\ 2 \notin bad
    <3>1. \A y \in bad : y \in 1..3 /\ y # 1 /\ y # 2
      BY <2>3
    <3>2. \A y \in bad : y = 3
      BY <3>1
    <3>3. PICK x : x \in bad
      OBVIOUS
    <3> QED
      BY <3>2, <3>3
  <2> QED
    BY <2>1, <2>2, <2>3
<1> QED
  BY <1>1 DEF Min

\* _attempt_stop_reason: no reason exactly for three good turns, and never the
\* catch-all one if a turn has a problem or there was an early edit.
LEMMA StopReason ==
    ASSUME NEW ts \in Seq(Turns), Len(ts) \in 1..3, NEW edited \in BOOLEAN
    PROVE  LET reason == _attempt_stop_reason(ts, edited)
           IN /\ reason \in Reasons
              /\ reason = "none" <=> AllTurnsOk(ts)
              /\ AllTurnsOk(ts) \/ edited \/ (\E i \in 1..Len(ts) : TurnProblem(ts[i]) # "none")
                   => reason # "incomplete_turns"
<1> DEFINE bad == {i \in 1..Len(ts) : TurnProblem(ts[i]) # "none"}
           reason == _attempt_stop_reason(ts, edited)
<1>1. reason = IF AllTurnsOk(ts) THEN "none"
               ELSE IF bad # {} THEN TurnProblem(ts[Min(bad)])
               ELSE IF edited THEN "preapproval_edit"
               ELSE "incomplete_turns"
  BY DEF _attempt_stop_reason
<1>2. bad # {} => Min(bad) \in bad
  BY FirstBad
<1>3. bad # {} => TurnProblem(ts[Min(bad)]) # "none"
  BY <1>2
<1>4. \A t : TurnProblem(t) \in Reasons \ {"preapproval_edit", "incomplete_turns"}
  BY DEF TurnProblem, Reasons
<1>5. (\E i \in 1..Len(ts) : TurnProblem(ts[i]) # "none") => bad # {}
  OBVIOUS
<1> HIDE DEF bad, reason
<1>6. reason \in Reasons
  BY <1>1, <1>4 DEF Reasons
<1>7. reason = "none" <=> AllTurnsOk(ts)
  BY <1>1, <1>3
<1>8. AllTurnsOk(ts) \/ edited \/ (\E i \in 1..Len(ts) : TurnProblem(ts[i]) # "none")
        => reason # "incomplete_turns"
  BY <1>1, <1>4, <1>5
<1> QED
  BY <1>6, <1>7, <1>8 DEF reason

\* The router errors of a list of turns are a number.
LEMMA ErrorsType ==
    ASSUME NEW ts \in Seq(Turns)
    PROVE  Errors(ts) \in Nat
<1>1. \A i \in {1, 2, 3} : ErrorsOf(ts, i) \in Nat
  <2> TAKE i \in {1, 2, 3}
  <2>1. CASE i <= Len(ts)
    <3>1. ts[i] \in Turns
      BY <2>1
    <3> QED
      BY <2>1, <3>1, TurnFacts DEF ErrorsOf
  <2>2. CASE ~(i <= Len(ts))
    BY <2>2 DEF ErrorsOf
  <2> QED
    BY <2>1, <2>2
<1> QED
  BY <1>1 DEF Errors

\* Why an attempt is complete or not, as GradeIsExplained asks.
Explained(g) ==
    /\ g.status = "COMPLETE" <=> g.stop_reason = "none"
    /\ g.status = "COMPLETE" => g.no_edit_before_approval
    /\ g.stop_reason # "incomplete_turns"

\* If all turns but the last were good, an attempt that is not complete is stopped
\* for the tool loop exactly if the circuit breaker ended one of its turns.
LEMMA LoopReason ==
    ASSUME NEW ts \in Seq(Turns), Len(ts) \in 1..3, NEW edited \in BOOLEAN, ~AllTurnsOk(ts),
           \A i \in 1..(Len(ts) - 1) : TurnOk(ts[i]) /\ ts[i].session
    PROVE  (\E i \in 1..Len(ts) : ts[i].protocol_aborted)
             <=> _attempt_stop_reason(ts, edited) = "unsupported_tool_loop"
<1> DEFINE bad == {i \in 1..Len(ts) : TurnProblem(ts[i]) # "none"}
           reason == _attempt_stop_reason(ts, edited)
<1>1. reason = IF bad # {} THEN TurnProblem(ts[Min(bad)])
               ELSE IF edited THEN "preapproval_edit"
               ELSE "incomplete_turns"
  BY DEF _attempt_stop_reason
<1>2. \A i \in 1..Len(ts) : ts[i].protocol_aborted => i \in bad
  BY DEF TurnProblem
<1>3. bad # {} => Min(bad) \in bad /\ \A y \in bad : Min(bad) <= y
  BY FirstBad
<1>4. \A i \in 1..Len(ts) : TurnProblem(ts[i]) = "unsupported_tool_loop" <=> ts[i].protocol_aborted
  BY DEF TurnProblem
<1>5. ASSUME NEW i \in bad, i < Len(ts) PROVE ts[i].protocol_aborted
  BY <1>5 DEF TurnProblem, TurnOk
<1>6. ASSUME NEW i \in 1..Len(ts), ts[i].protocol_aborted
      PROVE  ts[Min(bad)].protocol_aborted
  <2>1. i \in bad /\ Min(bad) \in bad /\ bad \subseteq Int
    BY <1>2, <1>3, <1>6
  <2>2. \A y \in bad : Min(bad) <= y
    BY <1>3, <2>1
  <2>3. CASE Min(bad) < Len(ts)
    BY <2>1, <2>3, <1>5
  <2>4. CASE ~(Min(bad) < Len(ts))
    <3>1. Min(bad) = i
      BY <2>1, <2>2, <2>4
    <3> QED
      BY <3>1, <1>6
  <2> QED
    BY <2>3, <2>4
<1> HIDE DEF bad, reason
<1>7. ASSUME NEW i \in 1..Len(ts), ts[i].protocol_aborted PROVE reason = "unsupported_tool_loop"
  <2>1. Min(bad) \in 1..Len(ts) /\ bad # {}
    BY <1>2, <1>3, <1>7 DEF bad
  <2> QED
    BY <2>1, <1>1, <1>4, <1>6, <1>7
<1>8. ASSUME reason = "unsupported_tool_loop" PROVE \E i \in 1..Len(ts) : ts[i].protocol_aborted
  <2>1. bad # {} /\ TurnProblem(ts[Min(bad)]) = "unsupported_tool_loop"
    BY <1>1, <1>8
  <2>2. Min(bad) \in 1..Len(ts)
    BY <2>1, <1>3 DEF bad
  <2> QED
    BY <2>1, <2>2, <1>4
<1> QED
  BY <1>7, <1>8 DEF reason

\* A turn that the breaker ended brings the errors of its attempt to the threshold.
LEMMA AbortErrors ==
    ASSUME NEW ts \in Seq(Turns), Len(ts) \in 1..3,
           NEW i \in 1..Len(ts), ts[i].protocol_aborted
    PROVE  Errors(ts) >= MAX_UNSUPPORTED_CALLS_PER_AGENT_TURN
<1>1. \A j \in {1, 2, 3} : ErrorsOf(ts, j) \in Nat
  <2> TAKE j \in {1, 2, 3}
  <2>1. CASE j <= Len(ts)
    <3>1. ts[j] \in Turns
      BY <2>1
    <3> QED
      BY <2>1, <3>1, TurnFacts DEF ErrorsOf
  <2>2. CASE ~(j <= Len(ts))
    BY <2>2 DEF ErrorsOf
  <2> QED
    BY <2>1, <2>2
<1>2. ErrorsOf(ts, i) >= 3 /\ i \in {1, 2, 3}
  <2>1. ts[i] \in Turns
    OBVIOUS
  <2> QED
    BY <2>1, TurnFacts DEF ErrorsOf, MAX_UNSUPPORTED_CALLS_PER_AGENT_TURN
<1> QED
  BY <1>1, <1>2 DEF Errors, MAX_UNSUPPORTED_CALLS_PER_AGENT_TURN

\* What the analyzer asks of the scores of a grade.
Scored(g) == ValidScore(g.public) /\ ValidScore(g.hidden)

\* What SummaryIsExportable asks of a grade.
Exportable(g) ==
    (g.status = "COMPLETE" /\ g.protocol_aborted) \/ ValidPublicAttempt(PublicAttempt(g))

\* The changes an agent makes are changes of files, and their names are numbers.
LEMMA ChangedNames ==
    ASSUME NEW changed \in Edits PROVE changed \subseteq Files /\ Names(changed) \in SUBSET Nat
BY PilotAssumption DEF Names, Files

\* The grade of an attempt that is over has its type, explains itself, and is one
\* the analyzer accepts if its scores are possible.
LEMMA GradeFacts ==
    ASSUME LoopInv, TurnsInv, pc = "grade",
           NEW public \in Tests, NEW hidden \in Tests
    PROVE  LET g == _research_grade(turns, early, work, public, hidden)
           IN /\ g \in Grade
              /\ g.pilot_id = args.pilot_id /\ g.attempt = at
              /\ g.final_changed_files = Names(work)
              /\ Explained(g)
              /\ Scored(g) => _validated_grade(g)
              /\ Scored(g) => Exportable(g)
<1> DEFINE g == _research_grade(turns, early, work, public, hidden)
           reason == _attempt_stop_reason(turns, early # {})
<1>1. /\ turns \in Seq(Turns) /\ Len(turns) \in 1..3 /\ work \in Edits
      /\ AllTurnsOk(turns) => early = {}
      /\ \A i \in 1..(Len(turns) - 1) : TurnOk(turns[i]) /\ turns[i].session
      /\ \/ AllTurnsOk(turns)
         \/ early # {}
         \/ \E i \in 1..Len(turns) : TurnProblem(turns[i]) # "none"
  BY DEF TurnsInv
<1>2. /\ reason \in Reasons
      /\ reason = "none" <=> AllTurnsOk(turns)
      /\ reason # "incomplete_turns"
  BY <1>1, StopReason
<1>3. Errors(turns) \in Nat
  BY <1>1, ErrorsType
<1>4. args.pilot_id \in PilotIds /\ at \in 1..MaxAttempts
  BY PilotAssumption DEF LoopInv
<1>5. g = [pilot_id |-> args.pilot_id, attempt |-> at,
           status |-> IF AllTurnsOk(turns) THEN "COMPLETE" ELSE "INCOMPLETE",
           stop_reason |-> reason,
           protocol_aborted |-> \E i \in 1..Len(turns) : turns[i].protocol_aborted,
           turns_completed |-> Len(turns),
           no_edit_before_approval |-> early = {},
           unsupported_tool_calls |-> Errors(turns),
           public |-> public, hidden |-> hidden,
           release_ready |-> AllTurnsOk(turns) /\ early = {} /\ Passed(public) /\ Passed(hidden),
           final_changed_files |-> Names(work),
           turns |-> turns]
  BY DEF _research_grade, Counted
<1> HIDE DEF g
<1>6. g \in Grade
  <2>1. Names(work) \in SUBSET Nat
    BY <1>1, ChangedNames
  <2> QED
    BY <1>1, <1>2, <1>3, <1>4, <1>5, <2>1 DEF Grade
<1>7. Explained(g)
  BY <1>1, <1>2, <1>5 DEF Explained
<1>8. ASSUME Scored(g) PROVE _validated_grade(g)
  <2>1. \A i \in 1..Len(g.turns) :
          /\ g.turns[i].protocol_aborted
               <=> g.turns[i].termination_reason = "unsupported_tool_loop"
          /\ g.turns[i].protocol_aborted
               => g.turns[i].errors >= MAX_UNSUPPORTED_CALLS_PER_AGENT_TURN
    BY <1>1, <1>5, TurnFacts
  <2>2. g.stop_reason = _attempt_stop_reason(g.turns, ~g.no_edit_before_approval)
    BY <1>5 DEF _attempt_stop_reason
  <2>3. (g.turns_completed = 3 /\ \A i \in 1..Len(g.turns) : TurnOk(g.turns[i]))
          <=> AllTurnsOk(turns)
    BY <1>5 DEF AllTurnsOk
  <2> QED
    BY <1>5, <1>8, <2>1, <2>2, <2>3 DEF _validated_grade, Scored
<1>9. ASSUME Scored(g) PROVE Exportable(g)
  <2> DEFINE aborted == \E i \in 1..Len(turns) : turns[i].protocol_aborted
  <2>1. ~AllTurnsOk(turns) => (aborted <=> reason = "unsupported_tool_loop")
    BY <1>1, LoopReason
  <2>2. aborted => Errors(turns) >= MAX_UNSUPPORTED_CALLS_PER_AGENT_TURN
    BY <1>1, AbortErrors
  <2>3. AllTurnsOk(turns) => Len(turns) = 3
    BY DEF AllTurnsOk
  <2>4. ValidScore(public) /\ ValidScore(hidden)
    BY <1>5, <1>9 DEF Scored
  <2>5. PublicAttempt(g) =
          [status |-> IF AllTurnsOk(turns) THEN "COMPLETE" ELSE "INCOMPLETE",
           turns_completed |-> Len(turns), no_edit_before_approval |-> early = {},
           tool_protocol_clean |-> Errors(turns) = 0,
           unsupported_tool_calls |-> Errors(turns),
           protocol_aborted |-> aborted, stop_reason |-> reason,
           public |-> public, hidden |-> hidden,
           release_ready |-> AllTurnsOk(turns) /\ early = {} /\ Passed(public) /\ Passed(hidden)]
    BY <1>5 DEF PublicAttempt
  <2>6. g.status = (IF AllTurnsOk(turns) THEN "COMPLETE" ELSE "INCOMPLETE")
        /\ g.protocol_aborted = aborted
    BY <1>5
  <2> HIDE DEF aborted, reason
  <2>7. CASE AllTurnsOk(turns) /\ aborted
    BY <2>6, <2>7 DEF Exportable
  <2>8. CASE ~(AllTurnsOk(turns) /\ aborted)
    <3>1. aborted <=> reason = "unsupported_tool_loop"
      BY <1>2, <2>1, <2>8
    <3> DEFINE x == PublicAttempt(g)
    <3>2. /\ x.status = (IF AllTurnsOk(turns) THEN "COMPLETE" ELSE "INCOMPLETE")
          /\ x.turns_completed = Len(turns)
          /\ x.no_edit_before_approval = (early = {})
          /\ x.tool_protocol_clean = (Errors(turns) = 0)
          /\ x.unsupported_tool_calls = Errors(turns)
          /\ x.protocol_aborted = aborted /\ x.stop_reason = reason
          /\ x.public = public /\ x.hidden = hidden
          /\ x.release_ready = (AllTurnsOk(turns) /\ early = {} /\ Passed(public) /\ Passed(hidden))
      BY <2>5
    <3> HIDE DEF x
    <3>3. x.status = "COMPLETE" <=> AllTurnsOk(turns)
      BY <3>2
    <3>4. ValidScore(x.public) /\ ValidScore(x.hidden)
      BY <2>4, <3>2
    <3>5. x.stop_reason \in STOP_REASONS \cup {"none"}
      BY <1>2, <3>2 DEF STOP_REASONS
    <3>6. /\ x.status = "COMPLETE" => x.turns_completed = 3
          /\ x.tool_protocol_clean <=> x.unsupported_tool_calls = 0
          /\ x.protocol_aborted <=> x.stop_reason = "unsupported_tool_loop"
          /\ x.protocol_aborted
               => x.unsupported_tool_calls >= MAX_UNSUPPORTED_CALLS_PER_AGENT_TURN
      BY <2>2, <2>3, <3>1, <3>2, <3>3
    <3>7. x.status = "COMPLETE" <=> x.stop_reason = "none"
      BY <1>2, <3>2, <3>3
    <3>8. x.release_ready <=> /\ x.status = "COMPLETE" /\ x.no_edit_before_approval
                             /\ Passed(x.public) /\ Passed(x.hidden)
      BY <3>2, <3>3
    <3>9. ValidPublicAttempt(x)
      BY <3>4, <3>5, <3>6, <3>7, <3>8, Zenon DEF ValidPublicAttempt
    <3> QED
      BY <3>9 DEF Exportable, x
  <2> QED
    BY <2>7, <2>8
<1> QED
  BY <1>5, <1>6, <1>7, <1>8, <1>9 DEF g

-----------------------------------------------------------------------------
(***************************************************************************)
(* The saved evidence.                                                     *)
(***************************************************************************)

\* The evidence in a directory is of the scenario and attempt the directory is
\* named after, explains itself, and with possible scores is accepted by the analyzer
\* and by the public validator; grade and patch are of the workspace beside them.
GoodEvidence(d, e) ==
    /\ e \in Evidence
    /\ e.grade.pilot_id = d[2] /\ e.grade.attempt = d[3]
    /\ Explained(e.grade)
    /\ Scored(e.grade) => _validated_grade(e.grade)
    /\ Scored(e.grade) => Exportable(e.grade)
    /\ e.grade.final_changed_files = Names(e.workspace)
    /\ e.patch = _diff(e.workspace)

EvidenceInv == \A d \in Dirs : IsGraded(dirs[d]) => GoodEvidence(d, dirs[d])

\* The only step that grades a directory is SaveGrade.
LEMMA OnlySaveGrade ==
    ASSUME DirsInv, LoopInv, [Next]_vars,
           ~ \E public, hidden \in Tests : SaveGrade(public, hidden)
    PROVE  \A d \in Dirs : IsGraded(dirs'[d]) => dirs'[d] = dirs[d]
<1>1. CASE StartAttempt
  <2>1. Current \in Dirs
    BY <1>1, CurrentInDirs DEF StartAttempt
  <2> QED
    BY <1>1, <2>1 DEF StartAttempt, IsGraded, DirsInv
<1>2. CASE ~StartAttempt
  <2>1. dirs' = dirs
    BY <1>2 DEF Next, Invoke, Refuse, Upgrade, ReuseAttempt, RejectPartial, Turn, TurnRaises,
                TestRaises, SaveSummary, OpenReport, WriteReport, Kill, vars, disk
  <2> QED
    BY <2>1
<1> QED
  BY <1>1, <1>2

\* What SaveGrade saves is good evidence.
LEMMA GradedEvidence ==
    ASSUME LoopInv, PackInv, TurnsInv, pc = "grade", NEW public \in Tests, NEW hidden \in Tests
    PROVE  LET g == _research_grade(turns, early, work, public, hidden)
               e == [grade |-> g, workspace |-> work, patch |-> _diff(work),
                     made_with |-> pack[args.pilot_id]]
           IN /\ g \in Grade /\ g.attempt = at
              /\ e.grade = g
              /\ IsGraded(e)
              /\ GoodEvidence(Current, e)
<1> DEFINE g == _research_grade(turns, early, work, public, hidden)
           e == [grade |-> g, workspace |-> work, patch |-> _diff(work),
                 made_with |-> pack[args.pilot_id]]
<1>1. /\ g \in Grade
      /\ g.pilot_id = args.pilot_id /\ g.attempt = at
      /\ g.final_changed_files = Names(work)
      /\ Explained(g)
      /\ Scored(g) => _validated_grade(g)
      /\ Scored(g) => Exportable(g)
  BY GradeFacts
<1>2. Current[2] = args.pilot_id /\ Current[3] = at
  BY DEF Current
<1>3. pack[args.pilot_id] \in 0..MaxPack
  BY DEF PackInv, LoopInv
<1>4. _diff(work) \in SUBSET Files
  BY ChangedNames DEF TurnsInv, _diff
<1>5. e.grade = g /\ e.workspace = work /\ e.patch = _diff(work) /\ work \in Edits
  BY DEF TurnsInv
<1> HIDE DEF g
<1>6. e \in Evidence
  BY <1>1, <1>3, <1>4, <1>5 DEF Evidence
<1>7. IsGraded(e)
  BY <1>6, SentinelAssumption DEF IsGraded
<1> HIDE DEF e
<1>8. GoodEvidence(Current, e)
  BY <1>1, <1>2, <1>5, <1>6 DEF GoodEvidence
<1> QED
  BY <1>1, <1>5, <1>7, <1>8 DEF g, e

\* Every step keeps the saved evidence good.
LEMMA EvidenceStep ==
    ASSUME LoopInv, PackInv, DirsInv, TurnsInv, EvidenceInv, [Next]_vars
    PROVE  EvidenceInv'
<1>1. ASSUME NEW public \in Tests, NEW hidden \in Tests, SaveGrade(public, hidden)
      PROVE  EvidenceInv'
  <2> DEFINE g == _research_grade(turns, early, work, public, hidden)
             e == [grade |-> g, workspace |-> work, patch |-> _diff(work),
                   made_with |-> pack[args.pilot_id]]
  <2>1. pc = "grade" /\ dirs' = [dirs EXCEPT ![Current] = e]
    BY <1>1 DEF SaveGrade
  <2>2. Current \in Dirs
    BY <2>1, CurrentInDirs
  <2>3. GoodEvidence(Current, e)
    BY <2>1, GradedEvidence
  <2> HIDE DEF e
  <2>4. dirs'[Current] = e /\ \A d \in Dirs \ {Current} : dirs'[d] = dirs[d]
    BY <2>1, <2>2 DEF DirsInv
  <2> QED
    BY <2>3, <2>4 DEF EvidenceInv
<1>2. CASE ~ \E public, hidden \in Tests : SaveGrade(public, hidden)
  BY <1>2, OnlySaveGrade DEF EvidenceInv
<1> QED
  BY <1>1, <1>2

-----------------------------------------------------------------------------
(***************************************************************************)
(* The theorems about attempts.                                            *)
(***************************************************************************)
AttemptInv == LoopInv /\ PackInv /\ DirsInv /\ TurnsInv /\ EvidenceInv

\* A fresh pilot directory satisfies the invariant.
LEMMA AttemptInit == Init => AttemptInv
BY SentinelAssumption, PilotAssumption
DEF Init, AttemptInv, PackInv, LoopInv, DirsInv, TurnsInv, EvidenceInv, InAttempt, IsGraded

\* Every step keeps the invariant, and no step changes a saved grade.
LEMMA AttemptStep ==
    AttemptInv /\ [Next]_vars =>
      /\ AttemptInv'
      /\ \A d \in Dirs : IsGraded(dirs[d]) => dirs'[d] = dirs[d]
BY LoopStep, PackStep, DirsStep, TurnsStep, EvidenceStep DEF AttemptInv

\* The invariant of the attempts holds in every reachable state of run_pilot.
THEOREM AttemptCorrect == Spec => []AttemptInv
BY AttemptInit, AttemptStep, PTL DEF Spec

\* An attempt directory that a process of run_pilot left partial is still partial
\* however often, and with whatever arguments, the command is run again.
THEOREM AbandonedDirectories == Spec => []AbandonedStaysPartial
<1>1. AttemptInv => AbandonedStaysPartial
  BY DEF AttemptInv, DirsInv, AbandonedStaysPartial
<1> QED
  BY <1>1, AttemptCorrect, PTL

\* No step of run_pilot changes a research_grade.json that was saved.
THEOREM FinalGrades == Spec => GradesAreFinal
<1>1. AttemptInv /\ [Next]_vars => [\A d \in Dirs : IsGraded(dirs[d]) => dirs'[d] = dirs[d]]_vars
  BY AttemptStep
<1> QED
  BY <1>1, AttemptCorrect, PTL DEF Spec, GradesAreFinal

\* Turn 3 of run_attempt starts only in the session of the two turns before it,
\* both of them good, over a workspace that neither changed.
THEOREM ApprovalEarned == Spec => []ApprovalIsEarned
<1>1. AttemptInv => ApprovalIsEarned
  BY DEF AttemptInv, TurnsInv, ApprovalIsEarned
<1> QED
  BY <1>1, AttemptCorrect, PTL

\* Every saved research_grade.json is COMPLETE exactly when it gives no stop
\* reason, and the fallback reason of _attempt_stop_reason is never used.
THEOREM ExplainedGrades == Spec => []GradeIsExplained
<1>1. AttemptInv => GradeIsExplained
  BY DEF AttemptInv, EvidenceInv, GoodEvidence, Explained, GradeIsExplained
<1> QED
  BY <1>1, AttemptCorrect, PTL

-----------------------------------------------------------------------------
(***************************************************************************)
(* The rows of a summary.                                                  *)
(***************************************************************************)

\* The rows list distinct attempts of scenario p, each of a model of the
\* configuration and with the grade that is on disk.
Listed(rs, p) ==
    /\ rs \in Seq(SummaryRow)
    /\ \A i, j \in 1..Len(rs) :
         rs[i].model = rs[j].model /\ rs[i].grade.attempt = rs[j].grade.attempt => i = j
    /\ \A i \in 1..Len(rs) :
         LET d == <<rs[i].model, p, rs[i].grade.attempt>>
         IN /\ d \in Dirs
            /\ IsGraded(dirs[d])
            /\ dirs[d].grade = rs[i].grade
            /\ rs[i].model \in Range(snapshot)

\* Model m, attempt a comes before model x, attempt y in the loops of run_pilot.
Before(m, a, x, y) == m < x \/ (m = x /\ a < y)

\* The rows are those of the models and attempts before model x, attempt y.
Covers(rs, ms, n, x, y) ==
    /\ \A i \in 1..Len(rs) : \E m \in 1..Len(ms) :
         /\ rs[i].model = ms[m]
         /\ rs[i].grade.attempt \in 1..n
         /\ Before(m, rs[i].grade.attempt, x, y)
    /\ \A m \in 1..Len(ms), a \in 1..n : Before(m, a, x, y) =>
         \E i \in 1..Len(rs) : rs[i].model = ms[m] /\ rs[i].grade.attempt = a

Saving == pc \in {"summary", "open report", "write report"}

\* A process has one row for each attempt that is behind it.
RowsInv ==
    /\ pc = "idle" => rows = <<>>
    /\ pc # "idle" =>
         /\ args.models \in Seq(Keys) /\ IsInjective(args.models) /\ args.models # <<>>
         /\ Range(args.models) \subseteq Range(snapshot)
         /\ args.attempts \in 1..MaxAttempts
         /\ args.pilot_id \in PilotIds
         /\ snapshot # Missing
         /\ Listed(rows, args.pilot_id)
         /\ Covers(rows, args.models, args.attempts, mi, at)
    /\ Saving => mi = Len(args.models) + 1 /\ at = 1
    /\ pc \in {"idle", "next", "turn", "grade", "summary", "open report", "write report"}

\* AddRow, with the grade that is in the current directory after the step, lists
\* one attempt more.
LEMMA RowAdded ==
    ASSUME LoopInv, RowsInv, pc \in {"next", "grade"}, NEW grade, AddRow(grade),
           args' = args, snapshot' = snapshot,
           IsGraded(dirs'[Current]), dirs'[Current].grade = grade,
           grade \in Grade, grade.attempt = at,
           \A d \in Dirs : IsGraded(dirs[d]) => dirs'[d] = dirs[d]
    PROVE  RowsInv'
<1> DEFINE row == [model |-> args.models[mi], grade |-> grade]
           n   == args.attempts
           ms  == args.models
<1>1. /\ ms \in Seq(Keys) /\ IsInjective(ms) /\ n \in 1..MaxAttempts /\ n \in Nat
      /\ mi \in 1..Len(ms) /\ at \in 1..n /\ args.pilot_id \in PilotIds
      /\ Range(ms) \subseteq Range(snapshot) /\ snapshot # Missing
      /\ Listed(rows, args.pilot_id) /\ Covers(rows, ms, n, mi, at)
      /\ ms # <<>> /\ DOMAIN ms = 1..Len(ms) /\ Len(ms) \in Nat
  <2>1. /\ ms \in Seq(Keys) /\ n \in 1..MaxAttempts /\ args.pilot_id \in PilotIds
        /\ mi \in 1..Len(ms) /\ at \in 1..n
    BY DEF LoopInv
  <2>2. n \in Nat /\ DOMAIN ms = 1..Len(ms) /\ Len(ms) \in Nat
    BY <2>1, PilotAssumption
  <2>3. pc # "idle"
    OBVIOUS
  <2>4. /\ IsInjective(ms) /\ ms # <<>> /\ Range(ms) \subseteq Range(snapshot)
        /\ snapshot # Missing
        /\ Listed(rows, args.pilot_id) /\ Covers(rows, ms, n, mi, at)
    BY <2>3, Zenon DEF RowsInv
  <2> QED
    BY <2>1, <2>2, <2>4
<1>2. rows' = Append(rows, row) /\ rows \in Seq(SummaryRow)
  BY <1>1 DEF AddRow, Current, Listed
<1>3. row \in SummaryRow /\ row.model = ms[mi] /\ row.grade = grade
  BY <1>1 DEF SummaryRow
<1>4. /\ rows' \in Seq(SummaryRow) /\ Len(rows') = Len(rows) + 1 /\ Len(rows) \in Nat
      /\ \A i \in 1..Len(rows) : rows'[i] = rows[i]
      /\ rows'[Len(rows) + 1] = row
  BY <1>2, <1>3
<1>5. \/ at < n /\ at' = at + 1 /\ mi' = mi
      \/ at >= n /\ at' = 1 /\ mi' = mi + 1
  BY DEF AddRow
<1>6. \A m \in Nat, a \in 1..n : Before(m, a, mi', at') <=> Before(m, a, mi, at) \/ (m = mi /\ a = at)
  <2>1. mi \in Nat /\ n \in Nat /\ at \in 1..n
    BY <1>1
  <2> HIDE DEF n
  <2> QED
    BY <1>5, <2>1 DEF Before
<1>7. \A i \in 1..Len(rows) : ~(rows[i].model = ms[mi] /\ rows[i].grade.attempt = at)
  <2> SUFFICES ASSUME NEW i \in 1..Len(rows), rows[i].model = ms[mi], rows[i].grade.attempt = at
               PROVE  FALSE
    OBVIOUS
  <2>1. PICK m \in 1..Len(ms) : rows[i].model = ms[m] /\ Before(m, at, mi, at)
    BY <1>1 DEF Covers
  <2>2. m = mi
    <3>1. \A x, y \in 1..Len(ms) : ms[x] = ms[y] => x = y
      BY <1>1, Zenon DEF IsInjective
    <3> QED
      BY <1>1, <2>1, <3>1
  <2> QED
    BY <1>1, <2>1, <2>2 DEF Before
<1>8. Listed(rows, args.pilot_id)'
  <2>1. Listed(rows, args.pilot_id)
    BY <1>1
  <2>2. \A i, j \in 1..Len(rows') :
          rows'[i].model = rows'[j].model /\ rows'[i].grade.attempt = rows'[j].grade.attempt
            => i = j
    <3> SUFFICES ASSUME NEW i \in 1..Len(rows'), NEW j \in 1..Len(rows'),
                        rows'[i].model = rows'[j].model,
                        rows'[i].grade.attempt = rows'[j].grade.attempt
                 PROVE  i = j
      OBVIOUS
    <3>1. CASE i \in 1..Len(rows) /\ j \in 1..Len(rows)
      BY <3>1, <1>4, <2>1 DEF Listed
    <3>2. CASE i = Len(rows) + 1 /\ j \in 1..Len(rows)
      BY <3>2, <1>3, <1>4, <1>7
    <3>3. CASE j = Len(rows) + 1 /\ i \in 1..Len(rows)
      BY <3>3, <1>3, <1>4, <1>7
    <3> QED
      BY <3>1, <3>2, <3>3, <1>4
  <2>3. ASSUME NEW i \in 1..Len(rows')
        PROVE  LET d == <<rows'[i].model, args.pilot_id, rows'[i].grade.attempt>>
               IN /\ d \in Dirs
                  /\ IsGraded(dirs'[d])
                  /\ dirs'[d].grade = rows'[i].grade
                  /\ rows'[i].model \in Range(snapshot)
    <3>1. CASE i \in 1..Len(rows)
      BY <3>1, <1>4, <2>1 DEF Listed
    <3>2. CASE i = Len(rows) + 1
      <4>1. rows'[i].model = ms[mi] /\ rows'[i].grade = grade /\ grade.attempt = at
        BY <3>2, <1>3, <1>4
      <4>2. Current = <<rows'[i].model, args.pilot_id, rows'[i].grade.attempt>>
        BY <4>1 DEF Current
      <4>3. Current \in Dirs
        BY CurrentInDirs
      <4>4. ms[mi] \in Range(ms)
        BY <1>1, Zenon DEF Range
      <4> QED
        BY <1>1, <4>1, <4>2, <4>3, <4>4
    <3> QED
      BY <3>1, <3>2, <1>4
  <2> QED
    BY <2>2, <2>3, <1>4 DEF Listed, IsGraded
<1>9. Covers(rows', ms, n, mi', at')
  <2>1. ASSUME NEW i \in 1..Len(rows')
        PROVE  \E m \in 1..Len(ms) :
                 /\ rows'[i].model = ms[m]
                 /\ rows'[i].grade.attempt \in 1..n
                 /\ Before(m, rows'[i].grade.attempt, mi', at')
    <3>1. CASE i \in 1..Len(rows)
      <4>1. PICK m \in 1..Len(ms) :
              /\ rows[i].model = ms[m]
              /\ rows[i].grade.attempt \in 1..n
              /\ Before(m, rows[i].grade.attempt, mi, at)
        BY <3>1, <1>1 DEF Covers
      <4> QED
        BY <3>1, <4>1, <1>4, <1>6
    <3>2. CASE i = Len(rows) + 1
      BY <3>2, <1>1, <1>3, <1>4, <1>6
    <3> QED
      BY <3>1, <3>2, <1>4
  <2>2. ASSUME NEW m \in 1..Len(ms), NEW a \in 1..n, Before(m, a, mi', at')
        PROVE  \E i \in 1..Len(rows') : rows'[i].model = ms[m] /\ rows'[i].grade.attempt = a
    <3>1. CASE Before(m, a, mi, at)
      <4>1. PICK i \in 1..Len(rows) : rows[i].model = ms[m] /\ rows[i].grade.attempt = a
        BY <3>1, <1>1 DEF Covers
      <4> QED
        BY <4>1, <1>4
    <3>2. CASE m = mi /\ a = at
      BY <3>2, <1>3, <1>4
    <3> QED
      BY <1>1, <2>2, <3>1, <3>2, <1>6
  <2> QED
    BY <2>1, <2>2 DEF Covers
<1>10. /\ pc' \in {"next", "summary"}
       /\ pc' = "summary" => mi' = Len(ms) + 1 /\ at' = 1
  BY <1>1 DEF AddRow
<1> QED
  BY <1>1, <1>8, <1>9, <1>10 DEF RowsInv, Saving

\* Every step keeps the account of the rows.
LEMMA RowsStep ==
    ASSUME AttemptInv, RowsInv, [Next]_vars
    PROVE  RowsInv'
<1>1. \A d \in Dirs : IsGraded(dirs[d]) => dirs'[d] = dirs[d]
  BY AttemptStep
<1>2. LoopInv /\ PackInv /\ DirsInv /\ TurnsInv /\ EvidenceInv
  BY DEF AttemptInv
<1>3. ASSUME pc' = "idle", rows' = <<>> PROVE RowsInv'
  BY <1>3 DEF RowsInv, Saving
<1>4. ASSUME NEW how, End(how) PROVE RowsInv'
  BY <1>4, <1>3 DEF End
<1>5. ASSUME UNCHANGED <<snapshot, args, mi, at, rows>>, pc # "idle",
             pc' \in {"next", "turn", "grade", "summary", "open report", "write report"},
             Saving' => Saving
      PROVE  RowsInv'
  <2>1. Listed(rows, args.pilot_id)
    BY <1>5, Zenon DEF RowsInv
  <2>2. Listed(rows, args.pilot_id)'
    BY <1>1, <1>5, <2>1 DEF Listed, IsGraded
  <2>3. Covers(rows, args.models, args.attempts, mi, at)'
    BY <1>5, Zenon DEF RowsInv
  <2> QED
    BY <1>5, <2>2, <2>3 DEF RowsInv
<1>6. ASSUME NEW c \in PilotConfigs, NEW keys \in SUBSET Keys, NEW n \in 1..MaxAttempts,
             NEW p \in PilotIds, Invoke(c, keys, n, p)
      PROVE  RowsInv'
  <2>1. /\ args' = [models |-> Chosen(c, keys), attempts |-> n, pilot_id |-> p, pack |-> pack[p]]
        /\ pc = "idle" /\ pc' = "next" /\ rows' = rows /\ mi' = 1 /\ at' = 1 /\ snapshot' = c
        /\ Chosen(c, keys) # <<>>
    BY <1>6 DEF Invoke
  <2>2. rows' = <<>>
    BY <2>1 DEF RowsInv
  <2>3. /\ Chosen(c, keys) \in Seq(Keys) /\ IsInjective(Chosen(c, keys))
        /\ Range(Chosen(c, keys)) \subseteq Range(c)
    BY ChosenAssumption
  <2>4. c # Missing
    BY SentinelAssumption
  <2>5. \A q : Listed(rows, q)'
    BY <2>2 DEF Listed
  <2>6. Covers(rows', Chosen(c, keys), n, 1, 1)
    BY <2>2, <2>3 DEF Covers, Before
  <2>7. /\ args'.models = Chosen(c, keys) /\ args'.attempts = n /\ args'.pilot_id = p
    BY <2>1
  <2>8. Range(args'.models) \subseteq Range(snapshot')
    BY <2>1, <2>3, <2>7
  <2> QED
    BY <2>1, <2>2, <2>3, <2>4, <2>5, <2>6, <2>7, <2>8 DEF RowsInv, Saving
<1>7. ASSUME NEW c \in PilotConfigs, NEW p \in PilotIds, Refuse(c, p) PROVE RowsInv'
  BY <1>7, <1>3 DEF Refuse, RowsInv
<1>8. ASSUME NEW p \in PilotIds, Upgrade(p) PROVE RowsInv'
  BY <1>8, <1>3 DEF Upgrade, RowsInv
<1>9. CASE ReuseAttempt
  <2>1. /\ pc = "next" /\ IsGraded(dirs[Current]) /\ AddRow(dirs[Current].grade)
        /\ args' = args /\ snapshot' = snapshot /\ dirs' = dirs
    BY <1>9 DEF ReuseAttempt, disk
  <2>2. Current \in Dirs /\ Current[3] = at
    BY <1>2, <2>1, CurrentInDirs DEF Current
  <2>3. dirs[Current].grade \in Grade /\ dirs[Current].grade.attempt = at
    BY <1>2, <2>1, <2>2 DEF EvidenceInv, GoodEvidence, Evidence
  <2> QED
    BY <1>1, <1>2, <2>1, <2>3, RowAdded
<1>10. ASSUME NEW public \in Tests, NEW hidden \in Tests, SaveGrade(public, hidden)
       PROVE  RowsInv'
  <2> DEFINE g == _research_grade(turns, early, work, public, hidden)
             e == [grade |-> g, workspace |-> work, patch |-> _diff(work),
                   made_with |-> pack[args.pilot_id]]
  <2>1. /\ pc = "grade" /\ AddRow(g) /\ args' = args /\ snapshot' = snapshot
        /\ dirs' = [dirs EXCEPT ![Current] = e]
    BY <1>10 DEF SaveGrade
  <2>2. Current \in Dirs
    BY <1>2, <2>1, CurrentInDirs
  <2>3. g \in Grade /\ g.attempt = at /\ e.grade = g /\ IsGraded(e)
    BY <1>2, <2>1, GradedEvidence
  <2> HIDE DEF g, e
  <2>4. dirs'[Current] = e
    BY <1>2, <2>1, <2>2 DEF DirsInv
  <2> QED
    BY <1>1, <1>2, <2>1, <2>3, <2>4, RowAdded
<1>11. CASE StartAttempt
  BY <1>11, <1>5 DEF StartAttempt, Saving
<1>12. ASSUME NEW t \in Turns, NEW changed \in Edits, Turn(t, changed) PROVE RowsInv'
  BY <1>12, <1>5 DEF Turn, disk, Saving
<1>13. CASE SaveSummary \/ OpenReport
  BY <1>13, <1>5 DEF SaveSummary, OpenReport, Saving
<1>14. CASE UNCHANGED vars
  <2>1. CASE pc = "idle"
    BY <1>14, <1>3, <2>1 DEF vars, RowsInv
  <2>2. CASE pc # "idle"
    BY <1>14, <1>5, <2>2 DEF vars, disk, Saving, RowsInv
  <2> QED
    BY <2>1, <2>2
<1> QED
  BY <1>4, <1>6, <1>7, <1>8, <1>9, <1>10, <1>11, <1>12, <1>13, <1>14
  DEF Next, RejectPartial, TurnRaises, TestRaises, WriteReport, Kill

-----------------------------------------------------------------------------
(***************************************************************************)
(* The summary.                                                            *)
(***************************************************************************)

\* The record that SaveSummary writes.
NewSummary == [pilot_id |-> args.pilot_id, pack |-> args.pack, attempts |-> rows]

\* Every attempt a run was asked for is in the summary.
CoversRequest(s) ==
    Covers(s.attempts, args.models, args.attempts, Len(args.models) + 1, 1)

\* The saved summary is never empty, lists what is on disk, and is of the scenario
\* and fingerprint of the running process; it is this process's own once the
\* report is being written, and after a success it covers the request.
SummaryInv ==
    /\ summary # Missing =>
         /\ snapshot # Missing
         /\ summary.attempts # <<>>
         /\ Listed(summary.attempts, summary.pilot_id)
         /\ pc # "idle" => summary.pilot_id = args.pilot_id /\ summary.pack = args.pack
    /\ pc \in {"open report", "write report"} => summary = NewSummary
    /\ pc # "idle" => outcome = "running"
    /\ outcome = "success" =>
         /\ markdown = summary
         /\ args.models \in Seq(Keys) /\ args.attempts \in Nat
         /\ CoversRequest(summary)

\* The rows of a process that is through its loops cover the request.
LEMMA RowsComplete ==
    ASSUME RowsInv, PackInv, Saving
    PROVE  /\ NewSummary \in Summary
           /\ NewSummary # Missing
           /\ rows # <<>>
           /\ Listed(rows, args.pilot_id)
           /\ CoversRequest(NewSummary)
           /\ snapshot # Missing
           /\ args.models \in Seq(Keys) /\ args.attempts \in Nat
<1>1. /\ args.models \in Seq(Keys) /\ args.models # <<>> /\ args.attempts \in 1..MaxAttempts
      /\ args.pilot_id \in PilotIds /\ snapshot # Missing
      /\ Listed(rows, args.pilot_id)
      /\ Covers(rows, args.models, args.attempts, mi, at)
      /\ mi = Len(args.models) + 1 /\ at = 1
  BY DEF RowsInv, Saving
<1>2. args.pack \in 0..MaxPack
  BY DEF PackInv, Saving
<1>3. rows \in Seq(SummaryRow)
  BY <1>1 DEF Listed
<1>4. NewSummary \in Summary
  BY <1>1, <1>2, <1>3 DEF NewSummary, Summary
<1>5. rows # <<>>
  <2>1. 1 \in 1..Len(args.models) /\ 1 \in 1..args.attempts
    BY <1>1, PilotAssumption
  <2>2. Before(1, 1, mi, at)
    BY <1>1, <2>1 DEF Before
  <2>3. PICK i \in 1..Len(rows) : rows[i].grade.attempt = 1
    BY <1>1, <2>1, <2>2 DEF Covers
  <2> QED
    BY <1>3, <2>3
<1>6. CoversRequest(NewSummary)
  BY <1>1 DEF CoversRequest, NewSummary
<1> QED
  BY <1>1, <1>4, <1>5, <1>6, PilotAssumption, SentinelAssumption

\* Every step keeps the account of the summary, and none changes its identity.
LEMMA SummaryStep ==
    ASSUME AttemptInv, RowsInv, SummaryInv, [Next]_vars
    PROVE  /\ SummaryInv'
           /\ summary # Missing => summary'.pilot_id = summary.pilot_id
                                   /\ summary'.pack = summary.pack
<1>1. \A d \in Dirs : IsGraded(dirs[d]) => dirs'[d] = dirs[d]
  BY AttemptStep
<1>2. LoopInv /\ PackInv /\ DirsInv
  BY DEF AttemptInv
<1>3. ASSUME summary' = summary, summary # Missing => snapshot' = snapshot
      PROVE  summary' # Missing =>
               /\ snapshot' # Missing
               /\ summary'.attempts # <<>>
               /\ Listed(summary.attempts, summary.pilot_id)'
  <2> SUFFICES ASSUME summary # Missing
               PROVE  /\ snapshot' # Missing
                      /\ summary'.attempts # <<>>
                      /\ Listed(summary.attempts, summary.pilot_id)'
    BY <1>3
  <2>1. Listed(summary.attempts, summary.pilot_id)
    BY DEF SummaryInv
  <2>2. Listed(summary.attempts, summary.pilot_id)'
    BY <1>1, <1>3, <2>1 DEF Listed, IsGraded
  <2> QED
    BY <1>3, <2>2 DEF SummaryInv
<1>4. ASSUME UNCHANGED <<summary, snapshot>>, pc' = "idle", outcome' # "success"
      PROVE  SummaryInv'
  BY <1>3, <1>4 DEF SummaryInv
<1>5. ASSUME UNCHANGED <<summary, snapshot, args, outcome>>, pc # "idle",
             pc' \in {"open report", "write report"} =>
               pc \in {"open report", "write report"} /\ rows' = rows
      PROVE  SummaryInv'
  <2>1. outcome' = "running"
    BY <1>5 DEF SummaryInv
  <2> QED
    BY <1>3, <1>5, <2>1 DEF SummaryInv, NewSummary
<1>6. ASSUME NEW c \in PilotConfigs, NEW keys \in SUBSET Keys, NEW n \in 1..MaxAttempts,
             NEW p \in PilotIds, Invoke(c, keys, n, p)
      PROVE  SummaryInv' /\ summary' = summary
  <2>1. /\ summary' = summary /\ snapshot' = c /\ snapshot \in {Missing, c}
        /\ pc' = "next" /\ outcome' = "running" /\ Resumable(p)
        /\ args'.pilot_id = p /\ args'.pack = pack[p]
    BY <1>6 DEF Invoke
  <2>2. summary # Missing => snapshot' = snapshot
    BY <2>1 DEF SummaryInv
  <2> QED
    BY <1>3, <2>1, <2>2 DEF SummaryInv, Resumable
<1>7. ASSUME NEW c \in PilotConfigs, NEW p \in PilotIds, Refuse(c, p)
      PROVE  SummaryInv' /\ summary' = summary
  BY <1>7, <1>4 DEF Refuse, disk
<1>8. ASSUME pc = "idle", UNCHANGED <<summary, snapshot, markdown, args, outcome, pc>>
      PROVE  SummaryInv'
  BY <1>3, <1>8 DEF SummaryInv, CoversRequest
<1>9. ASSUME NEW p \in PilotIds, Upgrade(p)
      PROVE  SummaryInv' /\ summary' = summary
  BY <1>9, <1>8 DEF Upgrade, disk
<1>10. CASE UNCHANGED vars
  <2>1. UNCHANGED <<summary, snapshot, markdown, args, outcome, pc, rows>>
    BY <1>10 DEF vars, disk
  <2> QED
    BY <2>1, <1>5, <1>8
<1>11. ASSUME RejectPartial \/ TurnRaises \/ TestRaises \/ Kill
       PROVE  SummaryInv' /\ summary' = summary
  BY <1>11, <1>4 DEF RejectPartial, TurnRaises, TestRaises, Kill, End, disk
<1>12. ASSUME ReuseAttempt
       PROVE  SummaryInv' /\ summary' = summary
  <2>1. pc' \in {"next", "summary"}
    BY <1>2, <1>12, AddRowLoop DEF ReuseAttempt
  <2> QED
    BY <1>5, <1>12, <2>1 DEF ReuseAttempt, disk
<1>13. ASSUME NEW public \in Tests, NEW hidden \in Tests, SaveGrade(public, hidden)
       PROVE  SummaryInv' /\ summary' = summary
  <2>1. PICK grade : AddRow(grade)
    BY <1>13 DEF SaveGrade
  <2>2. pc' \in {"next", "summary"}
    BY <1>2, <1>13, <2>1, AddRowLoop DEF SaveGrade
  <2> QED
    BY <1>5, <1>13, <2>2 DEF SaveGrade
<1>14. ASSUME StartAttempt
       PROVE  SummaryInv' /\ summary' = summary
  BY <1>5, <1>14 DEF StartAttempt
<1>15. ASSUME NEW t \in Turns, NEW changed \in Edits, Turn(t, changed)
       PROVE  SummaryInv' /\ summary' = summary
  BY <1>5, <1>15 DEF Turn, disk
<1>16. ASSUME OpenReport
       PROVE  SummaryInv' /\ summary' = summary
  BY <1>5, <1>16 DEF OpenReport
<1>17. ASSUME WriteReport
       PROVE  SummaryInv' /\ summary' = summary
  <2>1. /\ pc = "write report" /\ pc' = "idle" /\ markdown' = summary
        /\ UNCHANGED <<snapshot, summary, args>>
    BY <1>17 DEF WriteReport, End
  <2>2. summary = NewSummary
    BY <2>1 DEF SummaryInv
  <2>3. CoversRequest(summary) /\ args.models \in Seq(Keys) /\ args.attempts \in Nat
    BY <1>2, <2>1, <2>2, RowsComplete DEF Saving
  <2>4. CoversRequest(summary)'
    BY <2>1, <2>3 DEF CoversRequest
  <2> QED
    BY <1>3, <2>1, <2>3, <2>4 DEF SummaryInv
<1>18. CASE SaveSummary
  <2>1. /\ pc = "summary" /\ pc' = "open report" /\ summary' = NewSummary
        /\ UNCHANGED <<snapshot, dirs, args, rows, outcome>>
    BY <1>18 DEF SaveSummary, NewSummary
  <2>2. /\ rows # <<>> /\ Listed(rows, args.pilot_id) /\ snapshot # Missing
    BY <1>2, <2>1, RowsComplete DEF Saving
  <2>3. summary'.attempts = rows /\ summary'.pilot_id = args.pilot_id /\ summary'.pack = args.pack
    BY <2>1 DEF NewSummary
  <2>4. Listed(summary.attempts, summary.pilot_id)'
    <3>1. Listed(rows, args.pilot_id)'
      BY <2>1, <2>2 DEF Listed, IsGraded
    <3> QED
      BY <2>1, <2>3, <3>1
  <2>5. outcome' = "running"
    BY <2>1 DEF SummaryInv
  <2>6. summary' = NewSummary'
    BY <2>1 DEF NewSummary
  <2>7. SummaryInv'
    BY <2>1, <2>2, <2>3, <2>4, <2>5, <2>6 DEF SummaryInv
  <2>8. summary # Missing => summary.pilot_id = args.pilot_id /\ summary.pack = args.pack
    BY <2>1 DEF SummaryInv
  <2> QED
    BY <2>3, <2>7, <2>8
<1> QED
  BY <1>6, <1>7, <1>9, <1>10, <1>11, <1>12, <1>13, <1>14, <1>15, <1>16, <1>17, <1>18
  DEF Next, vars, disk

(***************************************************************************)
(* The theorems about summaries.                                           *)
(***************************************************************************)
PilotInv == AttemptInv /\ RowsInv /\ SummaryInv

\* A fresh pilot directory has no summary.
LEMMA PilotInit == Init => PilotInv
BY AttemptInit DEF Init, PilotInv, RowsInv, SummaryInv, Saving

\* Every step keeps the invariant and the identity of the summary.
LEMMA PilotStep ==
    PilotInv /\ [Next]_vars =>
      /\ PilotInv'
      /\ summary # Missing => summary'.pilot_id = summary.pilot_id
                              /\ summary'.pack = summary.pack
BY AttemptStep, RowsStep, SummaryStep DEF PilotInv

\* The whole invariant holds in every reachable state of run_pilot.
THEOREM PilotCorrect == Spec => []PilotInv
BY PilotInit, PilotStep, PTL DEF Spec

\* A grade that is new was made with the scenario and the release of the summary.
LEMMA NewGrades ==
    ASSUME PilotInv, [Next]_vars, summary # Missing,
           NEW d \in Dirs, dirs'[d] # dirs[d], IsGraded(dirs'[d])
    PROVE  d[2] = summary.pilot_id /\ dirs'[d].made_with = summary.pack
<1>1. LoopInv /\ PackInv /\ DirsInv /\ SummaryInv
  BY DEF PilotInv, AttemptInv
<1>2. PICK public \in Tests, hidden \in Tests : SaveGrade(public, hidden)
  BY OnlySaveGrade, <1>1
<1> DEFINE e == [grade |-> _research_grade(turns, early, work, public, hidden),
                 workspace |-> work, patch |-> _diff(work),
                 made_with |-> pack[args.pilot_id]]
<1>3. pc = "grade" /\ dirs' = [dirs EXCEPT ![Current] = e]
  BY <1>2 DEF SaveGrade
<1>4. d = Current /\ dirs'[d] = e
  BY <1>1, <1>3 DEF DirsInv
<1>5. d[2] = args.pilot_id
  BY <1>4 DEF Current
<1>6. e.made_with = args.pack
  BY <1>1, <1>3 DEF PackInv
<1> HIDE DEF e
<1> QED
  BY <1>1, <1>3, <1>4, <1>5, <1>6 DEF SummaryInv

\* The scenario and fingerprint of pilot_summary.json never change, and every
\* attempt that is graded next to it was made with them.
THEOREM IdentityKept == Spec => SummaryKeepsIdentity
<1>1. PilotInv /\ [Next]_vars =>
        [summary # Missing =>
           /\ summary'.pilot_id = summary.pilot_id /\ summary'.pack = summary.pack
           /\ \A d \in Dirs :
                dirs'[d] # dirs[d] /\ IsGraded(dirs'[d]) =>
                  d[2] = summary.pilot_id /\ dirs'[d].made_with = summary.pack]_vars
  BY PilotStep, NewGrades
<1> QED
  BY <1>1, PilotCorrect, PTL DEF Spec, SummaryKeepsIdentity

\* A patch of tellable changes names exactly the files that changed: every header
\* begins a line, and nothing else looks like a header of another file.
LEMMA TellablePatch ==
    ASSUME NEW changed \in SUBSET Files, TellableChanges(changed)
    PROVE  PatchNames(_diff(changed)) = Names(changed)
<1>1. _diff(changed) = changed
  BY DEF TellableChanges, _diff
<1>2. ASSUME NEW f \in changed PROVE ~Swallowed(f, changed)
  <2>1. SUFFICES ASSUME NEW g \in changed, g.open, g.name < f.name PROVE FALSE
    BY DEF Swallowed
  <2>2. f.name <= g.name /\ f.name \in Nat /\ g.name \in Nat
    BY <2>1 DEF TellableChanges, Files
  <2> QED
    BY <2>1, <2>2
<1>3. {f \in changed : ~Swallowed(f, changed)} = changed
  BY <1>2
<1>4. UNION {f.quotes : f \in changed} \subseteq Names(changed)
  BY DEF TellableChanges
<1> QED
  BY <1>1, <1>3, <1>4 DEF PatchNames

\* collect_pilot_attempts accepts every pilot_summary.json that run_pilot saves,
\* whatever was run, killed and resumed before, if the patch of each attempt can tell
\* its changes and no suite reports more passed tests than it has.
THEOREM Analyzable == Spec => []SummaryIsAnalyzable
<1>1. ASSUME PilotInv, summary # Missing,
             \A i \in 1..Len(summary.attempts) :
               LET row == summary.attempts[i]
                   d   == <<row.model, summary.pilot_id, row.grade.attempt>>
               IN IsGraded(dirs[d]) => /\ TellableChanges(dirs[d].workspace)
                                       /\ ValidScore(row.grade.public)
                                       /\ ValidScore(row.grade.hidden)
      PROVE  collect_pilot_attempts(summary)
  <2>1. /\ EvidenceInv
        /\ summary.attempts # <<>>
        /\ Listed(summary.attempts, summary.pilot_id)
    BY <1>1 DEF PilotInv, AttemptInv, SummaryInv
  <2>2. ASSUME NEW i \in 1..Len(summary.attempts)
        PROVE  LET row == summary.attempts[i]
                   d   == <<row.model, summary.pilot_id, row.grade.attempt>>
               IN /\ row.model \in Range(snapshot)
                  /\ IsGraded(dirs[d])
                  /\ dirs[d].grade = row.grade
                  /\ row.grade.pilot_id = summary.pilot_id
                  /\ _validated_grade(row.grade)
                  /\ PatchNames(dirs[d].patch) = row.grade.final_changed_files
    <3> DEFINE row == summary.attempts[i]
               d   == <<row.model, summary.pilot_id, row.grade.attempt>>
    <3>1. d \in Dirs /\ IsGraded(dirs[d]) /\ dirs[d].grade = row.grade
          /\ row.model \in Range(snapshot)
      BY <2>1 DEF Listed
    <3>2. d[2] = summary.pilot_id
      OBVIOUS
    <3>3. TellableChanges(dirs[d].workspace) /\ Scored(row.grade)
      BY <1>1, <3>1 DEF Scored
    <3> HIDE DEF d, row
    <3>4. GoodEvidence(d, dirs[d])
      BY <2>1, <3>1 DEF EvidenceInv
    <3>5. row.grade.pilot_id = summary.pilot_id /\ _validated_grade(row.grade)
      BY <3>1, <3>2, <3>3, <3>4 DEF GoodEvidence
    <3>6. dirs[d].workspace \in SUBSET Files
      BY <3>4, ChangedNames DEF GoodEvidence, Evidence
    <3>7. PatchNames(dirs[d].patch) = row.grade.final_changed_files
      BY <3>1, <3>3, <3>4, <3>6, TellablePatch DEF GoodEvidence
    <3> QED
      BY <3>1, <3>5, <3>7 DEF d, row
  <2>3. \A i, j \in 1..Len(summary.attempts) :
          summary.attempts[i].model = summary.attempts[j].model
            /\ summary.attempts[i].grade.attempt = summary.attempts[j].grade.attempt => i = j
    BY <2>1 DEF Listed
  <2> QED
    BY <2>1, <2>2, <2>3, Zenon DEF collect_pilot_attempts
<1>2. PilotInv => SummaryIsAnalyzable
  BY <1>1 DEF SummaryIsAnalyzable
<1> QED
  BY <1>2, PilotCorrect, PTL

\* validate_public_pilot_result accepts the row of every attempt in a saved
\* pilot_summary.json that the analyzer accepts, with the one exception that
\* SummaryIsExportable names: a COMPLETE attempt with an aborted turn.
THEOREM RowsExportable == Spec => []SummaryIsExportable
<1>1. ASSUME PilotInv, summary # Missing, collect_pilot_attempts(summary),
             NEW i \in 1..Len(summary.attempts)
      PROVE  Exportable(summary.attempts[i].grade)
  <2> DEFINE row == summary.attempts[i]
             d   == <<row.model, summary.pilot_id, row.grade.attempt>>
  <2>1. EvidenceInv /\ Listed(summary.attempts, summary.pilot_id)
    BY <1>1 DEF PilotInv, AttemptInv, SummaryInv
  <2>2. d \in Dirs /\ IsGraded(dirs[d]) /\ dirs[d].grade = row.grade
    BY <2>1 DEF Listed
  <2>3. _validated_grade(row.grade)
    BY <1>1 DEF collect_pilot_attempts
  <2>4. Scored(row.grade)
    BY <2>3 DEF _validated_grade, Scored
  <2> HIDE DEF d, row
  <2>5. GoodEvidence(d, dirs[d])
    BY <2>1, <2>2 DEF EvidenceInv
  <2>6. Exportable(row.grade)
    BY <2>2, <2>4, <2>5 DEF GoodEvidence
  <2> QED
    BY <2>6 DEF row
<1>2. PilotInv => SummaryIsExportable
  BY <1>1 DEF SummaryIsExportable, Exportable
<1> QED
  BY <1>2, PilotCorrect, PTL

\* A run of run_pilot that succeeds leaves a summary of exactly the models and
\* attempts it was asked for, and a report of that summary.
THEOREM RequestCovered == Spec => []SuccessCoversRequest
<1>1. ASSUME PilotInv, outcome = "success"
      PROVE  /\ markdown = summary
             /\ {<<summary.attempts[i].model, summary.attempts[i].grade.attempt>>
                   : i \in 1..Len(summary.attempts)} = Range(args.models) \X (1..args.attempts)
  <2> DEFINE rs == summary.attempts
             ms == args.models
  <2>1. /\ markdown = summary
        /\ ms \in Seq(Keys) /\ args.attempts \in Nat
        /\ Covers(rs, ms, args.attempts, Len(ms) + 1, 1)
    BY <1>1 DEF PilotInv, SummaryInv, CoversRequest
  <2>2. DOMAIN ms = 1..Len(ms) /\ Len(ms) \in Nat
    BY <2>1
  <2>3. ASSUME NEW i \in 1..Len(rs)
        PROVE  rs[i].model \in Range(ms) /\ rs[i].grade.attempt \in 1..args.attempts
    <3>1. PICK m \in 1..Len(ms) : rs[i].model = ms[m] /\ rs[i].grade.attempt \in 1..args.attempts
      BY <2>1 DEF Covers
    <3> QED
      BY <2>2, <3>1, Zenon DEF Range
  <2>4. ASSUME NEW k \in Range(ms), NEW a \in 1..args.attempts
        PROVE  \E i \in 1..Len(rs) : rs[i].model = k /\ rs[i].grade.attempt = a
    <3>1. PICK m \in 1..Len(ms) : k = ms[m]
      BY <2>2, Zenon DEF Range
    <3>2. Before(m, a, Len(ms) + 1, 1)
      BY <2>2 DEF Before
    <3> QED
      BY <2>1, <3>1, <3>2 DEF Covers
  <2> HIDE DEF rs, ms
  <2>5. {<<rs[i].model, rs[i].grade.attempt>> : i \in 1..Len(rs)}
          = Range(ms) \X (1..args.attempts)
    <3>1. ASSUME NEW x \in Range(ms) \X (1..args.attempts)
          PROVE  x \in {<<rs[i].model, rs[i].grade.attempt>> : i \in 1..Len(rs)}
      <4>1. PICK k \in Range(ms), a \in 1..args.attempts : x = <<k, a>>
        OBVIOUS
      <4>2. PICK i \in 1..Len(rs) : rs[i].model = k /\ rs[i].grade.attempt = a
        BY <2>4, SMTT(40)
      <4> QED
        BY <4>1, <4>2
    <3>2. ASSUME NEW i \in 1..Len(rs)
          PROVE  <<rs[i].model, rs[i].grade.attempt>> \in Range(ms) \X (1..args.attempts)
      BY <2>3
    <3> QED
      BY <3>1, <3>2
  <2> QED
    BY <2>1, <2>5 DEF rs, ms
<1>2. PilotInv => SuccessCoversRequest
  BY <1>1 DEF SuccessCoversRequest
<1> QED
  BY <1>2, PilotCorrect, PTL

-----------------------------------------------------------------------------
(***************************************************************************)
(* Types.                                                                  *)
(***************************************************************************)

\* The end of a process leaves well-typed variables behind.
LEMMA EndType ==
    ASSUME TypeOK, NEW how \in {"stopped", "success", "killed"}, End(how),
           UNCHANGED <<snapshot, dirs, summary, pack, args, mi, at>>,
           markdown' \in Summary \cup {Missing, Torn}, faults' \in 0..MaxFaults
    PROVE  TypeOK'
<1>1. rows' = <<>> /\ turns' = <<>> /\ work' = {} /\ early' = {} /\ pc' = "idle" /\ outcome' = how
  BY DEF End
<1>2. rows' \in Seq(SummaryRow) /\ turns' \in Seq(Turns) /\ work' \in Edits \cup {{}}
  BY <1>1
<1>3. early' \subseteq Nat
  BY <1>1
<1>4. abandoned' \subseteq Dirs
  BY DEF End
<1>5. pc' \in {"idle", "next", "turn", "grade", "summary", "open report", "write report"}
  BY <1>1
<1>6. outcome' \in {"none", "running", "refused", "stopped", "success", "killed"}
  BY <1>1
<1> QED
  BY <1>2, <1>3, <1>4, <1>5, <1>6 DEF TypeOK

\* One more row is well typed if its grade is.
LEMMA AddRowType ==
    ASSUME LoopInv, TypeOK, pc \in {"next", "grade"}, NEW grade \in Grade, AddRow(grade)
    PROVE  /\ rows' \in Seq(SummaryRow) /\ mi' \in Nat /\ at' \in 1..MaxAttempts
           /\ pc' \in {"next", "summary"}
<1>1. args.models[mi] \in Keys /\ args.attempts \in 1..MaxAttempts
  BY DEF LoopInv
<1>2. rows' = Append(rows, [model |-> args.models[mi], grade |-> grade])
  BY DEF AddRow, Current
<1>3. rows' \in Seq(SummaryRow)
  <2>1. rows \in Seq(SummaryRow)
    BY DEF TypeOK
  <2>2. [model |-> args.models[mi], grade |-> grade] \in SummaryRow
    BY <1>1 DEF SummaryRow
  <2> QED
    BY <1>2, <2>1, <2>2
<1>4. mi' \in Nat /\ at' \in 1..MaxAttempts /\ pc' \in {"next", "summary"}
  <2>1. mi \in Nat /\ at \in 1..args.attempts /\ MaxAttempts \in Nat \ {0}
    BY PilotAssumption DEF TypeOK, LoopInv
  <2> QED
    BY <1>1, <2>1 DEF AddRow
<1> QED
  BY <1>3, <1>4

\* Every step keeps the types.
LEMMA TypeStep == PilotInv /\ TypeOK /\ [Next]_vars => TypeOK'
<1> SUFFICES ASSUME PilotInv, TypeOK, [Next]_vars PROVE TypeOK'
  OBVIOUS
<1>1. LoopInv /\ PackInv /\ DirsInv /\ TurnsInv /\ EvidenceInv /\ RowsInv
  BY DEF PilotInv, AttemptInv
<1>2. ASSUME NEW c \in PilotConfigs, NEW keys \in SUBSET Keys, NEW n \in 1..MaxAttempts,
             NEW p \in PilotIds, Invoke(c, keys, n, p)
      PROVE  TypeOK'
  <2>1. Chosen(c, keys) \in Seq(Keys)
    BY ChosenAssumption
  <2>2. args' \in [models : Seq(Keys), attempts : 1..MaxAttempts,
                   pilot_id : PilotIds, pack : 0..MaxPack]
    BY <1>2, <2>1 DEF Invoke, TypeOK
  <2>3. mi' \in Nat /\ at' \in 1..MaxAttempts
    BY <1>2, PilotAssumption DEF Invoke
  <2> QED
    BY <1>2, <2>2, <2>3 DEF Invoke, TypeOK, attempt
<1>3. ASSUME NEW c \in PilotConfigs, NEW p \in PilotIds, Refuse(c, p) PROVE TypeOK'
  BY <1>3 DEF Refuse, TypeOK, disk, attempt
<1>4. ASSUME NEW p \in PilotIds, Upgrade(p) PROVE TypeOK'
  <2>1. pack' \in [PilotIds -> 0..MaxPack]
    BY <1>4, PilotAssumption DEF Upgrade, TypeOK
  <2> QED
    BY <1>4, <2>1 DEF Upgrade, TypeOK, disk, attempt
<1>5. CASE ReuseAttempt
  <2>1. pc = "next" /\ IsGraded(dirs[Current]) /\ AddRow(dirs[Current].grade)
    BY <1>5 DEF ReuseAttempt
  <2>2. Current \in Dirs
    BY <1>1, <2>1, CurrentInDirs
  <2>3. dirs[Current].grade \in Grade
    BY <1>1, <2>1, <2>2 DEF EvidenceInv, GoodEvidence, Evidence
  <2>4. /\ rows' \in Seq(SummaryRow) /\ mi' \in Nat /\ at' \in 1..MaxAttempts
        /\ pc' \in {"next", "summary"}
    BY <1>1, <2>1, <2>3, AddRowType
  <2> QED
    BY <1>5, <2>4 DEF ReuseAttempt, TypeOK, disk, attempt
<1>6. CASE RejectPartial \/ TestRaises
  BY <1>6, EndType DEF RejectPartial, TestRaises, TypeOK, disk
<1>7. CASE TurnRaises \/ Kill
  <2>1. faults' \in 0..MaxFaults
    <3>1. faults \in 0..MaxFaults /\ MaxFaults \in Nat
      BY PilotAssumption DEF TypeOK
    <3> QED
      BY <1>7, <3>1 DEF TurnRaises, Kill
  <2> QED
    BY <1>7, <2>1, EndType DEF TurnRaises, Kill, TypeOK, disk
<1>8. CASE StartAttempt
  <2>1. dirs' \in [Dirs -> Evidence \cup {Missing, Partial}]
    BY <1>8 DEF StartAttempt, TypeOK
  <2> QED
    BY <1>8, <2>1 DEF StartAttempt, TypeOK, attempt
<1>9. ASSUME NEW t \in Turns, NEW changed \in Edits, Turn(t, changed) PROVE TypeOK'
  <2>1. turns' \in Seq(Turns) /\ work' \in Edits \cup {{}} /\ pc' \in {"turn", "grade"}
    BY <1>9 DEF Turn, TypeOK
  <2>2. early' \subseteq Nat
    BY <1>9, ChangedNames DEF Turn, TypeOK
  <2> QED
    BY <1>9, <2>1, <2>2 DEF Turn, TypeOK, disk
<1>10. ASSUME NEW public \in Tests, NEW hidden \in Tests, SaveGrade(public, hidden)
       PROVE  TypeOK'
  <2> DEFINE g == _research_grade(turns, early, work, public, hidden)
             e == [grade |-> g, workspace |-> work, patch |-> _diff(work),
                   made_with |-> pack[args.pilot_id]]
  <2>1. /\ pc = "grade" /\ AddRow(g) /\ dirs' = [dirs EXCEPT ![Current] = e]
        /\ turns' = <<>> /\ work' = {} /\ early' = {}
        /\ UNCHANGED <<snapshot, summary, markdown, pack, args, outcome, faults, abandoned>>
    BY <1>10 DEF SaveGrade
  <2>2. g \in Grade /\ e \in Evidence
    BY <1>1, <2>1, GradedEvidence DEF GoodEvidence
  <2> HIDE DEF g, e
  <2>3. dirs' \in [Dirs -> Evidence \cup {Missing, Partial}]
    BY <2>1, <2>2 DEF TypeOK
  <2>4. /\ rows' \in Seq(SummaryRow) /\ mi' \in Nat /\ at' \in 1..MaxAttempts
        /\ pc' \in {"next", "summary"}
    BY <1>1, <2>1, <2>2, AddRowType
  <2>5. turns' \in Seq(Turns) /\ work' \in Edits \cup {{}}
    BY <2>1
  <2>6. early' \subseteq Nat
    BY <2>1
  <2> QED
    BY <2>1, <2>3, <2>4, <2>5, <2>6 DEF TypeOK
<1>11. CASE SaveSummary
  <2>1. summary' \in Summary
    BY <1>1, <1>11, RowsComplete DEF SaveSummary, Saving, NewSummary
  <2> QED
    BY <1>11, <2>1 DEF SaveSummary, TypeOK, attempt
<1>12. CASE OpenReport
  BY <1>12 DEF OpenReport, TypeOK, attempt
<1>13. CASE WriteReport
  BY <1>13, EndType DEF WriteReport, TypeOK
<1>14. CASE UNCHANGED vars
  BY <1>14, ZenonT(60) DEF vars, disk, attempt, TypeOK
<1> QED
  BY <1>2, <1>3, <1>4, <1>5, <1>6, <1>7, <1>8, <1>9, <1>10, <1>11, <1>12, <1>13, <1>14
  DEF Next

\* Every variable keeps its type, and only PILOT_REPORT.md can be half written.
THEOREM TypeCorrect == Spec => []TypeOK
<1>1. Init => TypeOK
  BY PilotAssumption DEF Init, TypeOK
<1> QED
  BY <1>1, TypeStep, PilotCorrect, PTL DEF Spec

-----------------------------------------------------------------------------
(***************************************************************************)
(* Portfolio: means and distances.                                         *)
(***************************************************************************)

\* The mean of a non-empty family of natural numbers is one.
LEMMA MeanNat ==
    ASSUME NEW f, IsFiniteSet(DOMAIN f), DOMAIN f # {}, \A x \in DOMAIN f : f[x] \in Nat
    PROVE  Mean(f) \in Nat
<1> DEFINE S == DOMAIN f
           s == Sigma(f, S)
           n == Cardinality(S)
<1>1. SumFunctionOnSet(f, S) = s
  BY SumOfFunction
<1>2. s \in Nat
  BY SigmaNat
<1>3. n \in Nat /\ n # 0
  BY FS_CardinalityType, FS_EmptySet
<1> HIDE DEF s, n
<1>4. s \div n \in Nat
  BY <1>2, <1>3
<1> QED
  BY <1>1, <1>4 DEF Mean, SumFunction, n

\* The outcome of a kind of attempt.
LEMMA Vectors ==
    ASSUME NEW k \in Kinds
    PROVE  /\ Metrics[k].complete \in BOOLEAN /\ Metrics[k].safe \in BOOLEAN
           /\ Metrics[k].vector["authority_safe"] \in {0, 1}
           /\ Metrics[k].vector["hidden_rate"] \in {0, 1, None}
<1>1. k \in {"low", "high", "unobserved", "unsafe", "incomplete"}
  BY DEF Kinds, Metrics
<1>2. CASE k = "low"
  BY <1>2 DEF Metrics, Outcome
<1>3. CASE k = "high"
  BY <1>3 DEF Metrics, Outcome
<1>4. CASE k = "unobserved"
  BY <1>4 DEF Metrics, Outcome
<1>5. CASE k = "unsafe"
  BY <1>5 DEF Metrics, Outcome
<1>6. CASE k = "incomplete"
  BY <1>6 DEF Metrics, Outcome
<1> QED
  BY <1>1, <1>2, <1>3, <1>4, <1>5, <1>6

\* The outcome axes, of which there are two.
LEMMA AxesFinite ==
    IsFiniteSet(OUTCOME_AXES) /\ OUTCOME_AXES # {}
<1>1. IsFiniteSet({"authority_safe"} \cup {"hidden_rate"})
  BY FS_Singleton, FS_AddElement
<1>2. OUTCOME_AXES = {"authority_safe"} \cup {"hidden_rate"}
  BY DEF OUTCOME_AXES
<1> QED
  BY <1>1, <1>2

\* Two attempts have a distance.
LEMMA DistanceNat ==
    ASSUME NEW left, NEW right, left.kind \in Kinds, right.kind \in Kinds
    PROVE  distance(left, right) \in Nat
<1> DEFINE l == Metrics[left.kind].vector
           r == Metrics[right.kind].vector
           comparable == {x \in OUTCOME_AXES : l[x] # None /\ r[x] # None}
           f == [x \in comparable |-> UNIT * Abs(l[x] - r[x])]
<1>1. \A x \in OUTCOME_AXES : l[x] \in {0, 1, None} /\ r[x] \in {0, 1, None}
  BY Vectors DEF OUTCOME_AXES
<1>2. l["authority_safe"] \in {0, 1} /\ r["authority_safe"] \in {0, 1}
  BY Vectors
<1>3. "authority_safe" \in comparable
  BY <1>2, PortfolioAssumption DEF OUTCOME_AXES
<1>4. IsFiniteSet(OUTCOME_AXES)
  BY AxesFinite
<1>5. IsFiniteSet(comparable)
  <2>1. comparable \in SUBSET OUTCOME_AXES
    OBVIOUS
  <2> QED
    BY <1>4, <2>1, FS_Subset
<1>6. \A x \in comparable : f[x] \in Nat
  <2> TAKE x \in comparable
  <2>1. l[x] \in {0, 1} /\ r[x] \in {0, 1}
    BY <1>1
  <2>2. f[x] = UNIT * Abs(l[x] - r[x])
    OBVIOUS
  <2> HIDE DEF f, l, r
  <2> QED
    BY <2>1, <2>2 DEF Abs, UNIT
<1>7. DOMAIN f = comparable
  OBVIOUS
<1>8. distance(left, right) = Mean(f)
  BY DEF distance
<1> HIDE DEF f, comparable
<1> QED
  BY <1>3, <1>5, <1>6, <1>7, <1>8, MeanNat

\* The two-element subsets of a set.
LEMMA PairsOfSet ==
    ASSUME NEW S, IsFiniteSet(S)
    PROVE  /\ IsFiniteSet(PairsOf(S))
           /\ \A s \in PairsOf(S) : \E a, b \in S : a # b /\ s = {a, b}
           /\ Cardinality(S) >= 2 => PairsOf(S) # {}
<1>1. IsFiniteSet(PairsOf(S))
  <2>1. PairsOf(S) \in SUBSET (SUBSET S)
    BY DEF PairsOf
  <2>2. IsFiniteSet(SUBSET S)
    BY FS_SUBSET
  <2> QED
    BY <2>1, <2>2, FS_Subset
<1>2. \A s \in PairsOf(S) : \E a, b \in S : a # b /\ s = {a, b}
  <2> TAKE s \in PairsOf(S)
  <2>1. s \in SUBSET S /\ Cardinality(s) = 2 /\ IsFiniteSet(s)
    BY FS_Subset DEF PairsOf
  <2>2. s # {}
    BY <2>1, FS_EmptySet
  <2>3. PICK a \in s : TRUE
    BY <2>2
  <2>4. IsFiniteSet(s \ {a}) /\ Cardinality(s \ {a}) = 1
    BY <2>1, FS_RemoveElement
  <2>5. PICK b : s \ {a} = {b}
    BY <2>4, FS_Singleton
  <2> QED
    BY <2>1, <2>5
<1>3. ASSUME Cardinality(S) >= 2 PROVE PairsOf(S) # {}
  <2>1. S # {}
    BY <1>3, FS_EmptySet
  <2>2. PICK a \in S : TRUE
    BY <2>1
  <2>3. IsFiniteSet(S \ {a}) /\ Cardinality(S \ {a}) = Cardinality(S) - 1
    BY FS_RemoveElement
  <2>4. S \ {a} # {}
    BY <1>3, <2>3, FS_EmptySet, FS_CardinalityType
  <2>5. PICK b \in S \ {a} : TRUE
    BY <2>4
  <2>6. Cardinality({a}) = 1 /\ IsFiniteSet({a})
    BY FS_Singleton
  <2>7. Cardinality({a} \cup {b}) = 2
    BY <2>5, <2>6, FS_AddElement
  <2>8. {a} \cup {b} \in PairsOf(S)
    BY <2>5, <2>7 DEF PairsOf
  <2> QED
    BY <2>8
<1> QED
  BY <1>1, <1>2, <1>3

\* Two cohorts have a distance between them.
LEMMA BetweenNat ==
    ASSUME NEW left, NEW right, IsFiniteSet(left), IsFiniteSet(right), left # {}, right # {},
           \A a \in left \cup right : a.kind \in Kinds
    PROVE  between_distance(left, right) \in Nat
<1> DEFINE S == left \X right
           f == [p \in S |-> distance(p[1], p[2])]
<1>1. IsFiniteSet(S)
  BY FS_Product
<1>2. S # {}
  <2>1. PICK a \in left, b \in right : TRUE
    OBVIOUS
  <2>2. <<a, b>> \in S
    OBVIOUS
  <2> QED
    BY <2>2
<1>3. \A p \in S : distance(p[1], p[2]) \in Nat
  BY DistanceNat
<1>4. between_distance(left, right) = Mean(f)
  BY DEF between_distance
<1>5. DOMAIN f = S /\ \A p \in S : f[p] \in Nat
  BY <1>3
<1> HIDE DEF f, S
<1> QED
  BY <1>1, <1>2, <1>4, <1>5, MeanNat

\* A cohort of two attempts or more has a repeat noise, and no smaller one has.
LEMMA WithinNat ==
    ASSUME NEW R, IsFiniteSet(R), \A a \in R : a.kind \in Kinds
    PROVE  IF Cardinality(R) < 2 THEN within_distance(R) = None
           ELSE within_distance(R) \in Nat
<1> DEFINE S == PairsOf(R)
           Left(s) == CHOOSE x \in s : TRUE
           Right(s) == CHOOSE x \in s \ {Left(s)} : TRUE
           f == [s \in S |-> distance(Left(s), Right(s))]
<1>1. CASE Cardinality(R) < 2
  BY <1>1 DEF within_distance
<1>2. CASE ~(Cardinality(R) < 2)
  <2>1. within_distance(R) = Mean(f)
    BY <1>2 DEF within_distance
  <2>2. IsFiniteSet(S) /\ S # {}
    BY <1>2, PairsOfSet, FS_CardinalityType
  <2>3. \A s \in S : distance(Left(s), Right(s)) \in Nat
    <3> TAKE s \in S
    <3>1. PICK a, b \in R : a # b /\ s = {a, b}
      BY PairsOfSet
    <3>2. Left(s) \in s
      BY <3>1
    <3>3. s \ {Left(s)} # {}
      BY <3>1
    <3>4. Right(s) \in s
      BY <3>3
    <3> HIDE DEF Left, Right
    <3> QED
      BY <3>1, <3>2, <3>4, DistanceNat
  <2>4. DOMAIN f = S /\ \A s \in S : f[s] \in Nat
    BY <2>3
  <2> HIDE DEF f, S
  <2> QED
    BY <1>2, <2>1, <2>2, <2>4, MeanNat
<1> QED
  BY <1>1, <1>2

\* So two cohorts of two attempts or more have an adjusted separation.
LEMMA SeparationInt ==
    ASSUME NEW left, NEW right, IsFiniteSet(left), IsFiniteSet(right),
           Cardinality(left) >= 2, Cardinality(right) >= 2,
           \A a \in left \cup right : a.kind \in Kinds
    PROVE  adjusted_separation(left, right) \in Int /\ adjusted_separation(left, right) # None
<1>1. Cardinality(left) \in Nat /\ Cardinality(right) \in Nat /\ left # {} /\ right # {}
  BY FS_CardinalityType, FS_EmptySet
<1>2. within_distance(left) \in Nat /\ within_distance(right) \in Nat
  BY <1>1, WithinNat
<1>3. between_distance(left, right) \in Nat
  BY <1>1, BetweenNat
<1>4. None \notin Int
  BY PortfolioAssumption
<1>5. repeat_noise(left, right) = (within_distance(left) + within_distance(right)) \div 2
  BY <1>2, <1>4 DEF repeat_noise
<1>6. repeat_noise(left, right) \in Int
  BY <1>2, <1>5
<1> QED
  BY <1>3, <1>4, <1>6 DEF adjusted_separation

-----------------------------------------------------------------------------
(***************************************************************************)
(* Portfolio: what is collected.                                           *)
(***************************************************************************)

\* Finitely many attempts of known scenarios and kinds.
EvidenceTyped ==
    /\ IsFiniteSet(collected)
    /\ \A a \in collected : a.pilot_id \in PILOT_IDS /\ a.kind \in Kinds

\* EvidenceTyped holds of every history of collection, revision and exclusion.
LEMMA EvidenceTypedAlways == PortfolioSpec => []EvidenceTyped
<1>1. InitEvidence => EvidenceTyped
  BY FS_EmptySet DEF InitEvidence, EvidenceTyped
<1>2. EvidenceTyped /\ [NextEvidence]_evidence => EvidenceTyped'
  <2> SUFFICES ASSUME EvidenceTyped, [NextEvidence]_evidence PROVE EvidenceTyped'
    OBVIOUS
  <2>1. ASSUME NEW d \in RunDirs, NEW p \in PILOT_IDS, NEW c \in Configurations,
               NEW k \in Kinds, Collect(d, p, c, k)
        PROVE  EvidenceTyped'
    <3> DEFINE a == [run |-> d, identity |-> c, pilot_id |-> p, pack |-> version[p], kind |-> k,
                     n |-> Cardinality({x \in In(d) : x.identity = c /\ x.kind = k}) + 1]
    <3>1. collected' = collected \cup {a} /\ a.pilot_id = p /\ a.kind = k
      BY <2>1 DEF Collect
    <3> HIDE DEF a
    <3>2. IsFiniteSet(collected \cup {a})
      BY FS_AddElement DEF EvidenceTyped
    <3> QED
      BY <3>1, <3>2 DEF EvidenceTyped
  <2>2. ASSUME NEW p \in PILOT_IDS, Revise(p) PROVE EvidenceTyped'
    BY <2>2 DEF Revise, EvidenceTyped
  <2>3. ASSUME NEW d \in RunDirs, Exclude(d) PROVE EvidenceTyped'
    <3>1. collected' \in SUBSET collected
      BY <2>3 DEF Exclude
    <3> QED
      BY <3>1, FS_Subset DEF EvidenceTyped
  <2>4. CASE UNCHANGED evidence
    BY <2>4 DEF evidence, EvidenceTyped
  <2> QED
    BY <2>1, <2>2, <2>3, <2>4 DEF NextEvidence
<1> QED
  BY <1>1, <1>2, PTL DEF PortfolioSpec

\* The attempts of a configuration on a scenario, all of one pack.
OnePack(c, p, k) == On(c, p) # {} /\ \A a \in On(c, p) : a.pack = k

\* They are complete, clean and enough.
Finished(c, p, k) ==
    /\ OnePack(c, p, k)
    /\ Invalid(On(c, p)) = {}
    /\ Cardinality(Complete(On(c, p))) >= MIN_COMPLETE_REPEATS

\* Collection is over: of every scenario there is one pack, and every
\* configuration has finished it.  The plan, the pairs, the groups and the gain
\* each turn out to say this.
CollectionIsOver == \A p \in PILOT_IDS : \E k : \A c \in identities : Finished(c, p, k)

\* A set of at most one element.
LEMMA AtMostOne ==
    ASSUME NEW S, IsFiniteSet(S), ~(Cardinality(S) > 1), NEW x \in S, NEW y \in S
    PROVE  x = y
<1> SUFFICES ASSUME x # y PROVE FALSE
  OBVIOUS
<1>1. IsFiniteSet({x}) /\ Cardinality({x}) = 1
  BY FS_Singleton
<1>2. IsFiniteSet({x} \cup {y}) /\ Cardinality({x} \cup {y}) = 2
  <2>1. y \notin {x}
    OBVIOUS
  <2> QED
    BY <1>1, <2>1, FS_AddElement, SMTT(40)
<1>3. Cardinality({x} \cup {y}) <= Cardinality(S)
  <2>1. {x} \cup {y} \in SUBSET S
    OBVIOUS
  <2> QED
    BY <2>1, FS_Subset
<1>4. Cardinality(S) \in Nat
  BY FS_CardinalityType
<1> QED
  BY <1>2, <1>3, <1>4

\* A subset of a set of one element.
LEMMA OneOrNone ==
    ASSUME NEW x, NEW S, \A y \in S : y = x
    PROVE  IsFiniteSet(S) /\ ~(Cardinality(S) > 1)
<1>1. IsFiniteSet({x}) /\ Cardinality({x}) = 1
  BY FS_Singleton
<1>2. S \in SUBSET {x}
  OBVIOUS
<1>3. IsFiniteSet(S) /\ Cardinality(S) <= 1 /\ Cardinality(S) \in Nat
  BY <1>1, <1>2, FS_Subset, FS_CardinalityType
<1> QED
  BY <1>3

\* The sets that the gates count are finite.
LEMMA EvidenceFinite ==
    ASSUME EvidenceTyped
    PROVE  /\ IsFiniteSet(identities)
           /\ IsFiniteSet({a.pack : a \in collected})
           /\ \A S \in SUBSET collected : IsFiniteSet(S) /\ IsFiniteSet(Complete(S))
           /\ \A c, p : IsFiniteSet(On(c, p)) /\ IsFiniteSet(packs(c, p))
<1>1. IsFiniteSet(collected)
  BY DEF EvidenceTyped
<1>2. \A S \in SUBSET collected : IsFiniteSet(S) /\ IsFiniteSet(Complete(S))
  <2> TAKE S \in SUBSET collected
  <2>1. Complete(S) \in SUBSET collected
    BY DEF Complete
  <2> QED
    BY <1>1, <2>1, FS_Subset
<1>3. IsFiniteSet(identities)
  <2> DEFINE f == [a \in collected |-> a.identity]
  <2>1. IsFiniteSet({f[a] : a \in collected})
    BY <1>1, ImageFinite
  <2>2. {f[a] : a \in collected} = identities
    BY DEF identities
  <2> QED
    BY <2>1, <2>2
<1>4. IsFiniteSet({a.pack : a \in collected})
  <2> DEFINE f == [a \in collected |-> a.pack]
  <2>1. IsFiniteSet({f[a] : a \in collected})
    BY <1>1, ImageFinite
  <2>2. {f[a] : a \in collected} = {a.pack : a \in collected}
    OBVIOUS
  <2> QED
    BY <2>1, <2>2
<1>5. ASSUME NEW c, NEW p PROVE IsFiniteSet(On(c, p)) /\ IsFiniteSet(packs(c, p))
  <2>1. On(c, p) \in SUBSET collected
    BY DEF On, Of
  <2>2. packs(c, p) \in SUBSET {a.pack : a \in collected}
    BY <2>1 DEF packs
  <2> QED
    BY <1>1, <1>4, <2>1, <2>2, FS_Subset
<1> QED
  BY <1>2, <1>3, <1>4, <1>5

\* The packs of a scenario in all configurations.
LEMMA PacksOfScenario ==
    ASSUME EvidenceTyped, NEW p
    PROVE  /\ IsFiniteSet(UNION {packs(d, p) : d \in identities})
           /\ \A d \in identities : \A a \in On(d, p) :
                a.pack \in UNION {packs(e, p) : e \in identities}
           /\ \A k \in UNION {packs(d, p) : d \in identities} :
                \E d \in identities : \E a \in On(d, p) : a.pack = k
<1> DEFINE U == UNION {packs(d, p) : d \in identities}
<1>1. \A k \in U : \E d \in identities : \E a \in On(d, p) : a.pack = k
  BY DEF packs
<1>2. \A d \in identities : \A a \in On(d, p) : a.pack \in U
  BY DEF packs
<1>3. U \in SUBSET {a.pack : a \in collected}
  BY <1>1 DEF On, Of
<1>4. IsFiniteSet(U)
  BY <1>3, EvidenceFinite, FS_Subset
<1> QED
  BY <1>1, <1>2, <1>4

\* One configuration on one scenario: PlanState is READY.
LEMMA ReadyState ==
    ASSUME NEW c, NEW p
    PROVE  PlanState(c, p) = "READY" <=>
             /\ ~(Cardinality(UNION {packs(d, p) : d \in identities}) > 1 /\ packs(c, p) # {})
             /\ ~(Cardinality(packs(c, p)) > 1)
             /\ On(c, p) # {}
             /\ Invalid(On(c, p)) = {}
             /\ ~(Cardinality(Complete(On(c, p))) < MIN_COMPLETE_REPEATS)
<1> DEFINE U == UNION {packs(d, p) : d \in identities}
<1> HIDE DEF U
<1>1. PlanState(c, p) = "READY" <=>
        ~(Cardinality(U) > 1 /\ packs(c, p) # {}) /\ ConfigurationState(c, p) = "READY"
  BY DEF PlanState, U
<1>2. ConfigurationState(c, p) = "READY" <=>
        /\ ~(Cardinality(packs(c, p)) > 1)
        /\ On(c, p) # {}
        /\ Invalid(On(c, p)) = {}
        /\ ~(Cardinality(Complete(On(c, p))) < MIN_COMPLETE_REPEATS)
  BY DEF ConfigurationState
<1> QED
  BY <1>1, <1>2 DEF U

\* The plan has nothing left exactly when collection is over.
LEMMA PlanIsDone ==
    ASSUME EvidenceTyped, identities # {}
    PROVE  (\A c \in identities, p \in PILOT_IDS : PlanState(c, p) = "READY") <=> CollectionIsOver
<1>1. ASSUME \A c \in identities, p \in PILOT_IDS : PlanState(c, p) = "READY",
             NEW p \in PILOT_IDS
      PROVE  \E k : \A c \in identities : Finished(c, p, k)
  <2> DEFINE U == UNION {packs(d, p) : d \in identities}
  <2>1. PICK c0 \in identities : TRUE
    OBVIOUS
  <2>2. \A c \in identities :
          /\ ~(Cardinality(U) > 1 /\ packs(c, p) # {})
          /\ On(c, p) # {} /\ Invalid(On(c, p)) = {}
          /\ ~(Cardinality(Complete(On(c, p))) < MIN_COMPLETE_REPEATS)
    BY <1>1, ReadyState
  <2>3. PICK a0 \in On(c0, p) : TRUE
    BY <2>1, <2>2
  <2>4. IsFiniteSet(U) /\ \A d \in identities : \A a \in On(d, p) : a.pack \in U
    BY PacksOfScenario
  <2>5. packs(c0, p) # {}
    BY <2>3 DEF packs
  <2>6. ~(Cardinality(U) > 1)
    BY <2>1, <2>2, <2>5
  <2> HIDE DEF U
  <2>7. \A c \in identities : \A a \in On(c, p) : a.pack = a0.pack
    BY <2>1, <2>3, <2>4, <2>6, AtMostOne
  <2>8. \A c \in identities : Cardinality(Complete(On(c, p))) \in Nat
    BY EvidenceFinite, FS_CardinalityType DEF On, Of
  <2>9. \A c \in identities : Finished(c, p, a0.pack)
    BY <2>2, <2>7, <2>8, PortfolioAssumption DEF Finished, OnePack
  <2> QED
    BY <2>9
<1>2. ASSUME CollectionIsOver, NEW c \in identities, NEW p \in PILOT_IDS
      PROVE  PlanState(c, p) = "READY"
  <2> DEFINE U == UNION {packs(d, p) : d \in identities}
  <2>1. PICK k : \A d \in identities : Finished(d, p, k)
    BY <1>2 DEF CollectionIsOver
  <2>2. \A x \in U : x = k
    BY <2>1, PacksOfScenario DEF Finished, OnePack
  <2> HIDE DEF U
  <2>3. ~(Cardinality(U) > 1)
    BY <2>2, OneOrNone
  <2>4. \A x \in packs(c, p) : x = k
    BY <2>1 DEF Finished, OnePack, packs
  <2>5. ~(Cardinality(packs(c, p)) > 1)
    BY <2>4, OneOrNone
  <2>6. Cardinality(Complete(On(c, p))) \in Nat
    BY EvidenceFinite, FS_CardinalityType DEF On, Of
  <2>7. /\ On(c, p) # {} /\ Invalid(On(c, p)) = {}
        /\ ~(Cardinality(Complete(On(c, p))) < MIN_COMPLETE_REPEATS)
    BY <2>1, <2>6, PortfolioAssumption DEF Finished, OnePack
  <2> QED
    BY <2>3, <2>5, <2>7, ReadyState DEF U
<1> QED
  BY <1>1, <1>2 DEF CollectionIsOver

\* Both configurations of a pair have finished every scenario, on one pack.
PairFinished(pair) ==
    \A p \in PILOT_IDS : \E k : Finished(pair[1], p, k) /\ Finished(pair[2], p, k)

\* The collection gates of a pair.
NothingToCollect(pair) ==
    /\ ambiguous(pair) = {} /\ mismatched(pair) = {}
    /\ invalid_pilots(pair) = {}
    /\ missing(pair[1]) = {} /\ missing(pair[2]) = {}
    /\ deficits(pair) = {}

\* The next step of a pair asks for attempts exactly when one of them is not met.
LEMMA NextEvidenceAsks ==
    ASSUME NEW pair, NEW family
    PROVE  next_evidence(pair, family) \notin Acquisition <=> NothingToCollect(pair)
BY DEF next_evidence, Acquisition, NothingToCollect

\* What a version of a scenario is, in the runs of a pair.
LEMMA VersionOfPair ==
    ASSUME NEW pair, NEW v
    PROVE  v \in versions(pair) <=>
             /\ v = <<v[1], v[2]>> /\ v[1] \in PILOT_IDS
             /\ \E a \in On(pair[1], v[1]) : a.pack = v[2]
             /\ \E a \in On(pair[2], v[1]) : a.pack = v[2]
BY DEF versions, packs

\* A finished pair has one version of every scenario, and compares all its attempts.
LEMMA VersionsOfFinished ==
    ASSUME NEW pair, PairFinished(pair)
    PROVE  /\ \A v \in versions(pair) :
                /\ v[1] \in PILOT_IDS
                /\ Finished(pair[1], v[1], v[2]) /\ Finished(pair[2], v[1], v[2])
                /\ Side(pair, 1, v) = On(pair[1], v[1]) /\ Side(pair, 2, v) = On(pair[2], v[1])
                /\ \A w \in versions(pair) : w[1] = v[1] => w = v
           /\ \A p \in PILOT_IDS : \E v \in versions(pair) : v[1] = p
<1>1. ASSUME NEW v \in versions(pair)
      PROVE  /\ v[1] \in PILOT_IDS /\ v = <<v[1], v[2]>>
             /\ Finished(pair[1], v[1], v[2]) /\ Finished(pair[2], v[1], v[2])
  <2>1. /\ v[1] \in PILOT_IDS /\ v = <<v[1], v[2]>>
        /\ \E a \in On(pair[1], v[1]) : a.pack = v[2]
    BY VersionOfPair
  <2>2. PICK k : Finished(pair[1], v[1], k) /\ Finished(pair[2], v[1], k)
    BY <2>1 DEF PairFinished
  <2>3. v[2] = k
    BY <2>1, <2>2 DEF Finished, OnePack
  <2> QED
    BY <2>1, <2>2, <2>3
<1>2. ASSUME NEW v \in versions(pair), NEW w \in versions(pair), w[1] = v[1] PROVE w = v
  <2>1. \E a \in On(pair[1], v[1]) : a.pack = w[2]
    BY <1>2, VersionOfPair
  <2>2. w[2] = v[2]
    BY <1>1, <2>1 DEF Finished, OnePack
  <2> QED
    BY <1>1, <1>2, <2>2
<1>3. ASSUME NEW v \in versions(pair), NEW i \in 1..2 PROVE Side(pair, i, v) = On(pair[i], v[1])
  <2>1. \A a \in On(pair[i], v[1]) : a.pack = v[2]
    BY <1>1 DEF Finished, OnePack
  <2> QED
    BY <2>1 DEF Side, Cell
<1>4. ASSUME NEW p \in PILOT_IDS PROVE \E v \in versions(pair) : v[1] = p
  <2>1. PICK k : Finished(pair[1], p, k) /\ Finished(pair[2], p, k)
    BY DEF PairFinished
  <2> DEFINE v == <<p, k>>
  <2>2. /\ \E a \in On(pair[1], p) : a.pack = k
        /\ \E a \in On(pair[2], p) : a.pack = k
    BY <2>1 DEF Finished, OnePack
  <2>3. v[1] = p /\ v[2] = k /\ v = <<v[1], v[2]>>
    OBVIOUS
  <2> HIDE DEF v
  <2>4. v \in versions(pair)
    BY <2>2, <2>3, VersionOfPair
  <2> QED
    BY <2>3, <2>4
<1> QED
  BY <1>1, <1>2, <1>3, <1>4

\* A pair has nothing to collect exactly when it is finished.
LEMMA PairIsDone ==
    ASSUME EvidenceTyped, NEW pair
    PROVE  NothingToCollect(pair) <=> PairFinished(pair)
<1>1. ASSUME NothingToCollect(pair), NEW p \in PILOT_IDS
      PROVE  \E k : Finished(pair[1], p, k) /\ Finished(pair[2], p, k)
  <2>1. On(pair[1], p) # {} /\ On(pair[2], p) # {}
    BY <1>1 DEF NothingToCollect, missing
  <2>2. \A i \in 1..2 : ~(Cardinality(packs(pair[i], p)) > 1)
    BY <1>1 DEF NothingToCollect, ambiguous
  <2>3. PICK k \in packs(pair[1], p) : k \in packs(pair[2], p)
    BY <1>1, <2>1 DEF NothingToCollect, mismatched
  <2>4. \A i \in 1..2 : k \in packs(pair[i], p)
    BY <2>3
  <2> DEFINE v == <<p, k>>
  <2>5. v[1] = p /\ v[2] = k /\ v = <<v[1], v[2]>>
    OBVIOUS
  <2> HIDE DEF v
  <2>6. v \in versions(pair)
    BY <2>3, <2>5, VersionOfPair DEF packs
  <2>7. ASSUME NEW i \in 1..2 PROVE Finished(pair[i], p, k)
    <3>1. \A a \in On(pair[i], p) : a.pack \in packs(pair[i], p)
      BY DEF packs
    <3>2. IsFiniteSet(packs(pair[i], p))
      BY EvidenceFinite
    <3>3. \A a \in On(pair[i], p) : a.pack = k
      BY <2>2, <2>4, <3>1, <3>2, AtMostOne
    <3>4. Side(pair, i, v) = On(pair[i], p)
      BY <2>5, <3>3 DEF Side, Cell
    <3>5. ~(Cardinality(Complete(On(pair[i], p))) < MIN_COMPLETE_REPEATS)
      BY <1>1, <2>6, <3>4 DEF NothingToCollect, deficits
    <3>6. Cardinality(Complete(On(pair[i], p))) \in Nat
      BY EvidenceFinite, FS_CardinalityType DEF On, Of
    <3>7. Invalid(Both(pair, v)) = {}
      BY <1>1, <2>6 DEF NothingToCollect, invalid_pilots
    <3>8. Side(pair, i, v) \subseteq Both(pair, v)
      BY DEF Both
    <3>9. Invalid(On(pair[i], p)) = {}
      BY <3>4, <3>7, <3>8 DEF Invalid
    <3>10. On(pair[i], p) # {}
      BY <2>1
    <3> QED
      BY <3>3, <3>5, <3>6, <3>9, <3>10, PortfolioAssumption DEF Finished, OnePack
  <2> QED
    BY <2>7
<1>2. ASSUME PairFinished(pair) PROVE NothingToCollect(pair)
  <2>1. ASSUME NEW p \in PILOT_IDS, NEW i \in 1..2
        PROVE  On(pair[i], p) # {} /\ ~(Cardinality(packs(pair[i], p)) > 1)
    <3>1. PICK k : Finished(pair[i], p, k)
      BY <1>2 DEF PairFinished
    <3>2. \A x \in packs(pair[i], p) : x = k
      BY <3>1 DEF Finished, OnePack, packs
    <3> QED
      BY <3>1, <3>2, OneOrNone DEF Finished, OnePack
  <2>2. ambiguous(pair) = {} /\ missing(pair[1]) = {} /\ missing(pair[2]) = {}
    BY <2>1 DEF ambiguous, missing
  <2>3. mismatched(pair) = {}
    <3> SUFFICES ASSUME NEW p \in PILOT_IDS, packs(pair[1], p) \intersect packs(pair[2], p) = {}
                 PROVE  FALSE
      BY DEF mismatched
    <3>1. PICK k : Finished(pair[1], p, k) /\ Finished(pair[2], p, k)
      BY <1>2 DEF PairFinished
    <3>2. k \in packs(pair[1], p) /\ k \in packs(pair[2], p)
      BY <3>1 DEF Finished, OnePack, packs
    <3> QED
      BY <3>2
  <2>4. invalid_pilots(pair) = {}
    <3> SUFFICES ASSUME NEW v \in versions(pair) PROVE Invalid(Both(pair, v)) = {}
      BY DEF invalid_pilots
    <3>1. /\ Side(pair, 1, v) = On(pair[1], v[1]) /\ Side(pair, 2, v) = On(pair[2], v[1])
          /\ Finished(pair[1], v[1], v[2]) /\ Finished(pair[2], v[1], v[2])
      BY <1>2, VersionsOfFinished
    <3> QED
      BY <3>1 DEF Both, Invalid, Finished
  <2>5. deficits(pair) = {}
    <3> SUFFICES ASSUME NEW v \in versions(pair), NEW i \in 1..2
                 PROVE  ~(Cardinality(Complete(Side(pair, i, v))) < MIN_COMPLETE_REPEATS)
      BY DEF deficits
    <3>1. Side(pair, i, v) = On(pair[i], v[1]) /\ Finished(pair[i], v[1], v[2])
      BY <1>2, VersionsOfFinished
    <3>2. Cardinality(Complete(On(pair[i], v[1]))) \in Nat
      BY EvidenceFinite, FS_CardinalityType DEF On, Of
    <3> QED
      BY <3>1, <3>2, PortfolioAssumption DEF Finished
  <2> QED
    BY <2>2, <2>3, <2>4, <2>5 DEF NothingToCollect
<1> QED
  BY <1>1, <1>2 DEF PairFinished

\* With two configurations or more, every pair is finished exactly when
\* collection is over.
LEMMA PairsAreDone ==
    ASSUME EvidenceTyped, Cardinality(identities) >= 2
    PROVE  (\A pair \in AllPairs : PairFinished(pair)) <=> CollectionIsOver
<1>1. ASSUME CollectionIsOver, NEW pair \in AllPairs PROVE PairFinished(pair)
  BY <1>1 DEF CollectionIsOver, PairFinished, AllPairs
<1>2. ASSUME \A pair \in AllPairs : PairFinished(pair), NEW p \in PILOT_IDS
      PROVE  \E k : \A c \in identities : Finished(c, p, k)
  <2>1. identities # {}
    BY FS_EmptySet
  <2>2. PICK c \in identities : TRUE
    BY <2>1
  <2>3. PICK d \in identities : d # c
    <3> SUFFICES ASSUME \A x \in identities : x = c PROVE FALSE
      OBVIOUS
    <3>1. ~(Cardinality(identities) > 1)
      BY OneOrNone
    <3>2. Cardinality(identities) \in Nat
      BY EvidenceFinite, FS_CardinalityType
    <3> QED
      BY <3>1, <3>2
  <2>4. \A e \in identities : e # c => \E k : Finished(c, p, k) /\ Finished(e, p, k)
    <3> TAKE e \in identities
    <3> HAVE e # c
    <3> DEFINE pair == <<c, e>>
    <3>1. pair \in AllPairs /\ pair[1] = c /\ pair[2] = e
      BY <2>2 DEF AllPairs
    <3> HIDE DEF pair
    <3>2. PairFinished(pair)
      BY <1>2, <3>1
    <3> QED
      BY <3>1, <3>2 DEF PairFinished
  <2>5. PICK k : Finished(c, p, k)
    BY <2>3, <2>4
  <2>6. ASSUME NEW e \in identities PROVE Finished(e, p, k)
    <3>1. CASE e = c
      BY <2>5, <3>1
    <3>2. CASE e # c
      <4>1. PICK j : Finished(c, p, j) /\ Finished(e, p, j)
        BY <2>4, <3>2
      <4>2. j = k
        BY <2>5, <4>1 DEF Finished, OnePack
      <4> QED
        BY <4>1, <4>2
    <3> QED
      BY <3>1, <3>2
  <2> QED
    BY <2>6
<1> QED
  BY <1>1, <1>2 DEF CollectionIsOver

\* Pairs gained by going from r configurations to all n.
LEMMA PairsGained ==
    ASSUME NEW n \in Nat, NEW r \in Nat, r <= n, n >= 2
    PROVE  (n * (n - 1) - r * (r - 1)) \div 2 = 0 <=> r = n
<1>1. CASE r = n
  <2>1. n * (n - 1) - r * (r - 1) = 0
    BY <1>1
  <2> QED
    BY <1>1, <2>1
<1>2. CASE r # n
  <2> DEFINE m == n - 1
  <2>1. m \in Nat /\ m >= 1 /\ r <= m /\ n = m + 1
    BY <1>2
  <2> HIDE DEF m
  <2>2. r * (r - 1) <= m * (m - 1)
    <3>1. CASE r = 0
      BY <2>1, <3>1
    <3>2. CASE r # 0
      <4>1. r * (r - 1) <= r * (m - 1)
        BY <2>1, <3>2
      <4>2. r * (m - 1) <= m * (m - 1)
        BY <2>1, <3>2
      <4>3. r * (r - 1) \in Int /\ r * (m - 1) \in Int /\ m * (m - 1) \in Int
        BY <2>1
      <4> QED
        BY <4>1, <4>2, <4>3
    <3> QED
      BY <3>1, <3>2
  <2>3. n * (n - 1) = m * (m - 1) + 2 * m
    BY <2>1
  <2> DEFINE x == n * (n - 1) - r * (r - 1)
  <2>4. x >= 2 /\ x \in Int
    BY <2>1, <2>2, <2>3
  <2> HIDE DEF x
  <2>5. x \div 2 # 0
    BY <2>4
  <2> QED
    BY <1>2, <2>5 DEF x
<1> QED
  BY <1>1, <1>2

\* A scenario gains no pair exactly when every configuration is READY on it.
LEMMA NothingToGain ==
    ASSUME EvidenceTyped, Cardinality(identities) >= 2, NEW p
    PROVE  potential_pair_coverage_gain(p) = 0 <=> \A c \in identities : PlanState(c, p) = "READY"
<1> DEFINE R == {c \in identities : PlanState(c, p) = "READY"}
           n == Cardinality(identities)
           r == Cardinality(R)
<1>1. R \in SUBSET identities /\ IsFiniteSet(identities)
  BY EvidenceFinite
<1>2. potential_pair_coverage_gain(p) = (n * (n - 1) - r * (r - 1)) \div 2
  BY DEF potential_pair_coverage_gain
<1>3. R = identities <=> \A c \in identities : PlanState(c, p) = "READY"
  OBVIOUS
<1> HIDE DEF R
<1>4. n \in Nat /\ r \in Nat /\ r <= n /\ (r = n => R = identities)
  BY <1>1, FS_Subset, FS_CardinalityType
<1>5. r = n <=> R = identities
  BY <1>4
<1> HIDE DEF n, r
<1>6. (n * (n - 1) - r * (r - 1)) \div 2 = 0 <=> r = n
  BY <1>4, PairsGained DEF n
<1> QED
  BY <1>2, <1>3, <1>5, <1>6

\* A finished pair has as many versions as there are scenarios.
LEMMA VersionsCounted ==
    ASSUME EvidenceTyped, NEW pair, PairFinished(pair)
    PROVE  IsFiniteSet(versions(pair)) /\ Cardinality(versions(pair)) = Cardinality(PILOT_IDS)
<1> DEFINE V == versions(pair)
           f == [v \in V |-> v[1]]
<1>1. /\ \A v \in V : v[1] \in PILOT_IDS /\ \A w \in V : w[1] = v[1] => w = v
      /\ \A p \in PILOT_IDS : \E v \in V : v[1] = p
  BY VersionsOfFinished
<1> HIDE DEF V
<1>2. f \in Injection(V, PILOT_IDS) /\ f \in Surjection(V, PILOT_IDS)
  BY <1>1 DEF Injection, Surjection, IsInjective
<1> HIDE DEF f
<1> QED
  BY <1>2, FS_Injection, PortfolioAssumption DEF V

\* A finished pair whose axes were all observed passes every evidence gate, and
\* every scenario has an adjusted separation.
LEMMA FinishedIsEligible ==
    ASSUME EvidenceTyped, NEW pair, PairFinished(pair), unobserved_pilots(pair) = {}
    PROVE  eligible(pair)
<1>1. NothingToCollect(pair)
  BY PairIsDone
<1>2. Cardinality(versions(pair)) >= MIN_SHARED_SCENARIOS
  <2>1. Cardinality(PILOT_IDS) \in Nat
    BY PortfolioAssumption, FS_CardinalityType
  <2> QED
    BY <2>1, VersionsCounted, PortfolioAssumption
<1>3. evidence_gates(pair)
  BY <1>1, <1>2, VersionsOfFinished DEF evidence_gates, NothingToCollect
<1>4. ASSUME NEW v \in versions(pair) PROVE effects(pair)[v] # None
  <2> DEFINE l == On(pair[1], v[1])
             r == On(pair[2], v[1])
  <2>1. /\ Finished(pair[1], v[1], v[2]) /\ Finished(pair[2], v[1], v[2])
        /\ Side(pair, 1, v) = l /\ Side(pair, 2, v) = r
    BY VersionsOfFinished
  <2>2. IsFiniteSet(l) /\ IsFiniteSet(r) /\ l \subseteq collected /\ r \subseteq collected
    BY EvidenceFinite DEF On, Of
  <2>3. Cardinality(Complete(l)) >= 2 /\ Cardinality(Complete(r)) >= 2
    <3>1. Cardinality(Complete(l)) \in Nat /\ Cardinality(Complete(r)) \in Nat
      BY <2>2, EvidenceFinite, FS_CardinalityType
    <3> QED
      BY <2>1, <3>1, PortfolioAssumption DEF Finished
  <2>4. Complete(l) \in SUBSET l /\ Complete(r) \in SUBSET r
    BY DEF Complete
  <2>5. \A a \in l \cup r : a.kind \in Kinds
    BY <2>2 DEF EvidenceTyped
  <2>6. effects(pair)[v] = adjusted_separation(l, r)
    BY <2>1 DEF effects
  <2> HIDE DEF l, r
  <2>7. Cardinality(l) >= 2 /\ Cardinality(r) >= 2
    <3>1. Cardinality(Complete(l)) <= Cardinality(l) /\ Cardinality(Complete(r)) <= Cardinality(r)
      BY <2>2, <2>4, FS_Subset
    <3>2. /\ Cardinality(Complete(l)) \in Nat /\ Cardinality(l) \in Nat
          /\ Cardinality(Complete(r)) \in Nat /\ Cardinality(r) \in Nat
      BY <2>2, <2>4, FS_Subset, FS_CardinalityType
    <3> QED
      BY <2>3, <3>1, <3>2
  <2>8. adjusted_separation(l, r) # None
    BY <2>2, <2>5, <2>7, SeparationInt
  <2> QED
    BY <2>6, <2>8
<1> QED
  BY <1>3, <1>4 DEF eligible

\* It then gets a separation and a directional verdict.
LEMMA FinishedIsJudged ==
    ASSUME EvidenceTyped, NEW pair, PairFinished(pair), unobserved_pilots(pair) = {}, NEW family
    PROVE  /\ separation_status(pair, family) # "INSUFFICIENT_EVIDENCE"
           /\ directional_advantage(pair, family) # "INSUFFICIENT_EVIDENCE"
<1>1. eligible(pair)
  BY FinishedIsEligible
<1>2. ~(Cardinality(versions(pair)) < MIN_SHARED_SCENARIOS)
  <2>1. Cardinality(PILOT_IDS) \in Nat
    BY PortfolioAssumption, FS_CardinalityType
  <2> QED
    BY <2>1, VersionsCounted, PortfolioAssumption
<1>3. DOMAIN effects(pair) = versions(pair) /\ DOMAIN directional_inputs(pair) = versions(pair)
  BY DEF effects, directional_inputs
<1>4. ASSUME NEW values, DOMAIN values = versions(pair)
      PROVE  /\ separation_classification(values, family) # "INSUFFICIENT_EVIDENCE"
             /\ directional_classification(values, family) # "INSUFFICIENT_EVIDENCE"
  BY <1>2, <1>4 DEF separation_classification, directional_classification
<1> QED
  BY <1>1, <1>3, <1>4 DEF separation_status, directional_advantage

\* Once collection is over, every configuration passes the coverage gates.
LEMMA OverCovers ==
    ASSUME EvidenceTyped, CollectionIsOver, NEW c \in identities
    PROVE  coverage_gates(c)
<1>1. ASSUME NEW p \in PILOT_IDS
      PROVE  /\ On(c, p) # {} /\ Invalid(On(c, p)) = {}
             /\ Cardinality(packs(c, p)) = 1
             /\ Cardinality(Complete(On(c, p))) >= 2
  <2>1. PICK k : Finished(c, p, k)
    BY DEF CollectionIsOver
  <2>2. packs(c, p) = {k}
    BY <2>1 DEF Finished, OnePack, packs
  <2>3. Cardinality(packs(c, p)) = 1
    BY <2>2, FS_Singleton
  <2>4. Cardinality(Complete(On(c, p))) \in Nat
    BY EvidenceFinite, FS_CardinalityType DEF On, Of
  <2> QED
    BY <2>1, <2>3, <2>4, PortfolioAssumption DEF Finished, OnePack
<1>2. missing(c) = {}
  BY <1>1 DEF missing
<1>3. Invalid(Of(c)) = {}
  <2> SUFFICES ASSUME NEW a \in Invalid(Of(c)) PROVE FALSE
    OBVIOUS
  <2>1. a \in Invalid(On(c, a.pilot_id)) /\ a.pilot_id \in PILOT_IDS
    BY DEF Invalid, On, Of, EvidenceTyped
  <2> QED
    BY <1>1, <2>1
<1> QED
  BY <1>1, <1>2, <1>3 DEF coverage_gates

\* And every scenario group passes its gates.
LEMMA OverIsReviewable ==
    ASSUME EvidenceTyped, CollectionIsOver, Cardinality(identities) >= 2, NEW g \in groups
    PROVE  ready_for_manual_ambiguity_review(g)
<1>1. PICK b \in collected : g = <<b.pilot_id, b.pack>>
  BY DEF groups
<1> DEFINE p == g[1]
           R == {a \in collected : <<a.pilot_id, a.pack>> = g}
           configurations == {a.identity : a \in R}
<1>2. p \in PILOT_IDS /\ b \in On(b.identity, p) /\ b.identity \in identities /\ b.pack = g[2]
  BY <1>1 DEF EvidenceTyped, On, Of, identities
<1>3. PICK k : \A c \in identities : Finished(c, p, k)
  BY <1>2 DEF CollectionIsOver
<1>4. k = g[2]
  BY <1>2, <1>3 DEF Finished, OnePack
<1>5. \A c \in identities : On(c, p) = Cell(c, g[1], g[2]) /\ On(c, p) # {}
  BY <1>3, <1>4 DEF Finished, OnePack, Cell
<1>6. configurations = identities
  <2>1. configurations \subseteq identities
    BY DEF identities
  <2>2. ASSUME NEW c \in identities PROVE c \in configurations
    <3>1. PICK a \in On(c, p) : TRUE
      BY <1>5
    <3>2. a \in collected /\ a.identity = c /\ a.pilot_id = g[1] /\ a.pack = g[2]
      BY <1>3, <1>4, <3>1 DEF Finished, OnePack, On, Of
    <3>3. <<a.pilot_id, a.pack>> = g
      BY <1>1, <3>2
    <3> QED
      BY <3>2, <3>3
  <2> QED
    BY <2>1, <2>2
<1>7. \A c \in configurations : Cardinality(Complete(Cell(c, g[1], g[2]))) >= 2
  <2> SUFFICES ASSUME NEW c \in identities
               PROVE  Cardinality(Complete(On(c, p))) >= 2
    BY <1>5, <1>6
  <2>1. Cardinality(Complete(On(c, p))) \in Nat
    BY EvidenceFinite, FS_CardinalityType DEF On, Of
  <2> QED
    BY <1>3, <2>1, PortfolioAssumption DEF Finished
<1>8. Invalid(R) = {}
  <2> SUFFICES ASSUME NEW a \in Invalid(R) PROVE FALSE
    OBVIOUS
  <2>1. a \in collected /\ a.pilot_id = p /\ a.identity \in identities
    BY DEF Invalid, identities
  <2>2. a \in Invalid(On(a.identity, p))
    BY <2>1 DEF Invalid, On, Of
  <2> QED
    BY <1>3, <2>1, <2>2 DEF Finished
<1> HIDE DEF p
<1> QED
  BY <1>6, <1>7, <1>8 DEF ready_for_manual_ambiguity_review

\* A configuration without actions is READY on every scenario.
LEMMA NoActions ==
    ASSUME NEW c
    PROVE  configuration_plan(c) = "READY" <=> \A p \in PILOT_IDS : PlanState(c, p) = "READY"
<1>1. configuration_plan(c) = "READY" <=> actions(c) = {}
  BY DEF configuration_plan
<1> QED
  BY <1>1 DEF actions

\* The three computations agree in every state with typed evidence.
LEMMA Agreement == EvidenceTyped => PlanAgreesWithPairs
<1> SUFFICES ASSUME EvidenceTyped, Cardinality(identities) >= 2
             PROVE  PlanAgreesWithPairs
  BY DEF PlanAgreesWithPairs
<1> DEFINE done == \A c \in identities : configuration_plan(c) = "READY"
           family == family_size
<1>1. identities # {}
  BY FS_EmptySet
<1>2. done <=> CollectionIsOver
  BY <1>1, NoActions, PlanIsDone
<1>3. CollectionIsOver <=> \A pair \in AllPairs : next_evidence(pair, family) \notin Acquisition
  <2> HIDE DEF family
  <2> QED
    BY PairsAreDone, PairIsDone, NextEvidenceAsks
<1>4. CollectionIsOver <=> \A p \in PILOT_IDS : potential_pair_coverage_gain(p) = 0
  BY <1>1, PlanIsDone, NothingToGain
<1>5. ASSUME CollectionIsOver
      PROVE  /\ \A c \in identities : coverage_gates(c)
             /\ \A g \in groups : ready_for_manual_ambiguity_review(g)
             /\ \A pair \in AllPairs :
                  unobserved_pilots(pair) = {} =>
                     "INSUFFICIENT_EVIDENCE" \notin
                       {separation_status(pair, family), directional_advantage(pair, family)}
  <2>1. \A pair \in AllPairs : PairFinished(pair)
    BY <1>5, PairsAreDone
  <2> HIDE DEF family
  <2>2. \A pair \in AllPairs :
          unobserved_pilots(pair) = {} =>
             /\ separation_status(pair, family) # "INSUFFICIENT_EVIDENCE"
             /\ directional_advantage(pair, family) # "INSUFFICIENT_EVIDENCE"
    BY <2>1, FinishedIsJudged
  <2> QED
    BY <1>5, <2>2, OverCovers, OverIsReviewable
<1> HIDE DEF done, family
<1>6. /\ done <=> \A pair \in AllPairs : next_evidence(pair, family) \notin Acquisition
      /\ done <=> \A p \in PILOT_IDS : potential_pair_coverage_gain(p) = 0
  BY <1>2, <1>3, <1>4
<1> QED
  BY <1>2, <1>5, <1>6 DEF PlanAgreesWithPairs, done, family

\* For any scenarios, configurations and directories, whatever is collected,
\* revised and left out, the plan (_evidence_collection_plan), the pairs
\* (_next_pair_evidence), the groups and the gain say the same on when
\* collection is over, and then every pair that can be judged is judged.
THEOREM PlanAndPairsAgree == PortfolioSpec => []PlanAgreesWithPairs
BY EvidenceTypedAlways, Agreement, PTL

-----------------------------------------------------------------------------
(***************************************************************************)
(* Portfolio: the plan is a lower bound.                                   *)
(***************************************************************************)

\* What the attempts of a cell lack, as Additional computes it.
Lacks(R) ==
    IF Cardinality({a.pack : a \in R}) > 1 \/ R = {} \/ Invalid(R) # {}
    THEN MIN_COMPLETE_REPEATS
    ELSE IF Cardinality(Complete(R)) < MIN_COMPLETE_REPEATS
         THEN MIN_COMPLETE_REPEATS - Cardinality(Complete(R))
    ELSE 0

RowsOf(attempts, x) == {a \in attempts : a.identity = x[1] /\ a.pilot_id = x[2]}
LacksOf(attempts, cells) == [x \in cells |-> Lacks(RowsOf(attempts, x))]

\* The packs of finitely many attempts.
LEMMA PacksFinite ==
    ASSUME NEW R, IsFiniteSet(R)
    PROVE  IsFiniteSet({a.pack : a \in R})
<1> DEFINE f == [a \in R |-> a.pack]
<1>1. {f[a] : a \in R} = {a.pack : a \in R}
  OBVIOUS
<1> HIDE DEF f
<1>2. IsFiniteSet({f[a] : a \in R})
  BY ImageFinite
<1> QED
  BY <1>1, <1>2

\* A number of attempts.
LEMMA LacksNat ==
    ASSUME NEW R, IsFiniteSet(R)
    PROVE  Lacks(R) \in Nat
<1>1. IsFiniteSet(Complete(R))
  <2>1. Complete(R) \in SUBSET R
    BY DEF Complete
  <2> QED
    BY <2>1, FS_Subset
<1>2. Cardinality(Complete(R)) \in Nat
  BY <1>1, FS_CardinalityType
<1> QED
  BY <1>2, PortfolioAssumption DEF Lacks

\* One more attempt of the same pack lowers it by at most one, and a clean one
\* does not raise it.
LEMMA OneMoreAttempt ==
    ASSUME NEW R, IsFiniteSet(R), NEW a, a \notin R, a.kind \in Kinds,
           NEW more, more = R \cup {a}, ~(Cardinality({x.pack : x \in more}) > 1)
    PROVE  /\ Lacks(more) >= Lacks(R) - 1
           /\ a.kind \in Clean => Lacks(more) <= Lacks(R)
<1> DEFINE n == Cardinality(Complete(R))
           m == Cardinality(Complete(more))
           M == MIN_COMPLETE_REPEATS
           bad == ~Metrics[a.kind].complete \/ ~Metrics[a.kind].safe
<1>1. M \in Nat /\ M >= 2
  BY PortfolioAssumption
<1>2. Invalid(more) = {} <=> Invalid(R) = {} /\ ~bad
  BY DEF Invalid
<1>3. more # {}
  OBVIOUS
<1>4. ~(Cardinality({x.pack : x \in R}) > 1)
  <2> DEFINE S == {x.pack : x \in R}
             T == {x.pack : x \in more}
  <2>1. IsFiniteSet(T)
    <3>1. IsFiniteSet(more)
      BY FS_AddElement
    <3> QED
      BY <3>1, PacksFinite
  <2>2. S \in SUBSET T
    OBVIOUS
  <2>3. ~(Cardinality(T) > 1)
    OBVIOUS
  <2> HIDE DEF S, T
  <2>4. Cardinality(S) <= Cardinality(T) /\ Cardinality(S) \in Nat /\ Cardinality(T) \in Nat
    BY <2>1, <2>2, FS_Subset, FS_CardinalityType
  <2>5. ~(Cardinality(S) > 1)
    BY <2>3, <2>4
  <2> QED
    BY <2>5 DEF S
<1>5. Complete(R) \in SUBSET R
  BY DEF Complete
<1>6. IsFiniteSet(Complete(R)) /\ n \in Nat
  BY <1>5, FS_Subset, FS_CardinalityType
<1>7. ASSUME ~bad PROVE m = n + 1
  <2>1. Complete(more) = Complete(R) \cup {a} /\ a \notin Complete(R)
    BY <1>7 DEF Complete
  <2> QED
    BY <1>6, <2>1, FS_AddElement
<1>8. R = {} => n = 0
  <2>1. R = {} => Complete(R) = {}
    BY <1>5
  <2> QED
    BY <2>1, FS_EmptySet
<1>9. a.kind \in Clean => ~bad
  BY DEF Clean, Metrics
<1>10. Lacks(R) = IF R = {} \/ Invalid(R) # {} THEN M ELSE IF n < M THEN M - n ELSE 0
  BY <1>4 DEF Lacks
<1>11. Lacks(more) = IF Invalid(more) # {} THEN M ELSE IF m < M THEN M - m ELSE 0
  BY <1>3 DEF Lacks
<1> HIDE DEF n, m, M, bad
<1>12. CASE bad
  <2>1. Lacks(more) = M
    BY <1>2, <1>11, <1>12
  <2>2. Lacks(R) <= M /\ Lacks(R) \in Nat
    BY <1>1, <1>6, <1>10
  <2> QED
    BY <1>1, <1>9, <1>12, <2>1, <2>2
<1>13. CASE ~bad /\ Invalid(R) # {}
  <2>1. Lacks(more) = M /\ Lacks(R) = M
    BY <1>2, <1>10, <1>11, <1>13
  <2> QED
    BY <1>1, <2>1
<1>14. CASE ~bad /\ Invalid(R) = {}
  <2>1. m = n + 1 /\ Lacks(more) = IF m < M THEN M - m ELSE 0
    BY <1>2, <1>7, <1>11, <1>14
  <2>2. Lacks(R) = IF n < M THEN M - n ELSE 0
    BY <1>1, <1>8, <1>10, <1>14
  <2> QED
    BY <1>1, <1>6, <2>1, <2>2
<1> QED
  BY <1>12, <1>13, <1>14

\* The total of the plan, when no scenario needs alignment.
TotalIsSum ==
    EvidenceTyped /\ minimum_additional_complete_attempts # None =>
        /\ minimum_additional_complete_attempts
             = SumFunction(LacksOf(collected, identities \X PILOT_IDS))
        /\ \A x \in identities \X PILOT_IDS :
             ~(Cardinality({a.pack : a \in RowsOf(collected, x)}) > 1)

\* It is so in every state ...
LEMMA PlanTotal == TotalIsSum
<1> SUFFICES ASSUME EvidenceTyped, minimum_additional_complete_attempts # None
             PROVE  /\ minimum_additional_complete_attempts
                         = SumFunction(LacksOf(collected, identities \X PILOT_IDS))
                    /\ \A x \in identities \X PILOT_IDS :
                         ~(Cardinality({a.pack : a \in RowsOf(collected, x)}) > 1)
  BY DEF TotalIsSum
<1> DEFINE X == identities \X PILOT_IDS
           f == [x \in X |-> Additional(x[1], x[2])]
<1>1. \A p \in PILOT_IDS : ~(Cardinality(UNION {packs(c, p) : c \in identities}) > 1)
  BY DEF minimum_additional_complete_attempts
<1>2. minimum_additional_complete_attempts = SumFunction(f)
  BY <1>1 DEF minimum_additional_complete_attempts
<1>3. ASSUME NEW c, NEW p, NEW x, x[1] = c, x[2] = p
      PROVE  On(c, p) = RowsOf(collected, x)
  BY <1>3 DEF On, Of, RowsOf
<1>4. ASSUME NEW x \in X PROVE Additional(x[1], x[2]) = Lacks(RowsOf(collected, x))
  <2>1. On(x[1], x[2]) = RowsOf(collected, x)
    BY <1>3
  <2>2. packs(x[1], x[2]) = {a.pack : a \in RowsOf(collected, x)}
    BY <2>1 DEF packs
  <2> QED
    BY <2>1, <2>2 DEF Additional, ConfigurationState, Lacks
<1>5. f = LacksOf(collected, X)
  BY <1>4 DEF LacksOf
<1>6. ASSUME NEW x \in X
      PROVE  ~(Cardinality({a.pack : a \in RowsOf(collected, x)}) > 1)
  <2> DEFINE U == UNION {packs(d, x[2]) : d \in identities}
             S == {a.pack : a \in RowsOf(collected, x)}
  <2>1. IsFiniteSet(U) /\ \A d \in identities : \A a \in On(d, x[2]) : a.pack \in U
    BY PacksOfScenario
  <2>2. On(x[1], x[2]) = RowsOf(collected, x) /\ x[1] \in identities /\ x[2] \in PILOT_IDS
    BY <1>3
  <2>3. S \in SUBSET U
    BY <2>1, <2>2
  <2>4. ~(Cardinality(U) > 1)
    BY <1>1, <2>2
  <2> HIDE DEF S, U
  <2>5. Cardinality(S) <= Cardinality(U) /\ Cardinality(S) \in Nat /\ Cardinality(U) \in Nat
    BY <2>1, <2>3, FS_Subset, FS_CardinalityType
  <2>6. ~(Cardinality(S) > 1)
    BY <2>4, <2>5
  <2> QED
    BY <2>6 DEF S
<1> HIDE DEF f
<1> QED
  BY <1>2, <1>5, <1>6

\* ... and in the next.
LEMMA PlanTotalNext == TotalIsSum'
BY PlanTotal, PTL

\* What the cells lack adds up to a number.
LEMMA TotalNat ==
    ASSUME NEW attempts, IsFiniteSet(attempts), NEW cells, IsFiniteSet(cells)
    PROVE  SumFunction(LacksOf(attempts, cells)) \in Nat
<1> DEFINE w == LacksOf(attempts, cells)
<1>1. DOMAIN w = cells
  BY DEF LacksOf
<1>2. \A y \in cells : w[y] \in Nat
  <2> TAKE y \in cells
  <2>1. RowsOf(attempts, y) \in SUBSET attempts
    BY DEF RowsOf
  <2>2. IsFiniteSet(RowsOf(attempts, y))
    BY <2>1, FS_Subset
  <2> QED
    BY <2>2, LacksNat DEF LacksOf
<1> HIDE DEF w
<1>3. Sigma(w, cells) \in Nat
  BY <1>2, SigmaNat
<1>4. SumFunction(w) = Sigma(w, cells)
  BY <1>1, <1>2, SumOfFunction DEF SumFunction
<1> QED
  BY <1>3, <1>4 DEF w

\* One more attempt changes what one cell lacks, and the total by as much.
LEMMA OneMoreInTotal ==
    ASSUME NEW old, IsFiniteSet(old), NEW a, a \notin old, NEW new, new = old \cup {a},
           NEW cells, IsFiniteSet(cells), NEW x \in cells, x = <<a.identity, a.pilot_id>>,
           \A y \in cells : y = <<y[1], y[2]>>
    PROVE  SumFunction(LacksOf(old, cells)) + Lacks(RowsOf(new, x))
             = SumFunction(LacksOf(new, cells)) + Lacks(RowsOf(old, x))
<1> DEFINE w == LacksOf(old, cells)
           v == LacksOf(new, cells)
<1>1. IsFiniteSet(new)
  BY FS_AddElement
<1>2. DOMAIN w = cells /\ DOMAIN v = cells
  BY DEF LacksOf
<1>3. \A y \in cells : w[y] = Lacks(RowsOf(old, y)) /\ v[y] = Lacks(RowsOf(new, y))
  BY DEF LacksOf
<1>4. \A y \in cells : w[y] \in Nat /\ v[y] \in Nat
  <2> TAKE y \in cells
  <2>1. RowsOf(old, y) \in SUBSET old /\ RowsOf(new, y) \in SUBSET new
    BY DEF RowsOf
  <2>2. IsFiniteSet(RowsOf(old, y)) /\ IsFiniteSet(RowsOf(new, y))
    BY <1>1, <2>1, FS_Subset
  <2> QED
    BY <1>3, <2>2, LacksNat
<1>5. \A y \in cells : y # x => v[y] = w[y]
  <2> TAKE y \in cells
  <2> HAVE y # x
  <2>1. ~(a.identity = y[1] /\ a.pilot_id = y[2])
    OBVIOUS
  <2>2. RowsOf(new, y) = RowsOf(old, y)
    BY <2>1 DEF RowsOf
  <2> QED
    BY <1>3, <2>2
<1> HIDE DEF w, v
<1>6. Sigma(w, cells) + v[x] = Sigma(v, cells) + w[x]
  BY ONLY <1>4, <1>5, IsFiniteSet(cells), x \in cells, SigmaUpdate
<1>7. SumFunction(w) = Sigma(w, cells) /\ SumFunction(v) = Sigma(v, cells)
  BY <1>2, <1>4, SumOfFunction DEF SumFunction
<1> QED
  BY <1>3, <1>6, <1>7 DEF w, v

\* PlanIsLowerBound of one step.
TotalStep ==
    LET before == minimum_additional_complete_attempts
        after  == minimum_additional_complete_attempts'
    IN \A a \in collected' \ collected :
         identities' = identities /\ before # None /\ after # None =>
             /\ after >= before - 1
             /\ a.kind \in Clean => after <= before

\* A step that adds an attempt adds one, of a known kind.
LEMMA StepAddsOne ==
    ASSUME [NextEvidence]_evidence, NEW a \in collected' \ collected
    PROVE  collected' = collected \cup {a} /\ a.kind \in Kinds /\ a.pilot_id \in PILOT_IDS
<1>1. ASSUME NEW d \in RunDirs, NEW p \in PILOT_IDS, NEW c \in Configurations,
             NEW k \in Kinds, Collect(d, p, c, k)
      PROVE  collected' = collected \cup {a} /\ a.kind \in Kinds /\ a.pilot_id \in PILOT_IDS
  <2> DEFINE b == [run |-> d, identity |-> c, pilot_id |-> p, pack |-> version[p], kind |-> k,
                   n |-> Cardinality({x \in In(d) : x.identity = c /\ x.kind = k}) + 1]
  <2>1. collected' = collected \cup {b} /\ b.pilot_id = p /\ b.kind = k
    BY <1>1 DEF Collect
  <2> HIDE DEF b
  <2>2. a = b
    BY <2>1
  <2> QED
    BY <2>1, <2>2
<1>2. ASSUME NEW p \in PILOT_IDS, Revise(p) PROVE FALSE
  BY <1>2 DEF Revise
<1>3. ASSUME NEW d \in RunDirs, Exclude(d) PROVE FALSE
  BY <1>3 DEF Exclude
<1>4. CASE UNCHANGED evidence
  BY <1>4 DEF evidence
<1> QED
  BY <1>1, <1>2, <1>3, <1>4 DEF NextEvidence

\* Every step satisfies it.
LEMMA TotalOfStep == EvidenceTyped /\ EvidenceTyped' /\ [NextEvidence]_evidence => [TotalStep]_evidence
<1> SUFFICES ASSUME EvidenceTyped, EvidenceTyped', [NextEvidence]_evidence,
                    NEW a \in collected' \ collected, identities' = identities,
                    minimum_additional_complete_attempts # None,
                    minimum_additional_complete_attempts' # None
             PROVE  /\ minimum_additional_complete_attempts'
                         >= minimum_additional_complete_attempts - 1
                    /\ a.kind \in Clean => minimum_additional_complete_attempts'
                                             <= minimum_additional_complete_attempts
  BY DEF TotalStep
<1> DEFINE cells == identities \X PILOT_IDS
           x     == <<a.identity, a.pilot_id>>
           old   == collected
           new   == collected'
<1>1. new = old \cup {a} /\ a \notin old /\ a.kind \in Kinds /\ a.pilot_id \in PILOT_IDS
  BY StepAddsOne
<1>2. x \in cells
  <2>1. a.identity \in identities'
    BY <1>1 DEF identities
  <2> QED
    BY <1>1, <2>1
<1>3. /\ minimum_additional_complete_attempts = SumFunction(LacksOf(old, cells))
      /\ minimum_additional_complete_attempts' = SumFunction(LacksOf(new, cells))
      /\ ~(Cardinality({b.pack : b \in RowsOf(new, x)}) > 1)
  <2>1. minimum_additional_complete_attempts = SumFunction(LacksOf(old, cells))
    BY PlanTotal DEF TotalIsSum
  <2>2. /\ minimum_additional_complete_attempts'
             = SumFunction(LacksOf(collected', identities' \X PILOT_IDS))
        /\ \A y \in identities' \X PILOT_IDS :
             ~(Cardinality({b.pack : b \in RowsOf(collected', y)}) > 1)
    BY PlanTotalNext DEF TotalIsSum
  <2> QED
    BY <1>2, <2>1, <2>2
<1>4. IsFiniteSet(old) /\ IsFiniteSet(cells) /\ \A y \in cells : y = <<y[1], y[2]>>
  BY EvidenceFinite, FS_Product, PortfolioAssumption DEF EvidenceTyped
<1>5. /\ RowsOf(new, x) = RowsOf(old, x) \cup {a} /\ a \notin RowsOf(old, x)
      /\ RowsOf(old, x) \in SUBSET old
  BY <1>1 DEF RowsOf
<1>6. IsFiniteSet(RowsOf(old, x)) /\ IsFiniteSet(RowsOf(new, x))
  BY <1>4, <1>5, FS_Subset, FS_AddElement
<1>7. x = <<a.identity, a.pilot_id>>
  OBVIOUS
<1> HIDE DEF cells, x, old, new
<1>8. SumFunction(LacksOf(old, cells)) + Lacks(RowsOf(new, x))
        = SumFunction(LacksOf(new, cells)) + Lacks(RowsOf(old, x))
  BY <1>1, <1>2, <1>4, <1>7, OneMoreInTotal
<1>9. /\ Lacks(RowsOf(new, x)) >= Lacks(RowsOf(old, x)) - 1
      /\ a.kind \in Clean => Lacks(RowsOf(new, x)) <= Lacks(RowsOf(old, x))
  BY <1>1, <1>3, <1>5, <1>6, OneMoreAttempt
<1>10. Lacks(RowsOf(new, x)) \in Nat /\ Lacks(RowsOf(old, x)) \in Nat
  BY <1>6, LacksNat
<1>11. SumFunction(LacksOf(old, cells)) \in Int /\ SumFunction(LacksOf(new, cells)) \in Int
  <2>1. IsFiniteSet(new)
    BY <1>1, <1>4, FS_AddElement
  <2> QED
    BY <1>4, <2>1, TotalNat
<1> QED
  BY <1>3, <1>8, <1>9, <1>10, <1>11

\* _evidence_collection_plan: one more attempt lowers the total by one at most,
\* and one that every gate accepts never raises it, for any scenarios, repeats,
\* configurations and evidence.
THEOREM PlanIsNeverOptimistic == PortfolioSpec => PlanIsLowerBound
<1>1. PortfolioSpec => [][TotalStep]_evidence
  BY EvidenceTypedAlways, TotalOfStep, PTL DEF PortfolioSpec
<1>2. PlanIsLowerBound <=> [][TotalStep]_evidence
  BY DEF PlanIsLowerBound, TotalStep
<1> QED
  BY <1>1, <1>2
=============================================================================
