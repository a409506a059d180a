---------------------------- MODULE Round4Proofs ----------------------------
(***************************************************************************)
(* Proofs about Round4, for every list of tasks, every number of attempts, *)
(* every agent and any number of commands, kills and failures.             *)
(***************************************************************************)
EXTENDS Round4, TLAPS, FiniteSetTheorems, SequenceTheorems

Busy == {"agent", "turn", "judge", "save", "grade", "dump"}

TranscriptRecords == [by : Nat, raw : RawTurns]

\* Every variable has its type; `denied` is a set of paths of any shape.
TypeOK ==
    /\ backend \in Backends /\ mode \in Modes
    /\ stateDir \subseteq Ids
    /\ meta \in [Ids -> MetaRecords \cup {Missing}]
    /\ transcript \in [Ids -> Seq(TranscriptRecords)]
    /\ repoAfter \in [Ids -> Works \cup {Missing}]
    /\ gradeFile \in [Ids -> GradeRecords \cup {Missing, Torn}]
    /\ runJson \in Payloads \cup {Missing, Torn}
    /\ pc \in {"idle", "check", "attempt", "write", "rewrite"} \cup Busy
    /\ run \in 0..MaxRuns /\ faults \in 0..MaxFaults
    /\ at \in Nat /\ turn \in Nat
    /\ id \in Ids \cup {Missing}
    /\ session \in Sessions \cup {Missing}
    /\ grades \in Seq(GradeRecords) /\ errors \in Seq(Units)

\* Where the command is in its plan.
InPlan ==
    /\ pc = "check" => at = 1 /\ grades = <<>> /\ errors = <<>>
    /\ pc \in {"attempt"} \cup Busy => at \in 1..(Len(Plan) + 1)
    /\ pc \in Busy => /\ at <= Len(Plan) /\ id \in stateDir
                      /\ id[1] = Unit[1] /\ id[2] = Unit[2]

\* A directory that no command has taken is empty, and the retries of an attempt
\* are taken in order.
Untaken ==
    \A i \in Ids : i \notin stateDir =>
        /\ meta[i] = Missing /\ transcript[i] = <<>>
        /\ repoAfter[i] = Missing /\ gradeFile[i] = Missing

TakenInOrder ==
    \A i \in stateDir : \A q \in 0..(i[3] - 1) : <<i[1], i[2], q>> \in stateDir

\* How far the directory of the attempt has come.
Progress ==
    /\ pc = "agent" => meta[id] = Missing /\ transcript[id] = <<>> /\ turn = 0
    /\ pc \in Busy \ {"agent"} => meta[id] # Missing /\ meta[id].by = run
    /\ pc = "turn" => Len(transcript[id]) = turn /\ turn < Prompts(id[1])
    /\ pc = "judge" => Len(transcript[id]) = turn + 1 /\ turn < Prompts(id[1])
    /\ pc \in {"save", "grade", "dump"} =>
           Len(transcript[id]) = turn /\ turn = Prompts(id[1])
    /\ pc \in {"agent", "turn", "judge", "save"} => repoAfter[id] = Missing
    /\ pc \in {"grade", "dump"} => repoAfter[id] # Missing /\ repoAfter[id].by = run
    /\ pc \in Busy \ {"dump"} => gradeFile[id] = Missing
    /\ pc = "dump" => gradeFile[id] = Torn
    /\ pc \in Busy => \A n \in 1..Len(transcript[id]) : transcript[id][n].by = run

\* One command wrote all of a directory.
WrittenBy(i, r) ==
    /\ meta[i] # Missing => meta[i].by = r
    /\ \A n \in 1..Len(transcript[i]) : transcript[i][n].by = r
    /\ repoAfter[i] # Missing => repoAfter[i].by = r
    /\ gradeFile[i] \notin {Missing, Torn} => gradeFile[i].by = r

OneWriter == \A i \in Ids : \E r \in Nat : WrittenBy(i, r)

\* The turns so far of the attempt, and all turns of a graded one.
GoodTurns(i, n, s) ==
    /\ \A k \in 1..n : ~CommonFailure(transcript[i][k].raw)
    /\ backend # "codex_cli" /\ n > 0 =>
         /\ transcript[i][1].raw.sessions = {s}
         /\ \A k \in 1..n : transcript[i][k].raw.sessions \subseteq {s}

Conversation ==
    pc \in Busy =>
        /\ turn = 0 => session = Missing
        /\ backend = "pi_cli" /\ turn > 0 => session = "own"
        /\ backend # "codex_cli" /\ turn > 0 => session # Missing
        /\ GoodTurns(id, turn, session)

WholeGrades ==
    \A i \in Ids : gradeFile[i] \notin {Missing, Torn} =>
        /\ Len(transcript[i]) = Prompts(i[1]) /\ gradeFile[i].heard = Prompts(i[1])
        /\ \E s : GoodTurns(i, Len(transcript[i]), s)

\* The boundary around the attempt.
InSight ==
    mode = "macos_seatbelt" /\ pc \in Busy =>
        /\ \A i \in stateDir \ {id} : /\ <<"state", i[1], i[2], i[3]>> \in denied
                                      /\ <<"evidence", i[1], i[2]>> \in denied
        /\ <<"state", id[1], id[2], id[3]>> \notin denied

Probed ==
    mode = "macos_seatbelt" /\ pc \in Busy \ {"agent"} =>
        /\ meta[id].host.leaks = {} /\ meta[id].host.external = "denied"
        /\ meta[id].host.reachable

\* Grades and errors settle the first n attempts of the plan, each in one way, ...
UnitOf(g) == <<g.task, g.attempt>>

Settles(G, E, n) ==
    /\ \A k \in 1..Len(G) : \E m \in 1..n : UnitOf(G[k]) = Plan[m]
    /\ \A k \in 1..Len(E) : \E m \in 1..n : E[k] = Plan[m]
    /\ \A m \in 1..n : \/ \E k \in 1..Len(E) : E[k] = Plan[m]
                       \/ \E k \in 1..Len(G) : UnitOf(G[k]) = Plan[m]
    /\ \A j, k \in 1..Len(G) : UnitOf(G[j]) = UnitOf(G[k]) => j = k
    /\ \A j \in 1..Len(E), k \in 1..Len(G) : E[j] # UnitOf(G[k])

\* ... and each of the grades is that of the working copy that is still saved.
Backed(G) ==
    \A k \in 1..Len(G) :
        /\ EvidenceId(G[k]) \in stateDir /\ (pc \in Busy => EvidenceId(G[k]) # id)
        /\ repoAfter[EvidenceId(G[k])] # Missing /\ repoAfter[EvidenceId(G[k])].good = G[k].pass

MemorySettles ==
    /\ pc \in {"attempt"} \cup Busy => Settles(grades, errors, at - 1)
    /\ pc \in {"write", "rewrite"} => Settles(grades, errors, Len(Plan))
    /\ pc # "idle" => Backed(grades)

FileSettles ==
    runJson \notin {Missing, Torn} =>
        Settles(runJson.grades, runJson.errors, Len(Plan)) /\ Backed(runJson.grades)

IInv ==
    /\ TypeOK /\ InPlan /\ Untaken /\ TakenInOrder /\ Progress /\ OneWriter
    /\ Conversation /\ WholeGrades /\ InSight /\ Probed /\ MemorySettles /\ FileSettles

-----------------------------------------------------------------------------
(***************************************************************************)
(* The plan and the operators.                                             *)
(***************************************************************************)

\* Division with remainder by a positive number.
LEMMA Division ==
    ASSUME NEW n \in Nat, NEW R \in Nat \ {0}
    PROVE  /\ n \div R \in Nat /\ n % R \in 0..(R - 1)
           /\ n = R * (n \div R) + (n % R)
BY Z3

\* A position of the product of two ranges.
LEMMA Position ==
    ASSUME NEW R \in Nat \ {0}, NEW q \in Nat, NEW r \in 0..(R - 1)
    PROVE  (R * q + r) \div R = q /\ (R * q + r) % R = r
BY Z3

\* The plan of the two loops of v4_runner.main lists each task and repetition once.
LEMMA PlanFacts ==
    /\ Len(Plan) = Len(Tasks) * Repeats /\ Len(Plan) \in Nat
    /\ \A n \in 1..Len(Plan) : Plan[n] \in Units
    /\ Plan \in Seq(Units)
    /\ \A m, n \in 1..Len(Plan) : Plan[m] = Plan[n] => m = n
    /\ \A u \in Units : \E n \in 1..Len(Plan) : Plan[n] = u
<1> DEFINE L == Len(Tasks) * Repeats
<1>1. Len(Tasks) \in Nat /\ Repeats \in Nat \ {0} /\ L \in Nat
  BY PlanAssumption
<1>2. Plan = [n \in 1..L |-> <<Tasks[1 + ((n - 1) \div Repeats)], 1 + ((n - 1) % Repeats)>>]
  BY DEF Plan
<1>3. ASSUME NEW n \in 1..L
      PROVE  /\ 1 + ((n - 1) \div Repeats) \in 1..Len(Tasks)
             /\ 1 + ((n - 1) % Repeats) \in 1..Repeats
             /\ n = Repeats * ((n - 1) \div Repeats) + ((n - 1) % Repeats) + 1
  <2>1. /\ n - 1 \in Nat
        /\ (n - 1) \div Repeats \in Nat /\ (n - 1) % Repeats \in 0..(Repeats - 1)
        /\ n - 1 = Repeats * ((n - 1) \div Repeats) + ((n - 1) % Repeats)
    <3>1. n - 1 \in Nat
      BY <1>1
    <3> HIDE DEF L
    <3> QED
      BY <1>1, <3>1, Division
  <2>2. ASSUME NEW q \in Nat, NEW r \in 0..(Repeats - 1), Repeats * q + r < Len(Tasks) * Repeats
        PROVE  q < Len(Tasks)
    <3>1. Repeats * q < Repeats * Len(Tasks)
      BY <1>1, <2>2
    <3> QED
      BY <1>1, <3>1
  <2>3. (n - 1) \div Repeats < Len(Tasks)
    BY <2>1, <2>2, <1>1
  <2> QED
    BY <1>1, <2>1, <2>3
<1>4. Len(Plan) = L
  BY <1>1, <1>2
<1>5. ASSUME NEW n \in 1..L
      PROVE  Plan[n] \in Units
  BY <1>1, <1>2, <1>3 DEF Units
<1>6. Plan \in Seq(Units)
  BY <1>1, <1>2, <1>5
<1>7. ASSUME NEW m \in 1..L, NEW n \in 1..L, Plan[m] = Plan[n]
      PROVE  m = n
  <2>1. /\ Tasks[1 + ((m - 1) \div Repeats)] = Tasks[1 + ((n - 1) \div Repeats)]
        /\ 1 + ((m - 1) % Repeats) = 1 + ((n - 1) % Repeats)
    BY <1>2, <1>7
  <2>2. 1 + ((m - 1) \div Repeats) = 1 + ((n - 1) \div Repeats)
    BY <1>3, <2>1, PlanAssumption
  <2>3. (m - 1) \div Repeats = (n - 1) \div Repeats /\ (m - 1) % Repeats = (n - 1) % Repeats
    <3>1. /\ (m - 1) \div Repeats \in Int /\ (n - 1) \div Repeats \in Int
          /\ (m - 1) % Repeats \in Int /\ (n - 1) % Repeats \in Int
      BY <1>1, Division
    <3> QED
      BY <2>1, <2>2, <3>1
  <2>4. /\ m = Repeats * ((m - 1) \div Repeats) + ((m - 1) % Repeats) + 1
        /\ n = Repeats * ((n - 1) \div Repeats) + ((n - 1) % Repeats) + 1
    BY <1>3
  <2> QED
    BY <2>3, <2>4
<1>8. ASSUME NEW u \in Units
      PROVE  \E n \in 1..L : Plan[n] = u
  <2>1. PICK i \in 1..Len(Tasks), a \in 1..Repeats : u = <<Tasks[i], a>>
    BY DEF Units
  <2> DEFINE n == Repeats * (i - 1) + (a - 1) + 1
  <2>2. /\ (n - 1) \div Repeats = i - 1 /\ (n - 1) % Repeats = a - 1
    <3>1. i - 1 \in Nat /\ a - 1 \in 0..(Repeats - 1)
      BY <1>1
    <3>2. n - 1 = Repeats * (i - 1) + (a - 1)
      BY <1>1
    <3> QED
      BY <1>1, <3>1, <3>2, Position, ZenonT(60)
  <2>3. n \in 1..L
    <3>1. Repeats * (i - 1) \in Nat /\ Repeats * i <= L /\ Repeats * (i - 1) = Repeats * i - Repeats
      BY <1>1
    <3> QED
      BY <1>1, <3>1
  <2>4. Plan[n] = <<Tasks[1 + (i - 1)], 1 + (a - 1)>>
    BY <1>2, <2>2, <2>3
  <2>5. 1 + (i - 1) = i /\ 1 + (a - 1) = a
    BY <1>1
  <2>6. Plan[n] = u
    BY <2>1, <2>4, <2>5
  <2> QED
    BY <2>3, <2>6
<1> QED
  BY <1>1, <1>4, <1>5, <1>6, <1>7, <1>8

\* An evidence directory belongs to a unit of the plan.
LEMMA IdFacts ==
    /\ \A u \in Units : /\ u = <<u[1], u[2]>> /\ u[1] \in DOMAIN Authored /\ u[2] \in Nat
                         /\ u[2] >= 1 /\ u[2] <= Repeats
    /\ \A i \in Ids : /\ i = <<i[1], i[2], i[3]>> /\ <<i[1], i[2]>> \in Units
                       /\ i[1] \in DOMAIN Authored /\ i[2] \in Nat /\ i[3] \in 0..MaxRetry
    /\ \A u \in Units, r \in 0..MaxRetry : <<u[1], u[2], r>> \in Ids
    /\ MaxRetry \in Nat
<1>1. \A u \in Units : /\ u = <<u[1], u[2]>> /\ u[1] \in DOMAIN Authored /\ u[2] \in Nat
                       /\ u[2] >= 1 /\ u[2] <= Repeats
  BY PlanAssumption DEF Units
<1>2. ASSUME NEW i \in Ids
      PROVE  /\ i = <<i[1], i[2], i[3]>> /\ <<i[1], i[2]>> \in Units
             /\ i[1] \in DOMAIN Authored /\ i[2] \in Nat /\ i[3] \in 0..MaxRetry
  <2>1. PICK u \in Units, r \in 0..MaxRetry : i = <<u[1], u[2], r>>
    BY DEF Ids
  <2> QED
    BY <1>1, <2>1
<1>3. \A u \in Units, r \in 0..MaxRetry : <<u[1], u[2], r>> \in Ids
  BY DEF Ids
<1>4. MaxRetry \in Nat
  BY PlanAssumption DEF MaxRetry
<1> QED
  BY <1>1, <1>2, <1>3, <1>4

\* A conversation has at least one prompt.
LEMMA PromptsFact == \A t : Prompts(t) \in Nat /\ Prompts(t) >= 1
BY PlanAssumption DEF Prompts

\* The unit of an attempt is one of the plan.
LEMMA UnitFact ==
    ASSUME TypeOK, InPlan, pc \in Busy \/ (pc = "attempt" /\ at <= Len(Plan))
    PROVE  at \in 1..Len(Plan) /\ Unit \in Units
<1>1. at \in 1..Len(Plan)
  BY PlanFacts DEF TypeOK, InPlan, Busy
<1> QED
  BY <1>1, PlanFacts DEF Unit

\* The size of an interval.
LEMMA RangeCardinality == \A k \in Nat : IsFiniteSet(1..k) /\ Cardinality(1..k) = k
<1> TAKE k \in Nat
<1>1. /\ IsFiniteSet(1..k)
      /\ Cardinality(1..k) = IF 1 > k THEN 0 ELSE k - 1 + 1
  BY FS_Interval
<1> QED
  BY <1>1

\* regrade keeps every grade of a file whose working copies are all there, in its
\* place and with its verdict.
LEMMA Regrading ==
    ASSUME TypeOK, FileSettles, runJson \notin {Missing, Torn}
    PROVE  /\ Regraded \in Seq(GradeRecords) /\ Len(Regraded) = Len(runJson.grades)
           /\ \A n \in 1..Len(runJson.grades) :
                /\ Regraded[n].task = runJson.grades[n].task
                /\ Regraded[n].attempt = runJson.grades[n].attempt
                /\ Regraded[n].retry = runJson.grades[n].retry
                /\ Regraded[n].pass = runJson.grades[n].pass
<1> DEFINE old == runJson.grades
           L == Len(runJson.grades)
           Again(g) == GradeOf(<<g.task, g.attempt>>, g.retry, repoAfter[EvidenceId(g)],
                               Len(transcript[EvidenceId(g)]))
           kept == {n \in 1..L : repoAfter[EvidenceId(old[n])] # Missing}
<1>1. runJson \in Payloads /\ old \in Seq(GradeRecords) /\ L \in Nat
  BY DEF TypeOK, Payloads
<1>2. \A n \in 1..L : /\ EvidenceId(old[n]) \in Ids /\ repoAfter[EvidenceId(old[n])] \in Works
                      /\ repoAfter[EvidenceId(old[n])] # Missing
                      /\ repoAfter[EvidenceId(old[n])].good = old[n].pass
  BY DEF FileSettles, Backed, TypeOK
<1>3. kept = 1..L
  BY <1>2
<1>4. ASSUME NEW k \in 1..L
      PROVE  Cardinality({j \in 1..L : j <= k}) = k
  <2>1. {j \in 1..L : j <= k} = 1..k
    BY <1>1
  <2>2. k \in Nat
    BY <1>1
  <2>3. Cardinality(1..k) = k
    BY <2>2, RangeCardinality
  <2> QED
    BY <2>1, <2>3
<1>5. ASSUME NEW n \in 1..L
      PROVE  Nth(kept, n) = n
  <2>1. \A k \in 1..L : Cardinality({j \in 1..L : j <= k}) = n <=> k = n
    BY <1>4
  <2> QED
    BY <1>3, <2>1 DEF Nth
<1>6. Cardinality(kept) = L
  BY <1>1, <1>3, RangeCardinality
<1>7. Regraded = [n \in 1..Cardinality(kept) |-> Again(old[Nth(kept, n)])]
  BY DEF Regraded
<1>8. Regraded = [n \in 1..L |-> Again(old[n])]
  <2> HIDE DEF kept, Again
  <2> QED
    BY <1>5, <1>6, <1>7
<1>9. ASSUME NEW n \in 1..L
      PROVE  /\ Again(old[n]) \in GradeRecords
             /\ Again(old[n]).task = old[n].task /\ Again(old[n]).attempt = old[n].attempt
             /\ Again(old[n]).retry = old[n].retry /\ Again(old[n]).pass = old[n].pass
  <2>1. old[n] \in GradeRecords
    BY <1>1
  <2>2. Len(transcript[EvidenceId(old[n])]) \in Nat
    BY <1>2 DEF TypeOK
  <2>3. /\ repoAfter[EvidenceId(old[n])].by \in Nat /\ repoAfter[EvidenceId(old[n])].good = old[n].pass
    BY <1>2 DEF Works
  <2> QED
    BY <2>1, <2>2, <2>3 DEF GradeOf, GradeRecords
<1> QED
  <2> HIDE DEF Again
  <2> QED
    BY <1>1, <1>8, <1>9

-----------------------------------------------------------------------------
(***************************************************************************)
(* The invariant, conjunct by conjunct.                                    *)
(***************************************************************************)

\* An attempt that raises leaves well-formed lists.
LEMMA RaiseType ==
    ASSUME TypeOK, InPlan, pc \in Busy, Raise
    PROVE  at' \in Nat /\ errors' \in Seq(Units) /\ grades' = grades /\ pc' = "attempt"
<1>1. Unit \in Units /\ errors \in Seq(Units) /\ at \in Nat
  BY UnitFact DEF TypeOK
<1> QED
  BY <1>1 DEF Raise

\* A fault is counted within its bound.
LEMMA FaultType == TypeOK /\ Fault => faults' \in 0..MaxFaults
BY PlanAssumption DEF TypeOK, Fault

\* The session that a wrapper returns.
LEMMA ReturnedType ==
    ASSUME TypeOK, NEW raw \in RawTurns
    PROVE  Returned(raw) \in Sessions \cup {Missing}
<1>1. raw.sessions # {} => (CHOOSE s \in raw.sessions : TRUE) \in raw.sessions
  OBVIOUS
<1>2. raw.sessions \subseteq Sessions
  BY DEF Sessions
<1>3. Requested \in Sessions \cup {Missing}
  BY DEF Requested, Sessions, TypeOK
<1> QED
  BY <1>1, <1>2, <1>3 DEF Returned

\* A judged turn is one more entry of agent_meta.json.
LEMMA JudgeMeta ==
    ASSUME TypeOK, InPlan, Progress, JudgeTurn
    PROVE  /\ pc = "judge" /\ id \in Ids /\ transcript[id][turn + 1].raw \in RawTurns
           /\ Returned(transcript[id][turn + 1].raw) \in Sessions \cup {Missing}
           /\ meta' \in [Ids -> MetaRecords \cup {Missing}]
           /\ \A i \in Ids : i # id => meta'[i] = meta[i]
           /\ meta'[id] \in MetaRecords /\ meta'[id] # Missing
           /\ meta'[id].by = meta[id].by /\ meta'[id].host = meta[id].host
<1> DEFINE raw == transcript[id][turn + 1].raw
<1>1. pc = "judge" /\ id \in Ids /\ meta[id] \in MetaRecords
  BY DEF JudgeTurn, InPlan, Progress, TypeOK, Busy
<1>2. raw \in RawTurns
  <2>1. transcript[id] \in Seq(TranscriptRecords) /\ turn + 1 \in 1..Len(transcript[id])
    BY <1>1 DEF Progress, TypeOK
  <2>2. transcript[id][turn + 1] \in TranscriptRecords
    BY <2>1
  <2> QED
    BY <2>2 DEF TranscriptRecords
<1> HIDE DEF raw
<1>3. Returned(raw) \in Sessions \cup {Missing}
  BY <1>2, ReturnedType
<1> DEFINE turns == Append(meta[id].turns, [session |-> Returned(raw)])
           new == [meta[id] EXCEPT !.turns = turns]
<1>4. meta' = [meta EXCEPT ![id] = new]
  BY DEF JudgeTurn, raw
<1>5. turns \in Seq([session : Sessions \cup {Missing}])
  <2>1. /\ meta[id].turns \in Seq([session : Sessions \cup {Missing}])
        /\ [session |-> Returned(raw)] \in [session : Sessions \cup {Missing}]
    BY <1>1, <1>3 DEF MetaRecords
  <2> QED
    BY <2>1
<1> HIDE DEF turns
<1>6. new \in MetaRecords /\ new.by = meta[id].by /\ new.host = meta[id].host
  BY <1>1, <1>5 DEF MetaRecords
<1> HIDE DEF new
<1> QED
  BY <1>1, <1>2, <1>3, <1>4, <1>6, SentinelAssumption DEF TypeOK, raw

\* Every step keeps the types.
LEMMA TypeStep == IInv /\ [Next]_vars => TypeOK'
<1> SUFFICES ASSUME IInv, [Next]_vars PROVE TypeOK'
  OBVIOUS
<1>0. TypeOK /\ InPlan /\ Progress /\ FileSettles
  BY DEF IInv
<1>1. CASE Start
  BY <1>0, <1>1, PlanAssumption
  DEF Start, disk, TypeOK, Busy
<1>2. CASE Regrade
  <2>1. runJson \in Payloads /\ Regraded \in Seq(GradeRecords)
    BY <1>0, <1>2, Regrading DEF Regrade, TypeOK
  <2> QED
    BY <1>0, <1>2, <2>1 DEF Regrade, TypeOK, Payloads
<1>3. ASSUME NEW server \in {"frontier", "serving", "down", "other_model"},
             NEW armed \in BOOLEAN, NEW dry \in BOOLEAN, Check(server, armed, dry)
       PROVE  TypeOK'
  BY <1>0, <1>3
  DEF Check, disk, TypeOK, Busy
<1>4. CASE PickDirectory
  <2>1. id' \in Ids
    BY <1>0, <1>4, UnitFact, IdFacts DEF PickDirectory
  <2> QED
    BY <1>0, <1>4, <2>1 DEF PickDirectory, TypeOK, Busy
<1>5. ASSUME NEW host \in Hosts, SaveMetadata(host)
       PROVE  TypeOK'
  <2>1. pc = "agent" /\ id \in Ids
    BY <1>0, <1>5 DEF SaveMetadata, InPlan, TypeOK, Busy
  <2>2. /\ [by |-> run, host |-> Missing, turns |-> <<>>] \in MetaRecords
        /\ [by |-> run, turns |-> <<>>,
            host |-> IF mode = "none" THEN Missing ELSE Boundary(host)] \in MetaRecords
    BY <1>0, <1>5 DEF MetaRecords, TypeOK
  <2>3. meta' \in [Ids -> MetaRecords \cup {Missing}]
    BY <1>0, <1>5, <2>1, <2>2 DEF SaveMetadata, TypeOK
  <2>4. /\ at' \in Nat /\ errors' \in Seq(Units) /\ grades' \in Seq(GradeRecords)
        /\ faults' \in 0..MaxFaults /\ pc' \in {"turn", "attempt"}
    BY <1>0, <1>5, <2>1, RaiseType, FaultType DEF SaveMetadata, TypeOK, Busy
  <2> QED
    BY <1>0, <1>5, <2>3, <2>4 DEF SaveMetadata, TypeOK, Busy
<1>6. CASE RefuseTurn
  <2>1. at' \in Nat /\ errors' \in Seq(Units) /\ grades' = grades /\ pc' = "attempt"
    BY <1>0, <1>6, RaiseType DEF RefuseTurn, Busy
  <2> QED
    BY <1>0, <1>6, <2>1 DEF RefuseTurn, disk, TypeOK
<1>7. ASSUME NEW raw \in RawTurns, RunTurn(raw)
       PROVE  TypeOK'
  <2>1. id \in Ids /\ faults' \in 0..MaxFaults
    BY <1>0, <1>7, FaultType DEF RunTurn, InPlan, TypeOK, Busy
  <2>2. [by |-> run, raw |-> raw] \in TranscriptRecords
    BY <1>0, <1>7 DEF TranscriptRecords, TypeOK
  <2>3. transcript' \in [Ids -> Seq(TranscriptRecords)]
    <3>1. Append(transcript[id], [by |-> run, raw |-> raw]) \in Seq(TranscriptRecords)
      BY <1>0, <2>1, <2>2 DEF TypeOK
    <3> QED
      BY <1>0, <1>7, <2>1, <3>1 DEF RunTurn, TypeOK
  <2> QED
    BY <1>0, <1>7, <2>1, <2>3 DEF RunTurn, TypeOK, Busy
<1>8. CASE JudgeTurn
  <2> DEFINE raw == transcript[id][turn + 1].raw
  <2>1. pc = "judge" /\ meta' \in [Ids -> MetaRecords \cup {Missing}]
    BY <1>0, <1>8, JudgeMeta
  <2>3. Returned(raw) \in Sessions \cup {Missing}
    BY <1>0, <1>8, JudgeMeta
  <2> HIDE DEF raw
  <2>5. /\ at' \in Nat /\ errors' \in Seq(Units) /\ grades' = grades
        /\ pc' \in {"attempt", "save", "turn"} /\ turn' \in Nat
        /\ session' \in Sessions \cup {Missing}
    <3>1. CASE Failure(raw)
      BY <1>0, <1>8, <2>1, <3>1, RaiseType DEF JudgeTurn, TypeOK, Busy, raw
    <3>2. CASE ~Failure(raw)
      BY <1>0, <1>8, <2>3, <3>2 DEF JudgeTurn, TypeOK, raw
    <3> QED
      BY <3>1, <3>2
  <2> QED
    BY <1>0, <1>8, <2>1, <2>5 DEF JudgeTurn, TypeOK, Busy
<1>9. ASSUME NEW good \in BOOLEAN, SaveRepo(good)
       PROVE  TypeOK'
  <2>1. id \in Ids
    BY <1>0, <1>9 DEF SaveRepo, InPlan, TypeOK, Busy
  <2>2. [by |-> run, good |-> good] \in Works
    BY <1>0, <1>9 DEF Works, TypeOK
  <2>3. repoAfter' \in [Ids -> Works \cup {Missing}]
    BY <1>0, <1>9, <2>1, <2>2 DEF SaveRepo, TypeOK
  <2> QED
    BY <1>0, <1>9, <2>3 DEF SaveRepo, TypeOK, Busy
<1>10. ASSUME NEW raises \in BOOLEAN, OpenGrade(raises)
       PROVE  TypeOK'
  <2>1. pc = "grade" /\ id \in Ids
    BY <1>0, <1>10 DEF OpenGrade, InPlan, TypeOK, Busy
  <2>2. /\ at' \in Nat /\ errors' \in Seq(Units) /\ grades' = grades
        /\ faults' \in 0..MaxFaults /\ pc' \in {"dump", "attempt"}
    BY <1>0, <1>10, <2>1, RaiseType, FaultType DEF OpenGrade, TypeOK, Busy
  <2>3. gradeFile' \in [Ids -> GradeRecords \cup {Missing, Torn}]
    BY <1>0, <1>10, <2>1 DEF OpenGrade, TypeOK
  <2> QED
    BY <1>0, <1>10, <2>2, <2>3 DEF OpenGrade, TypeOK, Busy
<1>11. CASE DumpGrade
  <2> DEFINE g == GradeOf(Unit, id[3], repoAfter[id], turn)
  <2>1. pc = "dump" /\ id \in Ids /\ repoAfter[id] \in Works
    BY <1>0, <1>11 DEF DumpGrade, InPlan, Progress, TypeOK, Busy
  <2>2. Unit[1] \in DOMAIN Authored /\ Unit[2] \in Nat /\ id[3] \in Nat
    <3>1. Unit \in Units
      BY <1>0, <2>1, UnitFact DEF Busy
    <3>2. id[3] \in 0..MaxRetry /\ MaxRetry \in Nat
      BY <2>1, IdFacts
    <3>3. Unit[1] \in DOMAIN Authored /\ Unit[2] \in Nat
      BY <3>1, IdFacts
    <3> QED
      BY <3>2, <3>3
  <2>3. g \in GradeRecords
    BY <1>0, <2>1, <2>2 DEF GradeOf, GradeRecords, Works, TypeOK
  <2>4. /\ gradeFile' \in [Ids -> GradeRecords \cup {Missing, Torn}]
        /\ grades' \in Seq(GradeRecords)
    <3> HIDE DEF g
    <3>1. gradeFile' = [gradeFile EXCEPT ![id] = g] /\ grades' = Append(grades, g)
      BY <1>11 DEF DumpGrade, g
    <3> QED
      BY <1>0, <2>1, <2>3, <3>1 DEF TypeOK
  <2> QED
    BY <1>0, <1>11, <2>4 DEF DumpGrade, TypeOK, Busy
<1>12. CASE OpenRunJson
  BY <1>0, <1>12
  DEF OpenRunJson, TypeOK, Busy
<1>13. CASE DumpRunJson
  BY <1>0, <1>13
  DEF DumpRunJson, TypeOK, Busy, Payloads
<1>14. CASE DumpRegraded
  BY <1>0, <1>14
  DEF DumpRegraded, TypeOK, Busy, Payloads
<1>15. CASE Kill
  <2>1. faults' \in 0..MaxFaults
    BY <1>0, <1>15, FaultType DEF Kill
  <2> QED
    BY <1>0, <1>15, <2>1 DEF Kill, disk, TypeOK
<1>16. CASE UNCHANGED vars
  BY <1>0, <1>16
  DEF vars, disk, TypeOK, Busy
<1> QED
  BY <1>1, <1>2, <1>3, <1>4, <1>5, <1>6, <1>7, <1>8, <1>9, <1>10, <1>11, <1>12, <1>13, <1>14,
     <1>15, <1>16 DEF Next, Step, Done

\* A command goes through its plan one attempt at a time.
LEMMA InPlanStep == IInv /\ [Next]_vars => InPlan'
<1> SUFFICES ASSUME IInv, [Next]_vars PROVE InPlan'
  OBVIOUS
<1>0. TypeOK /\ InPlan
  BY DEF IInv
<1>1. CASE Start
  BY <1>0, <1>1, PlanFacts
  DEF Start, disk, TypeOK, InPlan, Busy, Unit
<1>2. CASE Regrade
  BY <1>0, <1>2, PlanFacts
  DEF Regrade, TypeOK, InPlan, Busy, Unit
<1>3. ASSUME NEW server \in {"frontier", "serving", "down", "other_model"},
             NEW armed \in BOOLEAN, NEW dry \in BOOLEAN, Check(server, armed, dry)
       PROVE  InPlan'
  BY <1>0, <1>3, PlanFacts
  DEF Check, disk, TypeOK, InPlan, Busy, Unit
<1>4. CASE PickDirectory
  <2>1. at \in 1..Len(Plan)
    BY <1>0, <1>4, UnitFact DEF PickDirectory
  <2>2. id'[1] = Unit[1] /\ id'[2] = Unit[2] /\ id' \in stateDir'
    BY <1>4 DEF PickDirectory
  <2> QED
    BY <1>0, <1>4, <2>1, <2>2 DEF PickDirectory, InPlan, TypeOK, Busy, Unit
<1>5. ASSUME NEW host \in Hosts, SaveMetadata(host)
       PROVE  InPlan'
  <2>1. at \in 1..Len(Plan) /\ Len(Plan) \in Nat
    BY <1>0, <1>5, UnitFact, PlanFacts DEF SaveMetadata, Busy
  <2> QED
    BY <1>0, <1>5, <2>1, SMTT(40) DEF SaveMetadata, Raise, InPlan, TypeOK, Busy, Unit
<1>6. CASE RefuseTurn
  <2>1. at \in 1..Len(Plan) /\ Len(Plan) \in Nat
    BY <1>0, <1>6, UnitFact, PlanFacts DEF RefuseTurn, Busy
  <2> QED
    BY <1>0, <1>6, <2>1 DEF RefuseTurn, Raise, InPlan, TypeOK, Busy, Unit
<1>7. ASSUME NEW raw \in RawTurns, RunTurn(raw)
       PROVE  InPlan'
  BY <1>0, <1>7, PlanFacts
  DEF RunTurn, Fault, TypeOK, InPlan, Busy, Unit
<1>8. CASE JudgeTurn
  <2>1. at \in 1..Len(Plan) /\ Len(Plan) \in Nat
    BY <1>0, <1>8, UnitFact, PlanFacts DEF JudgeTurn, Busy
  <2>2. /\ pc' \in {"turn", "save", "attempt"} /\ id' = id /\ stateDir' = stateDir
        /\ (pc' = "attempt" /\ at' = at + 1) \/ (pc' # "attempt" /\ at' = at)
    BY <1>8 DEF JudgeTurn, Raise
  <2> QED
    BY <1>0, <1>8, <2>1, <2>2, SMTT(40) DEF JudgeTurn, InPlan, TypeOK, Busy, Unit
<1>9. ASSUME NEW good \in BOOLEAN, SaveRepo(good)
       PROVE  InPlan'
  BY <1>0, <1>9, PlanFacts
  DEF SaveRepo, TypeOK, InPlan, Busy, Unit
<1>10. ASSUME NEW raises \in BOOLEAN, OpenGrade(raises)
       PROVE  InPlan'
  <2>1. at \in 1..Len(Plan) /\ Len(Plan) \in Nat
    BY <1>0, <1>10, UnitFact, PlanFacts DEF OpenGrade, Busy
  <2> QED
    BY <1>0, <1>10, <2>1, SMTT(40) DEF OpenGrade, Raise, InPlan, TypeOK, Busy, Unit
<1>11. CASE DumpGrade
  <2>1. at \in 1..Len(Plan) /\ Len(Plan) \in Nat
    BY <1>0, <1>11, UnitFact, PlanFacts DEF DumpGrade, Busy
  <2> QED
    BY <1>0, <1>11, <2>1 DEF DumpGrade, Raise, InPlan, TypeOK, Busy, Unit
<1>12. CASE OpenRunJson
  BY <1>0, <1>12, PlanFacts
  DEF OpenRunJson, TypeOK, InPlan, Busy, Unit
<1>13. CASE DumpRunJson
  BY <1>0, <1>13, PlanFacts
  DEF DumpRunJson, TypeOK, InPlan, Busy, Unit
<1>14. CASE DumpRegraded
  BY <1>0, <1>14, PlanFacts
  DEF DumpRegraded, TypeOK, InPlan, Busy, Unit
<1>15. CASE Kill
  BY <1>0, <1>15, PlanFacts
  DEF Kill, Fault, disk, TypeOK, InPlan, Busy, Unit
<1>16. CASE UNCHANGED vars
  BY <1>0, <1>16, PlanFacts
  DEF vars, disk, TypeOK, InPlan, Busy, Unit
<1> QED
  BY <1>1, <1>2, <1>3, <1>4, <1>5, <1>6, <1>7, <1>8, <1>9, <1>10, <1>11, <1>12, <1>13, <1>14,
     <1>15, <1>16 DEF Next, Step, Done

\* Only the directory of the attempt is written to.
LEMMA UntakenStep == IInv /\ [Next]_vars => Untaken'
<1> SUFFICES ASSUME IInv, [Next]_vars PROVE Untaken'
  OBVIOUS
<1>0. TypeOK /\ InPlan /\ Untaken
  BY DEF IInv
<1>1. CASE Start
  BY <1>0, <1>1
  DEF Start, disk, TypeOK, InPlan, Untaken, Busy
<1>2. CASE Regrade
  BY <1>0, <1>2
  DEF Regrade, TypeOK, InPlan, Untaken, Busy
<1>3. ASSUME NEW server \in {"frontier", "serving", "down", "other_model"},
             NEW armed \in BOOLEAN, NEW dry \in BOOLEAN, Check(server, armed, dry)
       PROVE  Untaken'
  BY <1>0, <1>3
  DEF Check, disk, TypeOK, InPlan, Untaken, Busy
<1>4. CASE PickDirectory
  BY <1>0, <1>4
  DEF PickDirectory, TypeOK, InPlan, Untaken, Busy
<1>5. ASSUME NEW host \in Hosts, SaveMetadata(host)
       PROVE  Untaken'
  BY <1>0, <1>5
  DEF SaveMetadata, Raise, Fault, TypeOK, InPlan, Untaken, Busy
<1>6. CASE RefuseTurn
  BY <1>0, <1>6
  DEF RefuseTurn, Raise, disk, TypeOK, InPlan, Untaken, Busy
<1>7. ASSUME NEW raw \in RawTurns, RunTurn(raw)
       PROVE  Untaken'
  BY <1>0, <1>7
  DEF RunTurn, Fault, TypeOK, InPlan, Untaken, Busy
<1>8. CASE JudgeTurn
  <2>1. /\ id \in stateDir /\ stateDir' = stateDir /\ transcript' = transcript
        /\ repoAfter' = repoAfter /\ gradeFile' = gradeFile
        /\ \A i \in Ids : i # id => meta'[i] = meta[i]
    BY <1>0, <1>8 DEF JudgeTurn, InPlan, TypeOK, Busy
  <2> QED
    BY <1>0, <2>1 DEF Untaken
<1>9. ASSUME NEW good \in BOOLEAN, SaveRepo(good)
       PROVE  Untaken'
  BY <1>0, <1>9
  DEF SaveRepo, TypeOK, InPlan, Untaken, Busy
<1>10. ASSUME NEW raises \in BOOLEAN, OpenGrade(raises)
       PROVE  Untaken'
  BY <1>0, <1>10
  DEF OpenGrade, Raise, Fault, TypeOK, InPlan, Untaken, Busy
<1>11. CASE DumpGrade
  BY <1>0, <1>11
  DEF DumpGrade, TypeOK, InPlan, Untaken, Busy
<1>12. CASE OpenRunJson
  BY <1>0, <1>12
  DEF OpenRunJson, TypeOK, InPlan, Untaken, Busy
<1>13. CASE DumpRunJson
  BY <1>0, <1>13
  DEF DumpRunJson, TypeOK, InPlan, Untaken, Busy
<1>14. CASE DumpRegraded
  BY <1>0, <1>14
  DEF DumpRegraded, TypeOK, InPlan, Untaken, Busy
<1>15. CASE Kill
  BY <1>0, <1>15
  DEF Kill, Fault, disk, TypeOK, InPlan, Untaken, Busy
<1>16. CASE UNCHANGED vars
  BY <1>0, <1>16
  DEF vars, disk, TypeOK, InPlan, Untaken, Busy
<1> QED
  BY <1>1, <1>2, <1>3, <1>4, <1>5, <1>6, <1>7, <1>8, <1>9, <1>10, <1>11, <1>12, <1>13, <1>14,
     <1>15, <1>16 DEF Next, Step, Done

\* The retries of an attempt are taken in order.
LEMMA TakenInOrderStep == IInv /\ [Next]_vars => TakenInOrder'
<1> SUFFICES ASSUME IInv, [Next]_vars PROVE TakenInOrder'
  OBVIOUS
<1>0. TypeOK /\ InPlan /\ Untaken /\ TakenInOrder
  BY DEF IInv
<1>1. CASE Start
  BY <1>0, <1>1
  DEF Start, disk, TakenInOrder
<1>2. CASE Regrade
  BY <1>0, <1>2
  DEF Regrade, TakenInOrder
<1>3. ASSUME NEW server \in {"frontier", "serving", "down", "other_model"},
             NEW armed \in BOOLEAN, NEW dry \in BOOLEAN, Check(server, armed, dry)
       PROVE  TakenInOrder'
  BY <1>0, <1>3
  DEF Check, disk, TakenInOrder
<1>4. CASE PickDirectory
  <2>1. PICK r \in 0..MaxRetry : /\ id' = <<Unit[1], Unit[2], r>>
                                 /\ \A q \in 0..(r - 1) : ~Free(<<Unit[1], Unit[2], q>>)
    BY <1>4 DEF PickDirectory
  <2>2. \A q \in 0..(r - 1) : <<Unit[1], Unit[2], q>> \in stateDir
    <3>1. Unit \in Units /\ MaxRetry \in Nat
      BY <1>0, <1>4, UnitFact, IdFacts DEF PickDirectory
    <3> TAKE q \in 0..(r - 1)
    <3>2. <<Unit[1], Unit[2], q>> \in Ids
      BY <3>1, IdFacts
    <3> QED
      BY <1>0, <2>1, <3>2 DEF Free, Untaken
  <2>3. stateDir' = stateDir \cup {<<Unit[1], Unit[2], r>>}
    BY <1>4, <2>1 DEF PickDirectory
  <2>4. ASSUME NEW i \in stateDir', NEW q \in 0..(i[3] - 1)
        PROVE  <<i[1], i[2], q>> \in stateDir'
    <3>1. CASE i \in stateDir
      BY <1>0, <2>3, <3>1 DEF TakenInOrder
    <3>2. CASE i = <<Unit[1], Unit[2], r>>
      <4>1. i[1] = Unit[1] /\ i[2] = Unit[2] /\ i[3] = r
        BY <3>2
      <4> QED
        BY <2>2, <2>3, <4>1
    <3> QED
      BY <2>3, <3>1, <3>2
  <2> QED
    BY <2>4 DEF TakenInOrder
<1>5. ASSUME NEW host \in Hosts, SaveMetadata(host)
       PROVE  TakenInOrder'
  BY <1>0, <1>5
  DEF SaveMetadata, Raise, Fault, TakenInOrder
<1>6. CASE RefuseTurn
  BY <1>0, <1>6
  DEF RefuseTurn, Raise, disk, TakenInOrder
<1>7. ASSUME NEW raw \in RawTurns, RunTurn(raw)
       PROVE  TakenInOrder'
  BY <1>0, <1>7
  DEF RunTurn, Fault, TakenInOrder
<1>8. CASE JudgeTurn
  BY <1>0, <1>8
  DEF JudgeTurn, Raise, TakenInOrder
<1>9. ASSUME NEW good \in BOOLEAN, SaveRepo(good)
       PROVE  TakenInOrder'
  BY <1>0, <1>9
  DEF SaveRepo, TakenInOrder
<1>10. ASSUME NEW raises \in BOOLEAN, OpenGrade(raises)
       PROVE  TakenInOrder'
  BY <1>0, <1>10
  DEF OpenGrade, Raise, Fault, TakenInOrder
<1>11. CASE DumpGrade
  BY <1>0, <1>11
  DEF DumpGrade, TakenInOrder
<1>12. CASE OpenRunJson
  BY <1>0, <1>12
  DEF OpenRunJson, TakenInOrder
<1>13. CASE DumpRunJson
  BY <1>0, <1>13
  DEF DumpRunJson, TakenInOrder
<1>14. CASE DumpRegraded
  BY <1>0, <1>14
  DEF DumpRegraded, TakenInOrder
<1>15. CASE Kill
  BY <1>0, <1>15
  DEF Kill, Fault, disk, TakenInOrder
<1>16. CASE UNCHANGED vars
  BY <1>0, <1>16
  DEF vars, disk, TakenInOrder
<1> QED
  BY <1>1, <1>2, <1>3, <1>4, <1>5, <1>6, <1>7, <1>8, <1>9, <1>10, <1>11, <1>12, <1>13, <1>14,
     <1>15, <1>16 DEF Next, Step, Done

\* The steps of an attempt follow one another.
LEMMA ProgressStep == IInv /\ [Next]_vars => Progress'
<1> SUFFICES ASSUME IInv, [Next]_vars PROVE Progress'
  OBVIOUS
<1>0. TypeOK /\ InPlan /\ Untaken /\ Progress
  BY DEF IInv
<1>1. CASE Start
  BY <1>0, <1>1, PromptsFact
  DEF Start, disk, Progress, Busy
<1>2. CASE Regrade
  BY <1>0, <1>2, PromptsFact
  DEF Regrade, Progress, Busy
<1>3. ASSUME NEW server \in {"frontier", "serving", "down", "other_model"},
             NEW armed \in BOOLEAN, NEW dry \in BOOLEAN, Check(server, armed, dry)
       PROVE  Progress'
  BY <1>0, <1>3, PromptsFact
  DEF Check, disk, Progress, Busy
<1>4. CASE PickDirectory
  <2>1. id' \in Ids /\ id' \notin stateDir
    <3>1. PICK r \in 0..MaxRetry : Free(<<Unit[1], Unit[2], r>>) /\ id' = <<Unit[1], Unit[2], r>>
      BY <1>4 DEF PickDirectory
    <3>2. Unit \in Units
      BY <1>0, <1>4, UnitFact DEF PickDirectory
    <3> QED
      BY <3>1, <3>2, IdFacts DEF Free
  <2>2. /\ meta[id'] = Missing /\ transcript[id'] = <<>> /\ repoAfter[id'] = Missing
        /\ gradeFile[id'] = Missing
    BY <1>0, <2>1 DEF Untaken
  <2> QED
    BY <1>4, <2>2 DEF PickDirectory, Progress, Busy
<1>5. ASSUME NEW host \in Hosts, SaveMetadata(host)
       PROVE  Progress'
  <2>1. id \in Ids
    BY <1>0, <1>5 DEF SaveMetadata, InPlan, TypeOK, Busy
  <2>2. CASE pc' = "attempt"
    BY <2>2 DEF Progress, Busy
  <2>3. CASE pc' = "turn"
    <3>1. meta'[id] = [by |-> run, turns |-> <<>>,
                       host |-> IF mode = "none" THEN Missing ELSE Boundary(host)]
      BY <1>0, <1>5, <2>1, <2>3 DEF SaveMetadata, Raise, TypeOK
    <3>2. meta'[id] # Missing /\ meta'[id].by = run
      <4>1. meta'[id] \in MetaRecords
        BY <1>0, <1>5, <3>1 DEF MetaRecords, TypeOK
      <4> QED
        BY <3>1, <4>1, SentinelAssumption
    <3>3. /\ id' = id /\ transcript' = transcript /\ turn' = turn /\ repoAfter' = repoAfter
          /\ gradeFile' = gradeFile /\ run' = run /\ pc = "agent"
      BY <1>5 DEF SaveMetadata
    <3> QED
      BY <1>0, <2>3, <3>2, <3>3, PromptsFact DEF Progress, Busy
  <2> QED
    BY <1>5, <2>2, <2>3 DEF SaveMetadata, Raise
<1>6. CASE RefuseTurn
  BY <1>0, <1>6, PromptsFact
  DEF RefuseTurn, Raise, disk, Progress, Busy
<1>7. ASSUME NEW raw \in RawTurns, RunTurn(raw)
       PROVE  Progress'
  <2>1. id \in Ids
    BY <1>0, <1>7 DEF RunTurn, InPlan, TypeOK, Busy
  <2>2. /\ transcript'[id] = Append(transcript[id], [by |-> run, raw |-> raw])
        /\ transcript[id] \in Seq(TranscriptRecords) /\ turn \in Nat
    BY <1>0, <1>7, <2>1 DEF RunTurn, TypeOK
  <2>3. /\ Len(transcript'[id]) = turn + 1
        /\ \A n \in 1..Len(transcript'[id]) : transcript'[id][n].by = run
    BY <1>0, <1>7, <2>2 DEF RunTurn, Progress, Busy
  <2> QED
    BY <1>0, <1>7, <2>3 DEF RunTurn, Progress, Busy
<1>8. CASE JudgeTurn
  <2>1. id \in Ids
    BY <1>0, <1>8 DEF JudgeTurn, InPlan, TypeOK, Busy
  <2>2. CASE pc' = "attempt"
    BY <2>2 DEF Progress, Busy
  <2>3. CASE pc' # "attempt"
    <3>1. /\ pc' = (IF turn + 1 = Prompts(Unit[1]) THEN "save" ELSE "turn") /\ turn' = turn + 1
          /\ id' = id /\ transcript' = transcript /\ repoAfter' = repoAfter
          /\ gradeFile' = gradeFile /\ run' = run /\ pc = "judge"
      BY <1>8, <2>3 DEF JudgeTurn, Raise
    <3>2. id[1] = Unit[1] /\ turn \in Nat /\ meta[id] # Missing /\ meta[id].by = run
      BY <1>0, <1>8 DEF JudgeTurn, InPlan, TypeOK, Busy, Progress
    <3>3. meta'[id] # Missing /\ meta'[id].by = run
      BY <1>0, <1>8, <3>2, JudgeMeta
    <3>4. turn + 1 # Prompts(id[1]) => turn + 1 < Prompts(id[1])
      BY <1>0, <3>1, <3>2, PromptsFact DEF Progress
    <3> QED
      BY <1>0, <3>1, <3>2, <3>3, <3>4, PromptsFact DEF Progress, Busy
  <2> QED
    BY <2>2, <2>3
<1>9. ASSUME NEW good \in BOOLEAN, SaveRepo(good)
       PROVE  Progress'
  <2>1. id \in Ids
    BY <1>0, <1>9 DEF SaveRepo, InPlan, TypeOK, Busy
  <2>2. repoAfter'[id] = [by |-> run, good |-> good]
    BY <1>0, <1>9, <2>1 DEF SaveRepo, TypeOK
  <2>3. [by |-> run, good |-> good] # Missing
    <3>1. [by |-> run, good |-> good] \in Works
      BY <1>0, <1>9 DEF Works, TypeOK
    <3> QED
      BY <3>1, SentinelAssumption
  <2> QED
    BY <1>0, <1>9, <2>2, <2>3 DEF SaveRepo, Progress, Busy
<1>10. ASSUME NEW raises \in BOOLEAN, OpenGrade(raises)
       PROVE  Progress'
  <2>1. id \in Ids
    BY <1>0, <1>10 DEF OpenGrade, InPlan, TypeOK, Busy
  <2> QED
    BY <1>0, <1>10, <2>1 DEF OpenGrade, Raise, Progress, Busy, TypeOK
<1>11. CASE DumpGrade
  BY <1>0, <1>11, PromptsFact
  DEF DumpGrade, Progress, Busy
<1>12. CASE OpenRunJson
  BY <1>0, <1>12, PromptsFact
  DEF OpenRunJson, Progress, Busy
<1>13. CASE DumpRunJson
  BY <1>0, <1>13, PromptsFact
  DEF DumpRunJson, Progress, Busy
<1>14. CASE DumpRegraded
  BY <1>0, <1>14, PromptsFact
  DEF DumpRegraded, Progress, Busy
<1>15. CASE Kill
  BY <1>0, <1>15, PromptsFact
  DEF Kill, Fault, disk, Progress, Busy
<1>16. CASE UNCHANGED vars
  BY <1>0, <1>16, PromptsFact
  DEF vars, disk, Progress, Busy
<1> QED
  BY <1>1, <1>2, <1>3, <1>4, <1>5, <1>6, <1>7, <1>8, <1>9, <1>10, <1>11, <1>12, <1>13, <1>14,
     <1>15, <1>16 DEF Next, Step, Done

-----------------------------------------------------------------------------
\* A step leaves a directory as it is.
Same(i) ==
    /\ meta'[i] = meta[i] /\ transcript'[i] = transcript[i]
    /\ repoAfter'[i] = repoAfter[i] /\ gradeFile'[i] = gradeFile[i]

\* A step only writes to the directory of the attempt in hand.
LEMMA OthersKept == IInv /\ [Next]_vars => (\A i \in Ids : (i = id /\ pc \in Busy) \/ Same(i))
<1> SUFFICES ASSUME IInv, [Next]_vars PROVE (\A i \in Ids : (i = id /\ pc \in Busy) \/ Same(i))
  OBVIOUS
<1>0. TypeOK /\ InPlan /\ Progress
  BY DEF IInv
<1>1. CASE Start
  BY <1>0, <1>1
  DEF Start, disk, Busy, TypeOK, Same
<1>2. CASE Regrade
  BY <1>0, <1>2
  DEF Regrade, Busy, TypeOK, Same, disk
<1>3. ASSUME NEW server \in {"frontier", "serving", "down", "other_model"},
             NEW armed \in BOOLEAN, NEW dry \in BOOLEAN, Check(server, armed, dry)
       PROVE  (\A i \in Ids : (i = id /\ pc \in Busy) \/ Same(i))
  BY <1>0, <1>3
  DEF Check, disk, Busy, TypeOK, Same
<1>4. CASE PickDirectory
  BY <1>0, <1>4
  DEF PickDirectory, Busy, TypeOK, Same, disk
<1>5. ASSUME NEW host \in Hosts, SaveMetadata(host)
       PROVE  (\A i \in Ids : (i = id /\ pc \in Busy) \/ Same(i))
  BY <1>0, <1>5
  DEF SaveMetadata, Raise, Fault, Busy, TypeOK, Same, disk
<1>6. CASE RefuseTurn
  BY <1>0, <1>6
  DEF RefuseTurn, Raise, disk, Busy, TypeOK, Same
<1>7. ASSUME NEW raw \in RawTurns, RunTurn(raw)
       PROVE  (\A i \in Ids : (i = id /\ pc \in Busy) \/ Same(i))
  BY <1>0, <1>7
  DEF RunTurn, Fault, Busy, TypeOK, Same, disk
<1>8. CASE JudgeTurn
  <2>1. pc = "judge" /\ \A i \in Ids : i # id => meta'[i] = meta[i]
    BY <1>0, <1>8, JudgeMeta
  <2> QED
    BY <1>8, <2>1 DEF JudgeTurn, Same, Busy
<1>9. ASSUME NEW good \in BOOLEAN, SaveRepo(good)
       PROVE  (\A i \in Ids : (i = id /\ pc \in Busy) \/ Same(i))
  BY <1>0, <1>9
  DEF SaveRepo, Busy, TypeOK, Same, disk
<1>10. ASSUME NEW raises \in BOOLEAN, OpenGrade(raises)
       PROVE  (\A i \in Ids : (i = id /\ pc \in Busy) \/ Same(i))
  BY <1>0, <1>10
  DEF OpenGrade, Raise, Fault, Busy, TypeOK, Same, disk
<1>11. CASE DumpGrade
  BY <1>0, <1>11
  DEF DumpGrade, Busy, TypeOK, Same, disk
<1>12. CASE OpenRunJson
  BY <1>0, <1>12
  DEF OpenRunJson, Busy, TypeOK, Same, disk
<1>13. CASE DumpRunJson
  BY <1>0, <1>13
  DEF DumpRunJson, Busy, TypeOK, Same, disk
<1>14. CASE DumpRegraded
  BY <1>0, <1>14
  DEF DumpRegraded, Busy, TypeOK, Same, disk
<1>15. CASE Kill
  BY <1>0, <1>15
  DEF Kill, Fault, disk, Busy, TypeOK, Same
<1>16. CASE UNCHANGED vars
  BY <1>0, <1>16
  DEF vars, disk, Busy, TypeOK, Same
<1> QED
  BY <1>1, <1>2, <1>3, <1>4, <1>5, <1>6, <1>7, <1>8, <1>9, <1>10, <1>11, <1>12, <1>13, <1>14,
     <1>15, <1>16 DEF Next, Step, Done

\* What is in the directory of the attempt is of this command.
LEMMA AttemptWritten == IInv /\ [Next]_vars => (\A i \in Ids : i = id /\ pc \in Busy => WrittenBy(i, run)')
<1> SUFFICES ASSUME IInv, [Next]_vars PROVE (\A i \in Ids : i = id /\ pc \in Busy => WrittenBy(i, run)')
  OBVIOUS
<1>0. TypeOK /\ InPlan /\ Progress
  BY DEF IInv
<1>1. CASE Start
  BY <1>0, <1>1, SentinelAssumption
  DEF Start, disk, Busy, TypeOK, Progress, WrittenBy
<1>2. CASE Regrade
  BY <1>0, <1>2, SentinelAssumption
  DEF Regrade, Busy, TypeOK, Progress, WrittenBy, disk
<1>3. ASSUME NEW server \in {"frontier", "serving", "down", "other_model"},
             NEW armed \in BOOLEAN, NEW dry \in BOOLEAN, Check(server, armed, dry)
       PROVE  (\A i \in Ids : i = id /\ pc \in Busy => WrittenBy(i, run)')
  BY <1>0, <1>3, SentinelAssumption
  DEF Check, disk, Busy, TypeOK, Progress, WrittenBy
<1>4. CASE PickDirectory
  BY <1>0, <1>4, SentinelAssumption
  DEF PickDirectory, Busy, TypeOK, Progress, WrittenBy, disk
<1>5. ASSUME NEW host \in Hosts, SaveMetadata(host)
       PROVE  (\A i \in Ids : i = id /\ pc \in Busy => WrittenBy(i, run)')
  <2>1. id \in Ids /\ pc = "agent"
    BY <1>0, <1>5 DEF SaveMetadata, InPlan, TypeOK, Busy
  <2>2. meta'[id].by = run
    BY <1>0, <1>5, <2>1 DEF SaveMetadata, TypeOK
  <2> QED
    BY <1>0, <1>5, <2>1, <2>2 DEF SaveMetadata, Progress, Busy, WrittenBy
<1>6. CASE RefuseTurn
  BY <1>0, <1>6, SentinelAssumption
  DEF RefuseTurn, Raise, disk, Busy, TypeOK, Progress, WrittenBy
<1>7. ASSUME NEW raw \in RawTurns, RunTurn(raw)
       PROVE  (\A i \in Ids : i = id /\ pc \in Busy => WrittenBy(i, run)')
  <2>1. id \in Ids
    BY <1>0, <1>7 DEF RunTurn, InPlan, TypeOK, Busy
  <2>2. /\ transcript'[id] = Append(transcript[id], [by |-> run, raw |-> raw])
        /\ transcript[id] \in Seq(TranscriptRecords)
    BY <1>0, <1>7, <2>1 DEF RunTurn, TypeOK
  <2>3. \A n \in 1..Len(transcript'[id]) : transcript'[id][n].by = run
    BY <1>0, <1>7, <2>2 DEF RunTurn, Progress, Busy
  <2> QED
    BY <1>0, <1>7, <2>3 DEF RunTurn, Progress, Busy, WrittenBy
<1>8. CASE JudgeTurn
  <2>1. pc = "judge" /\ meta'[id].by = meta[id].by
    BY <1>0, <1>8, JudgeMeta
  <2> QED
    BY <1>0, <1>8, <2>1 DEF JudgeTurn, Progress, Busy, WrittenBy
<1>9. ASSUME NEW good \in BOOLEAN, SaveRepo(good)
       PROVE  (\A i \in Ids : i = id /\ pc \in Busy => WrittenBy(i, run)')
  BY <1>0, <1>9, SentinelAssumption
  DEF SaveRepo, Busy, TypeOK, Progress, WrittenBy, disk
<1>10. ASSUME NEW raises \in BOOLEAN, OpenGrade(raises)
       PROVE  (\A i \in Ids : i = id /\ pc \in Busy => WrittenBy(i, run)')
  BY <1>0, <1>10, SentinelAssumption
  DEF OpenGrade, Raise, Fault, Busy, TypeOK, Progress, WrittenBy, disk
<1>11. CASE DumpGrade
  <2>1. id \in Ids /\ pc = "dump" /\ repoAfter[id].by = run
    BY <1>0, <1>11 DEF DumpGrade, InPlan, TypeOK, Busy, Progress
  <2>2. gradeFile'[id].by = run
    BY <1>0, <1>11, <2>1 DEF DumpGrade, TypeOK, GradeOf
  <2> QED
    BY <1>0, <1>11, <2>1, <2>2 DEF DumpGrade, Progress, Busy, WrittenBy
<1>12. CASE OpenRunJson
  BY <1>0, <1>12, SentinelAssumption
  DEF OpenRunJson, Busy, TypeOK, Progress, WrittenBy, disk
<1>13. CASE DumpRunJson
  BY <1>0, <1>13, SentinelAssumption
  DEF DumpRunJson, Busy, TypeOK, Progress, WrittenBy, disk
<1>14. CASE DumpRegraded
  BY <1>0, <1>14, SentinelAssumption
  DEF DumpRegraded, Busy, TypeOK, Progress, WrittenBy, disk
<1>15. CASE Kill
  BY <1>0, <1>15, SentinelAssumption
  DEF Kill, Fault, disk, Busy, TypeOK, Progress, WrittenBy
<1>16. CASE UNCHANGED vars
  BY <1>0, <1>16, SentinelAssumption
  DEF vars, disk, Busy, TypeOK, Progress, WrittenBy
<1> QED
  BY <1>1, <1>2, <1>3, <1>4, <1>5, <1>6, <1>7, <1>8, <1>9, <1>10, <1>11, <1>12, <1>13, <1>14,
     <1>15, <1>16 DEF Next, Step, Done

\* All that is in a directory stays of one command.
LEMMA OneWriterStep == IInv /\ [Next]_vars => OneWriter'
<1> SUFFICES ASSUME IInv, [Next]_vars PROVE OneWriter'
  OBVIOUS
<1>1. \A i \in Ids : (i = id /\ pc \in Busy) \/ Same(i)
  BY OthersKept
<1>2. ASSUME NEW i \in Ids
      PROVE  \E r \in Nat : WrittenBy(i, r)'
  <2>1. CASE i = id /\ pc \in Busy
    <3>1. WrittenBy(i, run)'
      BY <2>1, AttemptWritten
    <3>2. run' \in Nat
      BY TypeStep DEF TypeOK
    <3> QED
      BY <3>1, <3>2
  <2>2. CASE Same(i)
    BY <2>2 DEF IInv, OneWriter, WrittenBy, Same
  <2> QED
    BY <1>1, <2>1, <2>2
<1> QED
  BY <1>2 DEF OneWriter

\* A turn that did not fail, and the session that it is taken to be of.
LEMMA SessionFact ==
    ASSUME TypeOK, NEW raw \in RawTurns, ~Failure(raw)
    PROVE  /\ ~CommonFailure(raw)
           /\ backend # "codex_cli" =>
                /\ Returned(raw) # Missing /\ raw.sessions \subseteq {Returned(raw)}
                /\ session = Missing => raw.sessions = {Returned(raw)}
                /\ session # Missing => Returned(raw) = session
           /\ backend = "pi_cli" /\ session = Missing => Returned(raw) = "own"
<1>1. backend \in {"codex_cli", "opencode_cli", "pi_cli"}
  BY AgentAssumption DEF TypeOK
<1>2. CASE backend = "codex_cli"
  BY <1>2 DEF Failure, CodexFailure
<1>3. CASE backend = "opencode_cli"
  <2>1. ~OpenCodeFailure(raw, Requested) /\ Requested = session
    BY <1>3 DEF Failure, Requested
  <2>2. CASE session # Missing
    BY <1>3, <2>1, <2>2 DEF OpenCodeFailure, Returned
  <2>3. CASE session = Missing
    <3>1. raw.sessions # {} /\ ~(Cardinality(raw.sessions) > 1)
      BY <2>1, <2>3 DEF OpenCodeFailure
    <3>2. IsFiniteSet(raw.sessions) /\ Missing \notin raw.sessions
      BY AgentAssumption
    <3>3. PICK s : raw.sessions = {s}
      <4>1. Cardinality(raw.sessions) \in Nat /\ (Cardinality(raw.sessions) = 0 <=> raw.sessions = {})
        BY <3>2, FS_CardinalityType, FS_EmptySet
      <4>2. Cardinality(raw.sessions) = 1
        BY <3>1, <4>1
      <4> QED
        BY <3>2, <4>2, FS_Singleton
    <3>4. Returned(raw) = s
      BY <2>1, <2>3, <3>3 DEF Returned
    <3> QED
      BY <1>3, <2>1, <2>3, <3>2, <3>3, <3>4 DEF OpenCodeFailure
  <2> QED
    BY <2>2, <2>3
<1>4. CASE backend = "pi_cli"
  BY <1>4, SentinelAssumption DEF Failure, PiFailure, Requested, Returned
<1> QED
  BY <1>1, <1>2, <1>3, <1>4

\* The turns of an attempt are all well, and of one session where it has a name.
LEMMA ConversationStep == IInv /\ [Next]_vars => Conversation'
<1> SUFFICES ASSUME IInv, [Next]_vars PROVE Conversation'
  OBVIOUS
<1>0. TypeOK /\ InPlan /\ Progress /\ Conversation
  BY DEF IInv
<1>1. CASE Start
  BY <1>0, <1>1
  DEF Start, disk, Busy, Conversation, GoodTurns, CommonFailure
<1>2. CASE Regrade
  BY <1>0, <1>2
  DEF Regrade, Busy, Conversation, GoodTurns, CommonFailure, disk
<1>3. ASSUME NEW server \in {"frontier", "serving", "down", "other_model"},
             NEW armed \in BOOLEAN, NEW dry \in BOOLEAN, Check(server, armed, dry)
       PROVE  Conversation'
  BY <1>0, <1>3
  DEF Check, disk, Busy, Conversation, GoodTurns, CommonFailure
<1>4. CASE PickDirectory
  <2>1. turn' = 0 /\ session' = Missing
    BY <1>4 DEF PickDirectory
  <2> QED
    BY <2>1 DEF Conversation, GoodTurns
<1>5. ASSUME NEW host \in Hosts, SaveMetadata(host)
       PROVE  Conversation'
  <2>1. /\ pc' \in Busy => pc \in Busy
        /\ pc' \in Busy => id' = id /\ turn' = turn /\ session' = session
        /\ backend' = backend /\ mode' = mode /\ transcript' = transcript
    BY <1>5 DEF SaveMetadata, Raise, Busy
  <2> QED
    BY <1>0, <2>1 DEF Conversation, GoodTurns, CommonFailure
<1>6. CASE RefuseTurn
  BY <1>0, <1>6
  DEF RefuseTurn, Raise, disk, Busy, Conversation, GoodTurns, CommonFailure
<1>7. ASSUME NEW raw \in RawTurns, RunTurn(raw)
       PROVE  Conversation'
  <2>1. id \in Ids
    BY <1>0, <1>7 DEF RunTurn, InPlan, TypeOK, Busy
  <2>2. /\ transcript'[id] = Append(transcript[id], [by |-> run, raw |-> raw])
        /\ transcript[id] \in Seq(TranscriptRecords) /\ turn \in Nat /\ Len(transcript[id]) = turn
    BY <1>0, <1>7, <2>1 DEF RunTurn, TypeOK
  <2>3. \A k \in 1..turn : transcript'[id][k] = transcript[id][k]
    BY <2>2
  <2>4. /\ id' = id /\ turn' = turn /\ session' = session /\ backend' = backend /\ mode' = mode
        /\ pc \in Busy
    BY <1>7 DEF RunTurn, Busy
  <2>5. GoodTurns(id, turn, session)'
    BY <1>0, <2>2, <2>3, <2>4, SMTT(40) DEF Conversation, GoodTurns, CommonFailure
  <2> QED
    BY <1>0, <2>4, <2>5 DEF Conversation
<1>8. CASE JudgeTurn
  <2> DEFINE raw == transcript[id][turn + 1].raw
  <2>1. raw \in RawTurns /\ pc \in Busy /\ turn \in Nat
    BY <1>0, <1>8, JudgeMeta DEF TypeOK, Busy
  <2>2. CASE Failure(raw)
    BY <1>8, <2>2 DEF JudgeTurn, Raise, Conversation, Busy
  <2>3. CASE ~Failure(raw)
    <3>1. /\ session' = Returned(raw) /\ turn' = turn + 1 /\ id' = id /\ backend' = backend
          /\ mode' = mode /\ transcript' = transcript
      BY <1>8, <2>3 DEF JudgeTurn
    <3>2. /\ ~CommonFailure(raw)
          /\ backend # "codex_cli" =>
               /\ Returned(raw) # Missing /\ raw.sessions \subseteq {Returned(raw)}
               /\ session = Missing => raw.sessions = {Returned(raw)}
               /\ session # Missing => Returned(raw) = session
          /\ backend = "pi_cli" /\ session = Missing => Returned(raw) = "own"
      <4> HIDE DEF raw
      <4> QED
        BY <1>0, <2>1, <2>3, SessionFact
    <3>3. /\ turn = 0 => session = Missing
          /\ backend = "pi_cli" /\ turn > 0 => session = "own"
          /\ backend # "codex_cli" /\ turn > 0 => session # Missing
          /\ GoodTurns(id, turn, session)
      BY <1>0, <2>1 DEF Conversation
    <3>4. \A k \in 1..(turn + 1) : k \in 1..turn \/ k = turn + 1
      BY <2>1
    <3>5. \A k \in 1..(turn + 1) : ~CommonFailure(transcript[id][k].raw)
      BY <3>2, <3>3, <3>4 DEF GoodTurns
    <3>6. backend # "codex_cli" =>
             /\ transcript[id][1].raw.sessions = {Returned(raw)}
             /\ \A k \in 1..(turn + 1) : transcript[id][k].raw.sessions \subseteq {Returned(raw)}
      <4>1. CASE turn = 0
        BY <3>2, <3>3, <4>1
      <4>2. CASE turn > 0
        BY <3>2, <3>3, <3>4, <4>2 DEF GoodTurns
      <4> QED
        BY <2>1, <4>1, <4>2
    <3>7. GoodTurns(id, turn, session)'
      BY <3>1, <3>5, <3>6 DEF GoodTurns, CommonFailure
    <3>8. backend = "pi_cli" => Returned(raw) = "own"
      BY <2>1, <3>2, <3>3
    <3> QED
      BY <2>1, <3>1, <3>2, <3>7, <3>8 DEF Conversation
  <2> QED
    BY <2>2, <2>3
<1>9. ASSUME NEW good \in BOOLEAN, SaveRepo(good)
       PROVE  Conversation'
  <2>1. /\ pc' \in Busy => pc \in Busy
        /\ pc' \in Busy => id' = id /\ turn' = turn /\ session' = session
        /\ backend' = backend /\ mode' = mode /\ transcript' = transcript
    BY <1>9 DEF SaveRepo, Raise, Busy
  <2> QED
    BY <1>0, <2>1 DEF Conversation, GoodTurns, CommonFailure
<1>10. ASSUME NEW raises \in BOOLEAN, OpenGrade(raises)
       PROVE  Conversation'
  <2>1. /\ pc' \in Busy => pc \in Busy
        /\ pc' \in Busy => id' = id /\ turn' = turn /\ session' = session
        /\ backend' = backend /\ mode' = mode /\ transcript' = transcript
    BY <1>10 DEF OpenGrade, Raise, Busy
  <2> QED
    BY <1>0, <2>1 DEF Conversation, GoodTurns, CommonFailure
<1>11. CASE DumpGrade
  <2>1. /\ pc' \in Busy => pc \in Busy
        /\ pc' \in Busy => id' = id /\ turn' = turn /\ session' = session
        /\ backend' = backend /\ mode' = mode /\ transcript' = transcript
    BY <1>11 DEF DumpGrade, Raise, Busy
  <2> QED
    BY <1>0, <2>1 DEF Conversation, GoodTurns, CommonFailure
<1>12. CASE OpenRunJson
  BY <1>0, <1>12
  DEF OpenRunJson, Busy, Conversation, GoodTurns, CommonFailure, disk
<1>13. CASE DumpRunJson
  BY <1>0, <1>13
  DEF DumpRunJson, Busy, Conversation, GoodTurns, CommonFailure, disk
<1>14. CASE DumpRegraded
  BY <1>0, <1>14
  DEF DumpRegraded, Busy, Conversation, GoodTurns, CommonFailure, disk
<1>15. CASE Kill
  BY <1>0, <1>15
  DEF Kill, Fault, disk, Busy, Conversation, GoodTurns, CommonFailure
<1>16. CASE UNCHANGED vars
  BY <1>0, <1>16
  DEF vars, disk, Busy, Conversation, GoodTurns, CommonFailure
<1> QED
  BY <1>1, <1>2, <1>3, <1>4, <1>5, <1>6, <1>7, <1>8, <1>9, <1>10, <1>11, <1>12, <1>13, <1>14,
     <1>15, <1>16 DEF Next, Step, Done

\* The agent and its isolation are those of the configuration.
LEMMA SettingsKept == [Next]_vars => backend' = backend /\ mode' = mode
BY DEF Next, Step, Done, vars, Start, Regrade, Check, PickDirectory, SaveMetadata, RefuseTurn,
      RunTurn, JudgeTurn, SaveRepo, OpenGrade, DumpGrade, OpenRunJson, DumpRunJson, DumpRegraded,
      Kill

\* Only the last step of an attempt gives it a grade.
LEMMA GradeGiven == IInv /\ [Next]_vars => (pc \in Busy => (gradeFile'[id] \in {Missing, Torn} \/ DumpGrade))
<1> SUFFICES ASSUME IInv, [Next]_vars PROVE (pc \in Busy => (gradeFile'[id] \in {Missing, Torn} \/ DumpGrade))
  OBVIOUS
<1>0. TypeOK /\ InPlan /\ Progress
  BY DEF IInv
<1>1. CASE Start
  BY <1>0, <1>1
  DEF Start, disk, Busy, Progress, TypeOK
<1>2. CASE Regrade
  BY <1>0, <1>2
  DEF Regrade, Busy, Progress, TypeOK, disk
<1>3. ASSUME NEW server \in {"frontier", "serving", "down", "other_model"},
             NEW armed \in BOOLEAN, NEW dry \in BOOLEAN, Check(server, armed, dry)
       PROVE  (pc \in Busy => (gradeFile'[id] \in {Missing, Torn} \/ DumpGrade))
  BY <1>0, <1>3
  DEF Check, disk, Busy, Progress, TypeOK
<1>4. CASE PickDirectory
  BY <1>0, <1>4
  DEF PickDirectory, Busy, Progress, TypeOK, disk
<1>5. ASSUME NEW host \in Hosts, SaveMetadata(host)
       PROVE  (pc \in Busy => (gradeFile'[id] \in {Missing, Torn} \/ DumpGrade))
  BY <1>0, <1>5
  DEF SaveMetadata, Raise, Fault, Busy, Progress, TypeOK, disk
<1>6. CASE RefuseTurn
  BY <1>0, <1>6
  DEF RefuseTurn, Raise, disk, Busy, Progress, TypeOK
<1>7. ASSUME NEW raw \in RawTurns, RunTurn(raw)
       PROVE  (pc \in Busy => (gradeFile'[id] \in {Missing, Torn} \/ DumpGrade))
  BY <1>0, <1>7
  DEF RunTurn, Fault, Busy, Progress, TypeOK, disk
<1>8. CASE JudgeTurn
  BY <1>0, <1>8
  DEF JudgeTurn, Raise, Busy, Progress, TypeOK, disk
<1>9. ASSUME NEW good \in BOOLEAN, SaveRepo(good)
       PROVE  (pc \in Busy => (gradeFile'[id] \in {Missing, Torn} \/ DumpGrade))
  BY <1>0, <1>9
  DEF SaveRepo, Busy, Progress, TypeOK, disk
<1>10. ASSUME NEW raises \in BOOLEAN, OpenGrade(raises)
       PROVE  (pc \in Busy => (gradeFile'[id] \in {Missing, Torn} \/ DumpGrade))
  BY <1>0, <1>10
  DEF OpenGrade, Raise, Fault, Busy, Progress, TypeOK, disk
<1>11. CASE DumpGrade
  BY <1>0, <1>11
  DEF DumpGrade, Busy, Progress, TypeOK, disk
<1>12. CASE OpenRunJson
  BY <1>0, <1>12
  DEF OpenRunJson, Busy, Progress, TypeOK, disk
<1>13. CASE DumpRunJson
  BY <1>0, <1>13
  DEF DumpRunJson, Busy, Progress, TypeOK, disk
<1>14. CASE DumpRegraded
  BY <1>0, <1>14
  DEF DumpRegraded, Busy, Progress, TypeOK, disk
<1>15. CASE Kill
  BY <1>0, <1>15
  DEF Kill, Fault, disk, Busy, Progress, TypeOK
<1>16. CASE UNCHANGED vars
  BY <1>0, <1>16
  DEF vars, disk, Busy, Progress, TypeOK
<1> QED
  BY <1>1, <1>2, <1>3, <1>4, <1>5, <1>6, <1>7, <1>8, <1>9, <1>10, <1>11, <1>12, <1>13, <1>14,
     <1>15, <1>16 DEF Next, Step, Done

\* A grade is given to a whole conversation.
LEMMA WholeGradesStep == IInv /\ [Next]_vars => WholeGrades'
<1> SUFFICES ASSUME IInv, [Next]_vars PROVE WholeGrades'
  OBVIOUS
<1>1. \A i \in Ids : (i = id /\ pc \in Busy) \/ Same(i)
  BY OthersKept
<1>2. backend' = backend /\ mode' = mode
  BY SettingsKept
<1>3. ASSUME NEW i \in Ids, gradeFile'[i] \notin {Missing, Torn}
      PROVE  /\ Len(transcript'[i]) = Prompts(i[1]) /\ gradeFile'[i].heard = Prompts(i[1])
             /\ \E s : GoodTurns(i, Len(transcript[i]), s)'
  <2>1. CASE Same(i)
    <3>1. /\ transcript'[i] = transcript[i] /\ gradeFile'[i] = gradeFile[i]
      BY <2>1 DEF Same
    <3>2. /\ Len(transcript[i]) = Prompts(i[1]) /\ gradeFile[i].heard = Prompts(i[1])
          /\ \E s : GoodTurns(i, Len(transcript[i]), s)
      BY <1>3, <3>1 DEF IInv, WholeGrades
    <3>3. \A s : GoodTurns(i, Len(transcript[i]), s) => GoodTurns(i, Len(transcript[i]), s)'
      BY <1>2, <3>1 DEF GoodTurns, CommonFailure
    <3> QED
      BY <3>1, <3>2, <3>3
  <2>2. CASE i = id /\ pc \in Busy
    <3>1. DumpGrade
      BY <1>3, <2>2, GradeGiven
    <3>2. /\ Len(transcript[id]) = turn /\ turn = Prompts(id[1]) /\ transcript' = transcript
          /\ GoodTurns(id, turn, session)
      BY <2>2, <3>1 DEF IInv, Progress, Conversation, DumpGrade
    <3>3. gradeFile'[id].heard = turn
      BY <2>2, <3>1 DEF IInv, TypeOK, DumpGrade, GradeOf
    <3>4. \E s : GoodTurns(i, Len(transcript[i]), s)'
      <4>1. GoodTurns(i, Len(transcript[i]), session)
        BY <2>2, <3>2
      <4>2. \A s : GoodTurns(i, Len(transcript[i]), s) => GoodTurns(i, Len(transcript[i]), s)'
        BY <1>2, <3>2 DEF GoodTurns, CommonFailure
      <4> QED
        BY <4>1, <4>2
    <3> QED
      BY <2>2, <3>2, <3>3, <3>4
  <2> QED
    BY <1>1, <2>1, <2>2
<1> QED
  BY <1>3 DEF WholeGrades

\* What earlier attempts left stays out of the agent's sight.
LEMMA InSightStep == IInv /\ [Next]_vars => InSight'
<1> SUFFICES ASSUME IInv, [Next]_vars PROVE InSight'
  OBVIOUS
<1>0. TypeOK /\ InPlan /\ TakenInOrder /\ Untaken /\ InSight
  BY DEF IInv
<1>1. CASE Start
  BY <1>0, <1>1
  DEF Start, disk, Busy, InSight
<1>2. CASE Regrade
  BY <1>0, <1>2
  DEF Regrade, Busy, InSight, disk
<1>3. ASSUME NEW server \in {"frontier", "serving", "down", "other_model"},
             NEW armed \in BOOLEAN, NEW dry \in BOOLEAN, Check(server, armed, dry)
       PROVE  InSight'
  BY <1>0, <1>3
  DEF Check, disk, Busy, InSight
<1>4. CASE PickDirectory
  <2>1. PICK r \in 0..MaxRetry : Free(<<Unit[1], Unit[2], r>>) /\ id' = <<Unit[1], Unit[2], r>>
    BY <1>4 DEF PickDirectory
  <2>2. /\ id' \notin stateDir /\ stateDir' = stateDir \cup {id'} /\ mode' = mode
        /\ denied' = Denied(mode, id', stateDir)
    BY <1>4, <2>1 DEF PickDirectory, Free
  <2>3. Unit \in Units /\ Repeats \in Nat /\ MaxRetry \in Nat
    BY <1>0, <1>4, UnitFact, IdFacts, PlanAssumption DEF PickDirectory
  <2>4. \A i \in stateDir : i = <<i[1], i[2], i[3]>> /\ i[3] \in Nat
    <3> TAKE i \in stateDir
    <3>1. i \in Ids
      BY <1>0 DEF TypeOK
    <3>2. i = <<i[1], i[2], i[3]>> /\ i[3] \in 0..MaxRetry
      BY <3>1, IdFacts
    <3> QED
      BY <2>3, <3>2
  <2>5. ASSUME mode = "macos_seatbelt", NEW i \in stateDir
        PROVE  <<"state", i[1], i[2], i[3]>> \in denied' /\ <<"evidence", i[1], i[2]>> \in denied'
    <3>1. <<i[1], i[2]>> = <<id'[1], id'[2]>> => id'[3] > 0
      <4>1. CASE r = 0 /\ i[1] = Unit[1] /\ i[2] = Unit[2]
        <5>1. i[3] # 0
          BY <2>1, <2>2, <2>4, <4>1
        <5>2. 0 \in 0..(i[3] - 1)
          BY <2>4, <5>1
        <5>3. <<i[1], i[2], 0>> \in stateDir
          BY <1>0, <5>2 DEF TakenInOrder
        <5> QED
          BY <2>1, <2>2, <4>1, <5>3
      <4> QED
        BY <2>1, <4>1
    <3>2. PriorAttempts(id', stateDir) \subseteq denied'
      BY <2>2, <2>5 DEF Denied, NoIsolation
    <3> QED
      BY <3>1, <3>2 DEF PriorAttempts
  <2>6. mode = "macos_seatbelt" => <<"state", id'[1], id'[2], id'[3]>> \notin denied'
    <3>1. <<id'[1], id'[2], id'[3]>> = id'
      BY <2>1
    <3>2. ASSUME NEW i \in stateDir
          PROVE  /\ <<"state", id'[1], id'[2], id'[3]>> # <<"state", i[1], i[2], i[3]>>
                 /\ <<"state", id'[1], id'[2], id'[3]>> # <<"evidence", i[1], i[2]>>
      <4>1. ~(id'[1] = i[1] /\ id'[2] = i[2] /\ id'[3] = i[3])
        BY <2>2, <2>4, <3>1
      <4> QED
        BY <4>1
    <3> QED
      BY <2>2, <3>2 DEF Denied, PriorAttempts, NoIsolation
  <2> QED
    BY <2>2, <2>5, <2>6 DEF InSight
<1>5. ASSUME NEW host \in Hosts, SaveMetadata(host)
       PROVE  InSight'
  BY <1>0, <1>5
  DEF SaveMetadata, Raise, Fault, Busy, InSight, disk
<1>6. CASE RefuseTurn
  BY <1>0, <1>6
  DEF RefuseTurn, Raise, disk, Busy, InSight
<1>7. ASSUME NEW raw \in RawTurns, RunTurn(raw)
       PROVE  InSight'
  BY <1>0, <1>7
  DEF RunTurn, Fault, Busy, InSight, disk
<1>8. CASE JudgeTurn
  BY <1>0, <1>8
  DEF JudgeTurn, Raise, Busy, InSight, disk
<1>9. ASSUME NEW good \in BOOLEAN, SaveRepo(good)
       PROVE  InSight'
  BY <1>0, <1>9
  DEF SaveRepo, Busy, InSight, disk
<1>10. ASSUME NEW raises \in BOOLEAN, OpenGrade(raises)
       PROVE  InSight'
  BY <1>0, <1>10
  DEF OpenGrade, Raise, Fault, Busy, InSight, disk
<1>11. CASE DumpGrade
  BY <1>0, <1>11
  DEF DumpGrade, Busy, InSight, disk
<1>12. CASE OpenRunJson
  BY <1>0, <1>12
  DEF OpenRunJson, Busy, InSight, disk
<1>13. CASE DumpRunJson
  BY <1>0, <1>13
  DEF DumpRunJson, Busy, InSight, disk
<1>14. CASE DumpRegraded
  BY <1>0, <1>14
  DEF DumpRegraded, Busy, InSight, disk
<1>15. CASE Kill
  BY <1>0, <1>15
  DEF Kill, Fault, disk, Busy, InSight
<1>16. CASE UNCHANGED vars
  BY <1>0, <1>16
  DEF vars, disk, Busy, InSight
<1> QED
  BY <1>1, <1>2, <1>3, <1>4, <1>5, <1>6, <1>7, <1>8, <1>9, <1>10, <1>11, <1>12, <1>13, <1>14,
     <1>15, <1>16 DEF Next, Step, Done

\* A boundary that was found to hold.
LEMMA BoundaryFact ==
    ASSUME mode \in {"none", "macos_seatbelt"}, mode # "none", NEW host \in Hosts,
           Isolated(mode, host)
    PROVE  /\ Boundary(host).leaks = {} /\ Boundary(host).external = "denied"
           /\ Boundary(host).reachable
<1>1. Mandatory \subseteq CanaryChecks(host) /\ host.leaks \subseteq CATEGORIES
  BY AgentAssumption DEF Isolated, NoIsolation, SeatbeltPreflight
<1>2. \A c \in CATEGORIES : c \notin host.leaks
  <2> TAKE c \in CATEGORIES
  <2>1. c \in CanaryChecks(host)
    BY <1>1 DEF Mandatory
  <2>2. c \notin {"work_read", "work_write", "model_endpoint_reachable", "external_network_blocked"}
    BY DEF CATEGORIES
  <2> QED
    BY <2>1, <2>2 DEF CanaryChecks
<1>3. host.reachable /\ host.external = "denied"
  BY <1>1 DEF Mandatory, CanaryChecks, CATEGORIES
<1> QED
  BY <1>1, <1>2, <1>3 DEF Boundary

\* A turn runs where the preflight found the boundary to hold.
LEMMA ProbedStep == IInv /\ [Next]_vars => Probed'
<1> SUFFICES ASSUME IInv, [Next]_vars PROVE Probed'
  OBVIOUS
<1>0. TypeOK /\ InPlan /\ Progress /\ Probed
  BY DEF IInv
<1>1. CASE Start
  BY <1>0, <1>1
  DEF Start, disk, Busy, Probed
<1>2. CASE Regrade
  BY <1>0, <1>2
  DEF Regrade, Busy, Probed, disk
<1>3. ASSUME NEW server \in {"frontier", "serving", "down", "other_model"},
             NEW armed \in BOOLEAN, NEW dry \in BOOLEAN, Check(server, armed, dry)
       PROVE  Probed'
  BY <1>0, <1>3
  DEF Check, disk, Busy, Probed
<1>4. CASE PickDirectory
  BY <1>0, <1>4
  DEF PickDirectory, Busy, Probed, disk
<1>5. ASSUME NEW host \in Hosts, SaveMetadata(host)
       PROVE  Probed'
  <2>1. CASE pc' = "attempt"
    BY <2>1 DEF Probed, Busy
  <2>2. CASE pc' = "turn" /\ mode # "none"
    <3>1. Isolated(mode, host) /\ id \in Ids
      BY <1>0, <1>5, <2>2 DEF SaveMetadata, Raise, InPlan, TypeOK, Busy
    <3>2. meta'[id].host = Boundary(host) /\ id' = id
      BY <1>0, <1>5, <2>2, <3>1 DEF SaveMetadata, Raise, TypeOK
    <3>3. /\ Boundary(host).leaks = {} /\ Boundary(host).external = "denied"
          /\ Boundary(host).reachable
      BY <1>0, <1>5, <2>2, <3>1, BoundaryFact, AgentAssumption DEF TypeOK
    <3> QED
      BY <3>2, <3>3 DEF Probed
  <2>3. CASE mode = "none"
    BY <1>5, <2>3 DEF SaveMetadata, Probed
  <2> QED
    BY <1>5, <2>1, <2>2, <2>3 DEF SaveMetadata, Raise
<1>6. CASE RefuseTurn
  <2>1. /\ pc' \in Busy => pc \in Busy \ {"agent"}
        /\ id' = id /\ mode' = mode /\ meta' = meta
    BY <1>6 DEF RefuseTurn, Raise, Busy, disk
  <2> QED
    BY <1>0, <2>1 DEF Probed
<1>7. ASSUME NEW raw \in RawTurns, RunTurn(raw)
       PROVE  Probed'
  <2>1. /\ pc' \in Busy => pc \in Busy \ {"agent"}
        /\ id' = id /\ mode' = mode /\ meta' = meta
    BY <1>7 DEF RunTurn, Raise, Busy, disk
  <2> QED
    BY <1>0, <2>1 DEF Probed
<1>8. CASE JudgeTurn
  <2>1. /\ pc = "judge" /\ meta'[id].host = meta[id].host
    BY <1>0, <1>8, JudgeMeta
  <2>2. id' = id /\ mode' = mode
    BY <1>8 DEF JudgeTurn
  <2> QED
    BY <1>0, <2>1, <2>2 DEF Probed, Busy
<1>9. ASSUME NEW good \in BOOLEAN, SaveRepo(good)
       PROVE  Probed'
  <2>1. /\ pc' \in Busy => pc \in Busy \ {"agent"}
        /\ id' = id /\ mode' = mode /\ meta' = meta
    BY <1>9 DEF SaveRepo, Raise, Busy, disk
  <2> QED
    BY <1>0, <2>1 DEF Probed
<1>10. ASSUME NEW raises \in BOOLEAN, OpenGrade(raises)
       PROVE  Probed'
  <2>1. /\ pc' \in Busy => pc \in Busy \ {"agent"}
        /\ id' = id /\ mode' = mode /\ meta' = meta
    BY <1>10 DEF OpenGrade, Raise, Busy, disk
  <2> QED
    BY <1>0, <2>1 DEF Probed
<1>11. CASE DumpGrade
  <2>1. /\ pc' \in Busy => pc \in Busy \ {"agent"}
        /\ id' = id /\ mode' = mode /\ meta' = meta
    BY <1>11 DEF DumpGrade, Raise, Busy, disk
  <2> QED
    BY <1>0, <2>1 DEF Probed
<1>12. CASE OpenRunJson
  BY <1>0, <1>12
  DEF OpenRunJson, Busy, Probed, disk
<1>13. CASE DumpRunJson
  BY <1>0, <1>13
  DEF DumpRunJson, Busy, Probed, disk
<1>14. CASE DumpRegraded
  BY <1>0, <1>14
  DEF DumpRegraded, Busy, Probed, disk
<1>15. CASE Kill
  BY <1>0, <1>15
  DEF Kill, Fault, disk, Busy, Probed
<1>16. CASE UNCHANGED vars
  BY <1>0, <1>16
  DEF vars, disk, Busy, Probed
<1> QED
  BY <1>1, <1>2, <1>3, <1>4, <1>5, <1>6, <1>7, <1>8, <1>9, <1>10, <1>11, <1>12, <1>13, <1>14,
     <1>15, <1>16 DEF Next, Step, Done

-----------------------------------------------------------------------------
\* An attempt keeps its directory, which was new to it.
LEMMA DirectoryInHand == IInv /\ [Next]_vars => (/\ stateDir \subseteq stateDir' /\ (pc' \in Busy => (pc \in Busy /\ id' = id) \/ id' \notin stateDir))
<1> SUFFICES ASSUME IInv, [Next]_vars PROVE (/\ stateDir \subseteq stateDir' /\ (pc' \in Busy => (pc \in Busy /\ id' = id) \/ id' \notin stateDir))
  OBVIOUS
<1>0. TypeOK /\ InPlan
  BY DEF IInv
<1>1. CASE Start
  BY <1>0, <1>1
  DEF Start, disk, Busy
<1>2. CASE Regrade
  BY <1>0, <1>2
  DEF Regrade, Busy, disk
<1>3. ASSUME NEW server \in {"frontier", "serving", "down", "other_model"},
             NEW armed \in BOOLEAN, NEW dry \in BOOLEAN, Check(server, armed, dry)
       PROVE  (/\ stateDir \subseteq stateDir' /\ (pc' \in Busy => (pc \in Busy /\ id' = id) \/ id' \notin stateDir))
  BY <1>0, <1>3
  DEF Check, disk, Busy
<1>4. CASE PickDirectory
  BY <1>0, <1>4
  DEF PickDirectory, Busy, disk, Free
<1>5. ASSUME NEW host \in Hosts, SaveMetadata(host)
       PROVE  (/\ stateDir \subseteq stateDir' /\ (pc' \in Busy => (pc \in Busy /\ id' = id) \/ id' \notin stateDir))
  BY <1>0, <1>5
  DEF SaveMetadata, Raise, Fault, Busy, disk
<1>6. CASE RefuseTurn
  BY <1>0, <1>6
  DEF RefuseTurn, Raise, disk, Busy
<1>7. ASSUME NEW raw \in RawTurns, RunTurn(raw)
       PROVE  (/\ stateDir \subseteq stateDir' /\ (pc' \in Busy => (pc \in Busy /\ id' = id) \/ id' \notin stateDir))
  BY <1>0, <1>7
  DEF RunTurn, Fault, Busy, disk
<1>8. CASE JudgeTurn
  BY <1>0, <1>8
  DEF JudgeTurn, Raise, Busy, disk
<1>9. ASSUME NEW good \in BOOLEAN, SaveRepo(good)
       PROVE  (/\ stateDir \subseteq stateDir' /\ (pc' \in Busy => (pc \in Busy /\ id' = id) \/ id' \notin stateDir))
  BY <1>0, <1>9
  DEF SaveRepo, Busy, disk
<1>10. ASSUME NEW raises \in BOOLEAN, OpenGrade(raises)
       PROVE  (/\ stateDir \subseteq stateDir' /\ (pc' \in Busy => (pc \in Busy /\ id' = id) \/ id' \notin stateDir))
  BY <1>0, <1>10
  DEF OpenGrade, Raise, Fault, Busy, disk
<1>11. CASE DumpGrade
  BY <1>0, <1>11
  DEF DumpGrade, Busy, disk
<1>12. CASE OpenRunJson
  BY <1>0, <1>12
  DEF OpenRunJson, Busy, disk
<1>13. CASE DumpRunJson
  BY <1>0, <1>13
  DEF DumpRunJson, Busy, disk
<1>14. CASE DumpRegraded
  BY <1>0, <1>14
  DEF DumpRegraded, Busy, disk
<1>15. CASE Kill
  BY <1>0, <1>15
  DEF Kill, Fault, disk, Busy
<1>16. CASE UNCHANGED vars
  BY <1>0, <1>16
  DEF vars, disk, Busy
<1> QED
  BY <1>1, <1>2, <1>3, <1>4, <1>5, <1>6, <1>7, <1>8, <1>9, <1>10, <1>11, <1>12, <1>13, <1>14,
     <1>15, <1>16 DEF Next, Step, Done

\* What a settled attempt left is not touched again.
LEMMA EvidenceKept ==
    ASSUME IInv, [Next]_vars
    PROVE  \A i \in stateDir : (pc \in Busy => i # id) =>
              i \in stateDir' /\ (pc' \in Busy => i # id') /\ repoAfter'[i] = repoAfter[i]
<1>1. \A i \in Ids : (i = id /\ pc \in Busy) \/ Same(i)
  BY OthersKept
<1>2. stateDir \subseteq stateDir' /\ (pc' \in Busy => (pc \in Busy /\ id' = id) \/ id' \notin stateDir)
  BY DirectoryInHand
<1>3. stateDir \subseteq Ids
  BY DEF IInv, TypeOK
<1> QED
  BY <1>1, <1>2, <1>3 DEF Same

\* The grades that command and file hold stay backed.
LEMMA BackedKept ==
    ASSUME IInv, [Next]_vars
    PROVE  /\ Backed(grades) /\ grades' = grades => Backed(grades)'
           /\ Backed(runJson.grades) /\ runJson' = runJson => Backed(runJson.grades)'
<1>1. \A i \in stateDir : (pc \in Busy => i # id) =>
          i \in stateDir' /\ (pc' \in Busy => i # id') /\ repoAfter'[i] = repoAfter[i]
  BY EvidenceKept
<1> QED
  BY <1>1 DEF Backed

\* An invalid attempt settles one more position of the plan.
LEMMA SettleError ==
    ASSUME NEW G \in Seq(GradeRecords), NEW E \in Seq(Units), NEW n \in 1..Len(Plan),
           Settles(G, E, n - 1)
    PROVE  Settles(G, Append(E, Plan[n]), n)
<1> DEFINE F == Append(E, Plan[n])
<1>1. /\ Len(F) = Len(E) + 1 /\ F[Len(E) + 1] = Plan[n] /\ Len(E) \in Nat /\ Len(G) \in Nat
      /\ \A k \in 1..Len(E) : F[k] = E[k]
  BY PlanFacts
<1>2. n \in Nat /\ \A m \in 1..n : m \in 1..(n - 1) \/ m = n
  BY PlanFacts
<1>3. \A m \in 1..(n - 1) : m \in 1..n /\ Plan[m] # Plan[n]
  BY PlanFacts
<1>4. \A k \in 1..Len(F) : k \in 1..Len(E) \/ k = Len(E) + 1
  BY <1>1
<1> HIDE DEF F
<1>5. \A k \in 1..Len(G) : \E m \in 1..n : UnitOf(G[k]) = Plan[m]
  BY <1>3 DEF Settles
<1>6. \A k \in 1..Len(F) : \E m \in 1..n : F[k] = Plan[m]
  BY <1>1, <1>2, <1>3, <1>4, SMTT(40) DEF Settles
<1>7. \A m \in 1..n : \/ \E k \in 1..Len(F) : F[k] = Plan[m]
                      \/ \E k \in 1..Len(G) : UnitOf(G[k]) = Plan[m]
  <2>1. Len(E) + 1 \in 1..Len(F) /\ \A k \in 1..Len(E) : k \in 1..Len(F)
    BY <1>1
  <2>2. \A m \in 1..(n - 1) : \/ \E k \in 1..Len(E) : E[k] = Plan[m]
                              \/ \E k \in 1..Len(G) : UnitOf(G[k]) = Plan[m]
    BY DEF Settles
  <2> QED
    BY <1>1, <1>2, <2>1, <2>2
<1>8. \A j, k \in 1..Len(G) : UnitOf(G[j]) = UnitOf(G[k]) => j = k
  BY DEF Settles
<1>9. \A j \in 1..Len(F), k \in 1..Len(G) : F[j] # UnitOf(G[k])
  <2>1. \A k \in 1..Len(G) : Plan[n] # UnitOf(G[k])
    BY <1>3 DEF Settles
  <2>2. \A j \in 1..Len(E), k \in 1..Len(G) : E[j] # UnitOf(G[k])
    BY DEF Settles
  <2> QED
    BY <1>1, <1>4, <2>1, <2>2
<1> QED
  BY <1>5, <1>6, <1>7, <1>8, <1>9 DEF Settles, F

\* So does a graded one.
LEMMA SettleGrade ==
    ASSUME NEW G \in Seq(GradeRecords), NEW E \in Seq(Units), NEW n \in 1..Len(Plan),
           NEW g \in GradeRecords, UnitOf(g) = Plan[n],
           Settles(G, E, n - 1)
    PROVE  Settles(Append(G, g), E, n)
<1> DEFINE H == Append(G, g)
<1>1. /\ Len(H) = Len(G) + 1 /\ H[Len(G) + 1] = g /\ Len(E) \in Nat /\ Len(G) \in Nat
      /\ \A k \in 1..Len(G) : H[k] = G[k]
  OBVIOUS
<1>2. n \in Nat /\ \A m \in 1..n : m \in 1..(n - 1) \/ m = n
  BY PlanFacts
<1>3. \A m \in 1..(n - 1) : m \in 1..n /\ Plan[m] # Plan[n]
  BY PlanFacts
<1>4. \A k \in 1..Len(H) : k \in 1..Len(G) \/ k = Len(G) + 1
  BY <1>1
<1> HIDE DEF H
<1>5. \A k \in 1..Len(H) : \E m \in 1..n : UnitOf(H[k]) = Plan[m]
  <2>1. \A k \in 1..Len(G) : \E m \in 1..(n - 1) : UnitOf(G[k]) = Plan[m]
    BY DEF Settles
  <2>2. n \in 1..n
    BY <1>2
  <2>3. \A k \in 1..Len(G) : \E m \in 1..n : UnitOf(G[k]) = Plan[m]
    BY <1>3, <2>1
  <2> QED
    BY <1>1, <1>4, <2>2, <2>3
<1>6. \A k \in 1..Len(E) : \E m \in 1..n : E[k] = Plan[m]
  BY <1>3 DEF Settles
<1>7. \A m \in 1..n : \/ \E k \in 1..Len(E) : E[k] = Plan[m]
                      \/ \E k \in 1..Len(H) : UnitOf(H[k]) = Plan[m]
  <2>1. Len(G) + 1 \in 1..Len(H) /\ \A k \in 1..Len(G) : k \in 1..Len(H)
    BY <1>1
  <2>2. \A m \in 1..(n - 1) : \/ \E k \in 1..Len(E) : E[k] = Plan[m]
                              \/ \E k \in 1..Len(G) : UnitOf(G[k]) = Plan[m]
    BY DEF Settles
  <2> QED
    BY <1>1, <1>2, <2>1, <2>2
<1>10. \A k \in 1..Len(G) : UnitOf(G[k]) # UnitOf(g)
  BY <1>3 DEF Settles
<1>8. \A j, k \in 1..Len(H) : UnitOf(H[j]) = UnitOf(H[k]) => j = k
  <2>1. \A j, k \in 1..Len(G) : UnitOf(G[j]) = UnitOf(G[k]) => j = k
    BY DEF Settles
  <2> QED
    BY <1>1, <1>4, <1>10, <2>1
<1>9. \A j \in 1..Len(E), k \in 1..Len(H) : E[j] # UnitOf(H[k])
  <2>1. \A j \in 1..Len(E) : E[j] # Plan[n]
    BY <1>3 DEF Settles
  <2>2. \A j \in 1..Len(E), k \in 1..Len(G) : E[j] # UnitOf(G[k])
    BY DEF Settles
  <2> QED
    BY <1>1, <1>4, <2>1, <2>2
<1> QED
  BY <1>5, <1>6, <1>7, <1>8, <1>9 DEF Settles, H

\* An exception settles the attempt in hand.
LEMMA RaiseSettles ==
    ASSUME IInv, pc \in Busy, Raise
    PROVE  /\ Settles(grades', errors', at' - 1) /\ grades' = grades /\ pc' = "attempt"
<1>1. at \in 1..Len(Plan) /\ Unit = Plan[at]
  BY UnitFact DEF IInv, Unit
<1>2. Settles(grades, errors, at - 1)
  BY DEF IInv, MemorySettles
<1>3. grades \in Seq(GradeRecords) /\ errors \in Seq(Units)
  BY DEF IInv, TypeOK
<1>4. Settles(grades, Append(errors, Plan[at]), at)
  BY <1>1, <1>2, <1>3, SettleError
<1>5. at' - 1 = at /\ errors' = Append(errors, Plan[at]) /\ grades' = grades /\ pc' = "attempt"
  BY <1>1, PlanFacts DEF Raise
<1> QED
  BY <1>4, <1>5

\* What a command holds settles the plan up to where it is.
LEMMA MemoryStep == IInv /\ [Next]_vars => MemorySettles'
<1> SUFFICES ASSUME IInv, [Next]_vars PROVE MemorySettles'
  OBVIOUS
<1>0. TypeOK /\ InPlan /\ Progress /\ MemorySettles /\ FileSettles
  BY DEF IInv
<1>b. /\ Backed(grades) /\ grades' = grades => Backed(grades)'
  BY BackedKept
<1>1. CASE Start
  BY <1>1 DEF Start, MemorySettles, Busy, Backed
<1>2. CASE Regrade
  <2>1. /\ Len(grades') = Len(runJson.grades) /\ errors' = runJson.errors
        /\ \A n \in 1..Len(runJson.grades) :
             /\ UnitOf(grades'[n]) = UnitOf(runJson.grades[n])
             /\ EvidenceId(grades'[n]) = EvidenceId(runJson.grades[n])
             /\ grades'[n].pass = runJson.grades[n].pass
    BY <1>0, <1>2, Regrading DEF Regrade, UnitOf, EvidenceId
  <2>2. Settles(runJson.grades, runJson.errors, Len(Plan)) /\ Backed(runJson.grades)
    BY <1>0, <1>2 DEF Regrade, FileSettles
  <2>3. Settles(grades', errors', Len(Plan))
    BY <2>1, <2>2 DEF Settles
  <2>4. stateDir' = stateDir /\ repoAfter' = repoAfter /\ pc' = "rewrite"
    BY <1>2 DEF Regrade
  <2>5. Backed(grades)'
    BY <2>1, <2>2, <2>4 DEF Backed, Busy
  <2> QED
    BY <2>3, <2>4, <2>5 DEF MemorySettles, Busy
<1>3. ASSUME NEW server \in {"frontier", "serving", "down", "other_model"},
             NEW armed \in BOOLEAN, NEW dry \in BOOLEAN, Check(server, armed, dry)
       PROVE  MemorySettles'
  <2>1. /\ pc' \in {"attempt", "idle"} /\ at = 1 /\ grades = <<>> /\ errors = <<>>
        /\ at' = at /\ grades' = grades /\ errors' = errors
    BY <1>0, <1>3 DEF Check, InPlan
  <2>2. Settles(grades, errors, 0)
    BY <2>1 DEF Settles
  <2> QED
    BY <2>1, <2>2 DEF MemorySettles, Busy, Backed
<1>4. CASE PickDirectory
  <2>1. /\ pc \in {"attempt"} \cup Busy /\ pc' \in {"attempt"} \cup Busy
        /\ grades' = grades /\ errors' = errors /\ at' = at
    BY <1>4 DEF PickDirectory, Busy
  <2> QED
    BY <1>0, <2>1, <1>b DEF MemorySettles, Busy, InMemory
<1>5. ASSUME NEW host \in Hosts, SaveMetadata(host)
       PROVE  MemorySettles'
  <2>1. CASE Raise
    <3>1. pc \in Busy
      BY <1>5 DEF SaveMetadata, Busy
    <3> QED
      BY <1>0, <1>b, <2>1, <3>1, RaiseSettles DEF MemorySettles, Raise, Busy
  <2>2. CASE ~Raise
    <3>1. /\ pc \in {"attempt"} \cup Busy /\ pc' \in {"attempt"} \cup Busy
          /\ grades' = grades /\ errors' = errors /\ at' = at
      BY <1>5, <2>2 DEF SaveMetadata, Busy
    <3> QED
      BY <1>0, <1>b, <3>1 DEF MemorySettles, Busy
  <2> QED
    BY <2>1, <2>2
<1>6. CASE RefuseTurn
  <2>1. CASE Raise
    <3>1. pc \in Busy
      BY <1>6 DEF RefuseTurn, Busy
    <3> QED
      BY <1>0, <1>b, <2>1, <3>1, RaiseSettles DEF MemorySettles, Raise, Busy
  <2> QED
    BY <1>6, <2>1 DEF RefuseTurn
<1>7. ASSUME NEW raw \in RawTurns, RunTurn(raw)
       PROVE  MemorySettles'
  <2>1. /\ pc \in {"attempt"} \cup Busy /\ pc' \in {"attempt"} \cup Busy
        /\ grades' = grades /\ errors' = errors /\ at' = at
    BY <1>7 DEF RunTurn, Busy
  <2> QED
    BY <1>0, <2>1, <1>b DEF MemorySettles, Busy, InMemory
<1>8. CASE JudgeTurn
  <2>1. CASE Raise
    <3>1. pc \in Busy
      BY <1>8 DEF JudgeTurn, Busy
    <3> QED
      BY <1>0, <1>b, <2>1, <3>1, RaiseSettles DEF MemorySettles, Raise, Busy
  <2>2. CASE ~Raise
    <3>1. /\ pc \in {"attempt"} \cup Busy /\ pc' \in {"attempt"} \cup Busy
          /\ grades' = grades /\ errors' = errors /\ at' = at
      BY <1>8, <2>2 DEF JudgeTurn, Busy
    <3> QED
      BY <1>0, <1>b, <3>1 DEF MemorySettles, Busy
  <2> QED
    BY <2>1, <2>2
<1>9. ASSUME NEW good \in BOOLEAN, SaveRepo(good)
       PROVE  MemorySettles'
  <2>1. /\ pc \in {"attempt"} \cup Busy /\ pc' \in {"attempt"} \cup Busy
        /\ grades' = grades /\ errors' = errors /\ at' = at
    BY <1>9 DEF SaveRepo, Busy
  <2> QED
    BY <1>0, <2>1, <1>b DEF MemorySettles, Busy, InMemory
<1>10. ASSUME NEW raises \in BOOLEAN, OpenGrade(raises)
       PROVE  MemorySettles'
  <2>1. CASE Raise
    <3>1. pc \in Busy
      BY <1>10 DEF OpenGrade, Busy
    <3> QED
      BY <1>0, <1>b, <2>1, <3>1, RaiseSettles DEF MemorySettles, Raise, Busy
  <2>2. CASE ~Raise
    <3>1. /\ pc \in {"attempt"} \cup Busy /\ pc' \in {"attempt"} \cup Busy
          /\ grades' = grades /\ errors' = errors /\ at' = at
      BY <1>10, <2>2 DEF OpenGrade, Busy
    <3> QED
      BY <1>0, <1>b, <3>1 DEF MemorySettles, Busy
  <2> QED
    BY <2>1, <2>2
<1>11. CASE DumpGrade
  <2> DEFINE g == GradeOf(Unit, id[3], repoAfter[id], turn)
  <2>1. /\ pc = "dump" /\ id \in stateDir /\ id \in Ids /\ id[1] = Unit[1] /\ id[2] = Unit[2]
        /\ repoAfter[id] # Missing /\ Settles(grades, errors, at - 1) /\ Backed(grades)
    BY <1>0, <1>11 DEF DumpGrade, InPlan, TypeOK, Progress, MemorySettles, Busy
  <2>2. at \in 1..Len(Plan) /\ Unit \in Units /\ Len(Plan) \in Nat
    BY <1>0, <2>1, UnitFact, PlanFacts DEF Busy
  <2>3. EvidenceId(g) = id /\ UnitOf(g) = Plan[at] /\ g.pass = repoAfter[id].good
    <3>1. id = <<id[1], id[2], id[3]>> /\ Unit = <<Unit[1], Unit[2]>> /\ Unit = Plan[at]
      BY <2>1, <2>2, IdFacts DEF Unit
    <3> QED
      BY <2>1, <3>1 DEF GradeOf, EvidenceId, UnitOf
  <2>4. /\ grades' = Append(grades, g) /\ errors' = errors /\ at' - 1 = at /\ pc' = "attempt"
        /\ stateDir' = stateDir /\ repoAfter' = repoAfter
    BY <1>11, <2>2 DEF DumpGrade
  <2>5. g \in GradeRecords /\ grades \in Seq(GradeRecords) /\ errors \in Seq(Units)
    <3>1. id[3] \in 0..MaxRetry /\ MaxRetry \in Nat
      BY <2>1, IdFacts
    <3>2. Unit[1] \in DOMAIN Authored /\ Unit[2] \in Nat
      BY <2>2, IdFacts
    <3>3. id[3] \in Nat /\ repoAfter[id] \in Works /\ turn \in Nat
      BY <1>0, <2>1, <3>1 DEF TypeOK
    <3> QED
      BY <1>0, <3>2, <3>3 DEF GradeOf, GradeRecords, Works, TypeOK
  <2> HIDE DEF g
  <2>6. Settles(grades', errors', at' - 1)
    BY <2>1, <2>2, <2>3, <2>4, <2>5, SettleGrade
  <2>7. ASSUME NEW k \in 1..Len(grades')
        PROVE  /\ EvidenceId(grades'[k]) \in stateDir /\ repoAfter[EvidenceId(grades'[k])] # Missing
               /\ repoAfter[EvidenceId(grades'[k])].good = grades'[k].pass
    <3>1. (k \in 1..Len(grades) /\ grades'[k] = grades[k]) \/ grades'[k] = g
      BY <2>4, <2>5
    <3>2. CASE grades'[k] = g
      BY <2>1, <2>3, <3>2
    <3>3. CASE k \in 1..Len(grades) /\ grades'[k] = grades[k]
      BY <2>1, <3>3 DEF Backed
    <3> QED
      BY <3>1, <3>2, <3>3
  <2>8. Backed(grades)'
    BY <2>4, <2>7 DEF Backed, Busy
  <2> QED
    BY <2>4, <2>6, <2>8 DEF MemorySettles, Busy
<1>12. CASE OpenRunJson
  <2>1. /\ at \in 1..(Len(Plan) + 1) /\ at > Len(Plan) /\ Len(Plan) \in Nat /\ pc = "attempt"
        /\ pc' = "write" /\ grades' = grades /\ errors' = errors
    BY <1>0, <1>12, PlanFacts DEF OpenRunJson, InPlan
  <2>2. at - 1 = Len(Plan)
    BY <2>1
  <2> QED
    BY <1>0, <1>b, <2>1, <2>2 DEF MemorySettles, Busy
<1>13. CASE DumpRunJson
  BY <1>0, <1>13
  DEF DumpRunJson, Busy, MemorySettles, disk
<1>14. CASE DumpRegraded
  BY <1>0, <1>14
  DEF DumpRegraded, Busy, MemorySettles, disk
<1>15. CASE Kill
  BY <1>0, <1>15
  DEF Kill, Fault, disk, Busy, MemorySettles
<1>16. CASE UNCHANGED vars
  <2>1. pc' = pc /\ at' = at /\ grades' = grades /\ errors' = errors
    BY <1>16 DEF vars
  <2> QED
    BY <1>0, <1>b, <2>1 DEF MemorySettles, Busy
<1> QED
  BY <1>1, <1>2, <1>3, <1>4, <1>5, <1>6, <1>7, <1>8, <1>9, <1>10, <1>11, <1>12, <1>13, <1>14,
     <1>15, <1>16 DEF Next, Step, Done

\* What is published settles the whole plan.
LEMMA FileStep == IInv /\ [Next]_vars => FileSettles'
<1> SUFFICES ASSUME IInv, [Next]_vars PROVE FileSettles'
  OBVIOUS
<1>0. TypeOK /\ InPlan /\ MemorySettles /\ FileSettles
  BY DEF IInv
<1>b. /\ Backed(grades) /\ grades' = grades => Backed(grades)'
      /\ Backed(runJson.grades) /\ runJson' = runJson => Backed(runJson.grades)'
  BY BackedKept
<1>1. CASE Start
  <2>1. runJson' = runJson
    BY <1>1 DEF Start, disk, vars
  <2> QED
    BY <1>0, <1>b, <2>1 DEF FileSettles
<1>2. CASE Regrade
  BY <1>0, <1>2
  DEF Regrade, disk, FileSettles, vars
<1>3. ASSUME NEW server \in {"frontier", "serving", "down", "other_model"},
             NEW armed \in BOOLEAN, NEW dry \in BOOLEAN, Check(server, armed, dry)
       PROVE  FileSettles'
  <2>1. runJson' = runJson
    BY <1>3 DEF Check, disk, vars
  <2> QED
    BY <1>0, <1>b, <2>1 DEF FileSettles
<1>4. CASE PickDirectory
  <2>1. runJson' = runJson
    BY <1>4 DEF PickDirectory, disk, vars
  <2> QED
    BY <1>0, <1>b, <2>1 DEF FileSettles
<1>5. ASSUME NEW host \in Hosts, SaveMetadata(host)
       PROVE  FileSettles'
  <2>1. runJson' = runJson
    BY <1>5 DEF SaveMetadata, disk, vars
  <2> QED
    BY <1>0, <1>b, <2>1 DEF FileSettles
<1>6. CASE RefuseTurn
  <2>1. runJson' = runJson
    BY <1>6 DEF RefuseTurn, disk, vars
  <2> QED
    BY <1>0, <1>b, <2>1 DEF FileSettles
<1>7. ASSUME NEW raw \in RawTurns, RunTurn(raw)
       PROVE  FileSettles'
  <2>1. runJson' = runJson
    BY <1>7 DEF RunTurn, disk, vars
  <2> QED
    BY <1>0, <1>b, <2>1 DEF FileSettles
<1>8. CASE JudgeTurn
  <2>1. runJson' = runJson
    BY <1>8 DEF JudgeTurn, disk, vars
  <2> QED
    BY <1>0, <1>b, <2>1 DEF FileSettles
<1>9. ASSUME NEW good \in BOOLEAN, SaveRepo(good)
       PROVE  FileSettles'
  <2>1. runJson' = runJson
    BY <1>9 DEF SaveRepo, disk, vars
  <2> QED
    BY <1>0, <1>b, <2>1 DEF FileSettles
<1>10. ASSUME NEW raises \in BOOLEAN, OpenGrade(raises)
       PROVE  FileSettles'
  <2>1. runJson' = runJson
    BY <1>10 DEF OpenGrade, disk, vars
  <2> QED
    BY <1>0, <1>b, <2>1 DEF FileSettles
<1>11. CASE DumpGrade
  <2>1. runJson' = runJson
    BY <1>11 DEF DumpGrade, disk, vars
  <2> QED
    BY <1>0, <1>b, <2>1 DEF FileSettles
<1>12. CASE OpenRunJson
  BY <1>0, <1>12
  DEF OpenRunJson, disk, FileSettles, vars
<1>13. CASE DumpRunJson
  <2>1. runJson' = [grades |-> grades, errors |-> errors] /\ grades' = grades /\ pc = "write"
    BY <1>13 DEF DumpRunJson
  <2>2. Settles(grades, errors, Len(Plan)) /\ Backed(grades)'
    BY <1>0, <1>b, <2>1 DEF MemorySettles, Busy
  <2>3. runJson'.grades = grades /\ runJson'.errors = errors
    BY <2>1
  <2>4. Backed(runJson.grades)'
    BY <2>1, <2>2, <2>3 DEF Backed
  <2> QED
    BY <2>2, <2>3, <2>4 DEF FileSettles
<1>14. CASE DumpRegraded
  <2>1. runJson' = [grades |-> grades, errors |-> errors] /\ grades' = grades /\ pc = "rewrite"
    BY <1>14 DEF DumpRegraded
  <2>2. Settles(grades, errors, Len(Plan)) /\ Backed(grades)'
    BY <1>0, <1>b, <2>1 DEF MemorySettles, Busy
  <2>3. runJson'.grades = grades /\ runJson'.errors = errors
    BY <2>1
  <2>4. Backed(runJson.grades)'
    BY <2>1, <2>2, <2>3 DEF Backed
  <2> QED
    BY <2>2, <2>3, <2>4 DEF FileSettles
<1>15. CASE Kill
  <2>1. runJson' = runJson
    BY <1>15 DEF Kill, disk, vars
  <2> QED
    BY <1>0, <1>b, <2>1 DEF FileSettles
<1>16. CASE UNCHANGED vars
  <2>1. runJson' = runJson
    BY <1>16 DEF vars, disk
  <2> QED
    BY <1>0, <1>b, <2>1 DEF FileSettles
<1> QED
  BY <1>1, <1>2, <1>3, <1>4, <1>5, <1>6, <1>7, <1>8, <1>9, <1>10, <1>11, <1>12, <1>13, <1>14,
     <1>15, <1>16 DEF Next, Step, Done

\* The invariant holds at the start ...
LEMMA InitIInv == Init => IInv
<1> SUFFICES ASSUME Init PROVE IInv
  OBVIOUS
<1>1. \A x : <<>> \in Seq(x) /\ Len(<<>>) = 0
  OBVIOUS
<1>2. TypeOK
  BY <1>1, PlanAssumption DEF Init, TypeOK
<1>3. InPlan /\ Untaken /\ TakenInOrder /\ Progress /\ Conversation /\ InSight /\ Probed
  BY DEF Init, InPlan, Untaken, TakenInOrder, Progress, Conversation, InSight, Probed, Busy
<1>4. OneWriter
  <2>1. \A i \in Ids : WrittenBy(i, 0)
    BY <1>1 DEF Init, WrittenBy
  <2> QED
    BY <2>1 DEF OneWriter
<1>5. WholeGrades /\ MemorySettles /\ FileSettles
  BY DEF Init, WholeGrades, MemorySettles, FileSettles, Busy
<1> QED
  BY <1>2, <1>3, <1>4, <1>5 DEF IInv

\* ... and every step keeps it.
LEMMA NextIInv == IInv /\ [Next]_vars => IInv'
BY TypeStep, InPlanStep, UntakenStep, TakenInOrderStep, ProgressStep, OneWriterStep,
   ConversationStep, WholeGradesStep, InSightStep, ProbedStep, MemoryStep, FileStep DEF IInv

\* The invariant always holds.
LEMMA Invariance == Spec => []IInv
BY InitIInv, NextIInv, PTL DEF Spec

-----------------------------------------------------------------------------
(***************************************************************************)
(* The theorems.                                                           *)
(***************************************************************************)

\* Every variable of the command and every file of its directory keeps its type,
\* whatever was killed, refused or regraded before.
THEOREM TypeCorrect == Spec => []TypeOK
<1>1. IInv => TypeOK
  BY DEF IInv
<1> QED
  BY <1>1, Invariance, PTL

\* A set with at most one possible member.
LEMMA AtMostOne == ASSUME NEW S, NEW r, S \subseteq {r} PROVE Cardinality(S) <= 1
<1>1. CASE S = {}
  BY <1>1, FS_EmptySet
<1>2. CASE S = {r}
  <2>1. Cardinality({r}) = 1
    BY FS_Singleton
  <2> QED
    BY <1>2, <2>1
<1> QED
  BY <1>1, <1>2

\* No evidence directory ever mixes the files of two commands: a command that finds
\* the remains of a killed one takes the next retry directory.
THEOREM OneRunPerDirectory == Spec => []EvidenceOfOneRun
<1>1. ASSUME IInv PROVE EvidenceOfOneRun
  <2> SUFFICES ASSUME NEW i \in Ids
               PROVE  Cardinality((IF meta[i] = Missing THEN {} ELSE {meta[i].by})
                          \cup {transcript[i][n].by : n \in 1..Len(transcript[i])}
                          \cup (IF repoAfter[i] = Missing THEN {} ELSE {repoAfter[i].by})
                          \cup (IF gradeFile[i] \in {Missing, Torn} THEN {} ELSE {gradeFile[i].by}))
                        <= 1
    BY DEF EvidenceOfOneRun
  <2>1. PICK r \in Nat : WrittenBy(i, r)
    BY <1>1 DEF IInv, OneWriter
  <2>2. ((IF meta[i] = Missing THEN {} ELSE {meta[i].by})
            \cup {transcript[i][n].by : n \in 1..Len(transcript[i])}
            \cup (IF repoAfter[i] = Missing THEN {} ELSE {repoAfter[i].by})
            \cup (IF gradeFile[i] \in {Missing, Torn} THEN {} ELSE {gradeFile[i].by})) \subseteq {r}
    BY <2>1 DEF WrittenBy
  <2> QED
    BY <2>2, AtMostOne
<1> QED
  BY <1>1, Invariance, PTL

\* A grade is only ever given to a whole conversation: every prompt answered, no
\* failed turn, and one session where the command line names it.
THEOREM GradesAreWhole == Spec => []GradeIsWhole
<1>1. ASSUME IInv PROVE GradeIsWhole
  <2> SUFFICES ASSUME NEW i \in Ids, gradeFile[i] \notin {Missing, Torn}
               PROVE  LET raws == {transcript[i][n].raw : n \in 1..Len(transcript[i])}
                      IN /\ Len(transcript[i]) = Prompts(i[1]) /\ gradeFile[i].heard = Prompts(i[1])
                         /\ \A raw \in raws : ~CommonFailure(raw)
                         /\ backend # "codex_cli" =>
                              Cardinality(UNION {raw.sessions : raw \in raws}) = 1
    BY DEF GradeIsWhole
  <2> DEFINE raws == {transcript[i][n].raw : n \in 1..Len(transcript[i])}
  <2>1. Len(transcript[i]) = Prompts(i[1]) /\ gradeFile[i].heard = Prompts(i[1])
    BY <1>1 DEF IInv, WholeGrades
  <2>2. PICK s : GoodTurns(i, Len(transcript[i]), s)
    BY <1>1 DEF IInv, WholeGrades
  <2>3. \A raw \in raws : ~CommonFailure(raw)
    BY <2>2 DEF GoodTurns
  <2>4. ASSUME backend # "codex_cli"
        PROVE  Cardinality(UNION {raw.sessions : raw \in raws}) = 1
    <3>1. Len(transcript[i]) \in Nat /\ Len(transcript[i]) > 0
      BY <2>1, PromptsFact
    <3>2. /\ transcript[i][1].raw.sessions = {s} /\ 1 \in 1..Len(transcript[i])
          /\ \A k \in 1..Len(transcript[i]) : transcript[i][k].raw.sessions \subseteq {s}
      BY <2>2, <2>4, <3>1 DEF GoodTurns
    <3>3. UNION {raw.sessions : raw \in raws} = {s}
      BY <3>2
    <3> QED
      BY <3>3, FS_Singleton
  <2> QED
    BY <2>1, <2>3, <2>4
<1> QED
  BY <1>1, Invariance, PTL

\* With isolation no turn runs outside a boundary that the preflight saw to hold, and
\* of what earlier attempts left the agent can read working copies of other tasks and
\* attempts, run.json and harness.log at most: no evidence and no private state.
THEOREM BoundaryAlwaysHolds == Spec => []BoundaryHolds
<1>1. ASSUME IInv, mode = "macos_seatbelt", pc \in {"turn", "judge"},
             NEW path \in Left(id, stateDir), path \notin denied
      PROVE  path[1] \in {"scratch", "report"}
  <2>1. \A i \in stateDir \ {id} : /\ <<"state", i[1], i[2], i[3]>> \in denied
                                   /\ <<"evidence", i[1], i[2]>> \in denied
    BY <1>1 DEF IInv, InSight, Busy
  <2>2. \/ \E i \in stateDir : path = <<"scratch", i[1], i[2]>>
        \/ path = <<"report", "run.json">> \/ path = <<"report", "harness.log">>
    BY <1>1, <2>1 DEF Left
  <2> QED
    BY <2>2
<1>2. IInv => BoundaryHolds
  BY <1>1 DEF IInv, InSight, Probed, BoundaryHolds, Busy
<1> QED
  BY <1>2, Invariance, PTL

\* The grades of a list; when it settles the plan, no two are of one attempt, all are in
\* the plan, and every attempt has one when none was invalid.
GradesOf(G) == {G[n] : n \in 1..Len(G)}

\* When the whole plan is settled there is one grade for each unit that has one, and
\* without errors one for each unit.
LEMMA SettledGrades ==
    ASSUME NEW G \in Seq(GradeRecords), NEW E, Settles(G, E, Len(Plan))
    PROVE  /\ \A g \in GradesOf(G) : g \in GradeRecords /\ UnitOf(g) \in Units
           /\ \A g, h \in GradesOf(G) : UnitOf(g) = UnitOf(h) => g = h
           /\ E = <<>> => \A u \in Units : \E g \in GradesOf(G) : UnitOf(g) = u
<1>1. \A g \in GradesOf(G) : g \in GradeRecords /\ UnitOf(g) \in Units
  BY PlanFacts DEF Settles, GradesOf
<1>2. \A g, h \in GradesOf(G) : UnitOf(g) = UnitOf(h) => g = h
  <2> TAKE g, h \in GradesOf(G)
  <2> HAVE UnitOf(g) = UnitOf(h)
  <2>1. PICK j \in 1..Len(G), k \in 1..Len(G) : g = G[j] /\ h = G[k]
    BY DEF GradesOf
  <2>2. j = k
    BY <2>1 DEF Settles
  <2> QED
    BY <2>1, <2>2
<1>3. ASSUME E = <<>>, NEW u \in Units PROVE \E g \in GradesOf(G) : UnitOf(g) = u
  <2>1. PICK m \in 1..Len(Plan) : Plan[m] = u
    BY PlanFacts
  <2>2. Len(E) = 0
    BY <1>3
  <2> QED
    BY <2>1, <2>2 DEF Settles, GradesOf
<1> QED
  BY <1>1, <1>2, <1>3

\* How many grades a complete file has.
LEMMA AttemptCount ==
    ASSUME NEW all,
           \A g \in all : UnitOf(g) \in Units,
           \A g, h \in all : UnitOf(g) = UnitOf(h) => g = h,
           \A u \in Units : \E g \in all : UnitOf(g) = u
    PROVE  Cardinality(all) = Len(Plan)
<1> DEFINE P == 1..Len(Plan)
           f == [g \in all |-> CHOOSE m \in P : Plan[m] = UnitOf(g)]
<1>1. \A g \in all : f[g] \in P /\ Plan[f[g]] = UnitOf(g)
  BY PlanFacts
<1>2. f \in [all -> P]
  BY <1>1
<1>3. \A g, h \in all : f[g] = f[h] => g = h
  BY <1>1
<1>4. \A m \in P : \E g \in all : f[g] = m
  <2> TAKE m \in P
  <2>1. PICK g \in all : UnitOf(g) = Plan[m]
    BY PlanFacts
  <2>2. f[g] \in P /\ Plan[f[g]] = Plan[m]
    BY <1>1, <2>1
  <2>3. f[g] = m
    BY <2>2, PlanFacts
  <2> QED
    BY <2>3
<1> HIDE DEF f
<1>5. f \in Injection(all, P) /\ f \in Surjection(all, P)
  BY <1>2, <1>3, <1>4 DEF Injection, Surjection, IsInjective
<1>6. IsFiniteSet(P) /\ Cardinality(P) = Len(Plan)
  BY PlanFacts, RangeCardinality
<1> HIDE DEF P
<1>7. Cardinality(all) = Cardinality(P)
  BY <1>5, <1>6, FS_Injection
<1> QED
  BY <1>6, <1>7

\* How many graded attempts of a task come before one of them.
LEMMA EarlierCount ==
    ASSUME NEW all, NEW g \in all,
           \A h \in all : h \in GradeRecords /\ UnitOf(h) \in Units,
           \A h, j \in all : UnitOf(h) = UnitOf(j) => h = j,
           NEW earlier, earlier = {h \in all : h.task = g.task /\ h.attempt < g.attempt}
    PROVE  /\ g.attempt \in Nat /\ g.attempt >= 1
           /\ Cardinality(earlier) \in Nat /\ Cardinality(earlier) <= g.attempt - 1
           /\ (\A u \in Units : \E h \in all : UnitOf(h) = u) =>
                Cardinality(earlier) = g.attempt - 1
<1> DEFINE A == 1..(g.attempt - 1)
           f == [h \in earlier |-> h.attempt]
<1>1. \A h \in all : /\ h.attempt \in Nat /\ h.attempt >= 1 /\ h.attempt <= Repeats
                     /\ UnitOf(h) = <<h.task, h.attempt>>
  <2> TAKE h \in all
  <2>1. UnitOf(h)[2] \in Nat /\ UnitOf(h)[2] >= 1 /\ UnitOf(h)[2] <= Repeats
    BY IdFacts
  <2> QED
    BY <2>1 DEF UnitOf
<1>2. f \in [earlier -> A]
  BY <1>1
<1>3. \A h, j \in earlier : f[h] = f[j] => h = j
  BY <1>1
<1>4. f \in Injection(earlier, A)
  BY <1>2, <1>3 DEF Injection, IsInjective
<1>5. IsFiniteSet(A) /\ Cardinality(A) = g.attempt - 1
  <2>1. g.attempt - 1 \in Nat
    BY <1>1
  <2> QED
    BY <2>1, RangeCardinality
<1>6. ASSUME \A u \in Units : \E h \in all : UnitOf(h) = u
      PROVE  f \in Surjection(earlier, A)
  <2>1. ASSUME NEW a \in A PROVE \E h \in earlier : f[h] = a
    <3>1. <<g.task, a>> \in Units
      <4>1. g.task \in {Tasks[i] : i \in 1..Len(Tasks)}
        BY <1>1 DEF Units
      <4>2. a \in 1..Repeats
        BY <1>1, PlanAssumption
      <4> QED
        BY <4>1, <4>2 DEF Units
    <3>2. PICK h \in all : UnitOf(h) = <<g.task, a>>
      BY <1>6, <3>1
    <3>3. h.task = g.task /\ h.attempt = a
      BY <3>2 DEF UnitOf
    <3>4. h \in earlier
      BY <1>1, <3>3
    <3> QED
      BY <3>3, <3>4
  <2> HIDE DEF f
  <2> QED
    BY <1>2, <2>1 DEF Surjection
<1> HIDE DEF A, f
<1>7. /\ IsFiniteSet(earlier) /\ Cardinality(earlier) <= Cardinality(A)
      /\ Cardinality(earlier) = Cardinality(A) <=> f \in Surjection(earlier, A)
  BY <1>4, <1>5, FS_Injection
<1>8. Cardinality(earlier) \in Nat
  BY <1>7, FS_CardinalityType
<1> QED
  BY <1>1, <1>5, <1>6, <1>7, <1>8

\* A published file without errors counts every planned attempt, and its pass@k is
\* over the first k attempts; with errors it never misses a pass among the first k.
THEOREM PublishedRatesAreExact == Spec => []RatesAreExact
<1>1. ASSUME IInv PROVE RatesAreExact
  <2> SUFFICES ASSUME runJson \notin {Missing, Torn}
               PROVE  LET all == {runJson.grades[n] : n \in 1..Len(runJson.grades)}
                          hits == Aggregate(all).hits
                          truly(k) == {t \in {g.task : g \in all} :
                                         \E g \in all : g.task = t /\ g.attempt <= k /\ g.pass}
                      IN /\ runJson.errors = <<>> => Aggregate(all).attempts = Len(Plan)
                         /\ \A k \in 1..3 : truly(k) \subseteq hits[k]
                         /\ runJson.errors = <<>> => \A k \in 1..3 : hits[k] = truly(k)
    BY DEF RatesAreExact
  <2> DEFINE all == GradesOf(runJson.grades)
             tasks == {g.task : g \in all}
             truly(k) == {t \in tasks : \E g \in all : g.task = t /\ g.attempt <= k /\ g.pass}
             before(g) == {h \in {j \in all : j.task = g.task} : h.attempt < g.attempt}
  <2>1. /\ runJson.grades \in Seq(GradeRecords)
        /\ Settles(runJson.grades, runJson.errors, Len(Plan))
    BY <1>1 DEF IInv, TypeOK, Payloads, FileSettles
  <2>2. /\ \A g \in all : g \in GradeRecords /\ UnitOf(g) \in Units
        /\ \A g, h \in all : UnitOf(g) = UnitOf(h) => g = h
        /\ runJson.errors = <<>> => \A u \in Units : \E g \in all : UnitOf(g) = u
    BY <2>1, SettledGrades
  <2> HIDE DEF all
  <2>3. /\ Aggregate(all).attempts = Cardinality(all)
        /\ \A k \in 1..3 : Aggregate(all).hits[k] = {t \in tasks : PassAtK(all, t, k)}
    BY DEF Aggregate
  <2>4. runJson.errors = <<>> => Aggregate(all).attempts = Len(Plan)
    BY <2>2, <2>3, AttemptCount
  <2>5. ASSUME NEW g \in all
        PROVE  /\ g.attempt \in Nat /\ Cardinality(before(g)) \in Nat
               /\ Cardinality(before(g)) <= g.attempt - 1
               /\ runJson.errors = <<>> => Cardinality(before(g)) = g.attempt - 1
    <3>1. before(g) = {h \in all : h.task = g.task /\ h.attempt < g.attempt}
      OBVIOUS
    <3> HIDE DEF before
    <3> QED
      BY <2>2, <2>5, <3>1, EarlierCount
  <2>6. \A t, k : PassAtK(all, t, k) <=>
                    \E g \in all : g.task = t /\ g.pass /\ Cardinality(before(g)) < k
    BY DEF PassAtK
  <2> HIDE DEF before
  <2>7. ASSUME NEW k \in 1..3 PROVE truly(k) \subseteq Aggregate(all).hits[k]
    <3>1. ASSUME NEW t \in tasks, NEW g \in all, g.task = t, g.attempt <= k, g.pass
          PROVE  PassAtK(all, t, k)
      <4>1. Cardinality(before(g)) < k
        BY <2>5, <3>1
      <4> QED
        BY <2>6, <3>1, <4>1
    <3> QED
      BY <2>3, <3>1
  <2>8. ASSUME NEW k \in 1..3, runJson.errors = <<>>
        PROVE  Aggregate(all).hits[k] \subseteq truly(k)
    <3>1. ASSUME NEW t \in tasks, PassAtK(all, t, k)
          PROVE  t \in truly(k)
      <4>1. PICK g \in all : g.task = t /\ g.pass /\ Cardinality(before(g)) < k
        BY <2>6, <3>1
      <4>2. g.attempt <= k
        BY <2>5, <2>8, <4>1
      <4> QED
        BY <4>1, <4>2
    <3> QED
      BY <2>3, <3>1
  <2>9. \A k \in 1..3 : runJson.errors = <<>> => Aggregate(all).hits[k] = truly(k)
    BY <2>7, <2>8
  <2> QED
    BY <2>4, <2>7, <2>9 DEF all, GradesOf
<1> QED
  BY <1>1, Invariance, PTL

-----------------------------------------------------------------------------
(***************************************************************************)
(* Round4 implements AttemptLedger.                                        *)
(***************************************************************************)

\* The outcome of an attempt in two lists.
OutcomeIn(G, E, u) ==
    IF \E n \in 1..Len(E) : E[n] = u THEN "invalid"
    ELSE IF \E n \in 1..Len(G) : UnitOf(G[n]) = u /\ G[n].pass = TRUE THEN "pass"
    ELSE IF \E n \in 1..Len(G) : UnitOf(G[n]) = u /\ G[n].pass = FALSE THEN "fail" ELSE "lost"

\* The outcome of a unit depends on the grades and errors of the payload only.
LEMMA OutcomeValue == \A payload, u : Outcome(payload, u) = OutcomeIn(payload.grades, payload.errors, u)
BY DEF Outcome, OutcomeIn, UnitOf

\* One more error, one more grade.
LEMMA OutcomeOfError ==
    ASSUME NEW G, NEW E \in Seq(Units), NEW v \in Units, NEW u
    PROVE  OutcomeIn(G, Append(E, v), u) = IF u = v THEN "invalid" ELSE OutcomeIn(G, E, u)
<1> DEFINE F == Append(E, v)
<1>1. /\ Len(F) = Len(E) + 1 /\ F[Len(E) + 1] = v /\ Len(E) \in Nat
      /\ \A k \in 1..Len(E) : F[k] = E[k] /\ k \in 1..Len(F)
      /\ Len(E) + 1 \in 1..Len(F)
      /\ \A k \in 1..Len(F) : k \in 1..Len(E) \/ k = Len(E) + 1
  OBVIOUS
<1> HIDE DEF F
<1>2. (\E n \in 1..Len(F) : F[n] = u) <=> (u = v \/ \E n \in 1..Len(E) : E[n] = u)
  BY <1>1
<1> QED
  BY <1>2 DEF OutcomeIn, F

\* One more grade settles its own unit and no other.
LEMMA OutcomeOfGrade ==
    ASSUME NEW G \in Seq(GradeRecords), NEW E, NEW g \in GradeRecords, NEW u
    PROVE  /\ u # UnitOf(g) => OutcomeIn(Append(G, g), E, u) = OutcomeIn(G, E, u)
           /\ (/\ u = UnitOf(g)
               /\ \A n \in 1..Len(E) : E[n] # u
               /\ \A n \in 1..Len(G) : UnitOf(G[n]) # u)
              => OutcomeIn(Append(G, g), E, u) = IF g.pass THEN "pass" ELSE "fail"
<1> DEFINE H == Append(G, g)
<1>1. /\ Len(H) = Len(G) + 1 /\ H[Len(G) + 1] = g /\ Len(G) \in Nat
      /\ \A k \in 1..Len(G) : H[k] = G[k] /\ k \in 1..Len(H)
      /\ Len(G) + 1 \in 1..Len(H)
      /\ \A k \in 1..Len(H) : k \in 1..Len(G) \/ k = Len(G) + 1
  OBVIOUS
<1> HIDE DEF H
<1>2. ASSUME NEW b
      PROVE  (\E n \in 1..Len(H) : UnitOf(H[n]) = u /\ H[n].pass = b) <=>
                \/ UnitOf(g) = u /\ g.pass = b
                \/ \E n \in 1..Len(G) : UnitOf(G[n]) = u /\ G[n].pass = b
  BY <1>1
<1>3. g.pass \in BOOLEAN
  BY DEF GradeRecords
<1> QED
  BY <1>2, <1>3 DEF OutcomeIn, H

\* An attempt that is settled has one of the three outcomes.
LEMMA OutcomeSettled ==
    ASSUME NEW G \in Seq(GradeRecords), NEW E \in Seq(Units), NEW n \in Nat, Settles(G, E, n),
           NEW m \in 1..n
    PROVE  OutcomeIn(G, E, Plan[m]) \in {"pass", "fail", "invalid"}
<1>1. CASE \E k \in 1..Len(E) : E[k] = Plan[m]
  BY <1>1 DEF OutcomeIn
<1>2. CASE \E k \in 1..Len(G) : UnitOf(G[k]) = Plan[m]
  <2>1. \A k \in 1..Len(G) : G[k].pass \in BOOLEAN
    <3> TAKE k \in 1..Len(G)
    <3>1. G[k] \in GradeRecords
      OBVIOUS
    <3> QED
      BY <3>1 DEF GradeRecords
  <2> QED
    BY <1>2, <2>1 DEF OutcomeIn
<1> QED
  BY <1>1, <1>2 DEF Settles

\* What has been settled, in positions of the plan.
SettledIn(G, E, n) == [m \in 1..n |-> OutcomeIn(G, E, Plan[m])]

\* What is settled depends on the grades and errors only.
LEMMA SettledValue ==
    /\ \A n : SettledUpTo(InMemory, n) = SettledIn(grades, errors, n)
    /\ \A n : SettledUpTo(runJson, n) = SettledIn(runJson.grades, runJson.errors, n)
BY OutcomeValue DEF SettledUpTo, SettledIn, InMemory

\* One more position.
LEMMA SettledAppend ==
    ASSUME NEW G, NEW E, NEW H, NEW F, NEW n \in Nat \ {0},
           \A m \in 1..(n - 1) : OutcomeIn(H, F, Plan[m]) = OutcomeIn(G, E, Plan[m])
    PROVE  /\ SettledIn(H, F, n) = Append(SettledIn(G, E, n - 1), OutcomeIn(H, F, Plan[n]))
           /\ Len(SettledIn(G, E, n - 1)) = n - 1
<1> DEFINE S == SettledIn(G, E, n - 1)
           x == OutcomeIn(H, F, Plan[n])
<1>1. S = [m \in 1..(n - 1) |-> OutcomeIn(G, E, Plan[m])] /\ n - 1 \in Nat
  BY DEF SettledIn
<1> DEFINE V == {OutcomeIn(G, E, Plan[m]) : m \in 1..(n - 1)} \cup {x}
<1>2. Len(S) = n - 1 /\ S \in Seq(V) /\ x \in V
  BY <1>1
<1>3. /\ Append(S, x) \in Seq(V) /\ Len(Append(S, x)) = n /\ Append(S, x)[n] = x
      /\ \A m \in 1..(n - 1) : Append(S, x)[m] = S[m]
  <2> HIDE DEF S, x, V
  <2> QED
    BY <1>2
<1>4. Append(S, x) = [m \in 1..n |-> Append(S, x)[m]]
  <2> HIDE DEF S, x, V
  <2>1. Append(S, x) \in [1..n -> V]
    BY <1>3, LenProperties
  <2> QED
    BY <2>1
<1>5. SettledIn(H, F, n) = [m \in 1..n |-> OutcomeIn(H, F, Plan[m])]
  BY DEF SettledIn
<1>6. \A m \in 1..n : OutcomeIn(H, F, Plan[m]) = Append(S, x)[m]
  <2> TAKE m \in 1..n
  <2>1. CASE m = n
    <3>1. OutcomeIn(H, F, Plan[m]) = x
      BY <2>1
    <3> HIDE DEF S, x
    <3> QED
      BY <1>3, <2>1, <3>1
  <2>2. CASE m \in 1..(n - 1)
    <3>1. S[m] = OutcomeIn(G, E, Plan[m])
      BY <1>1, <2>2
    <3> HIDE DEF S, x
    <3> QED
      BY <1>3, <2>2, <3>1
  <2>3. m = n \/ m \in 1..(n - 1)
    OBVIOUS
  <2> QED
    BY <2>1, <2>2, <2>3
<1> HIDE DEF S, x
<1>7. SettledIn(H, F, n) = Append(S, x)
  BY <1>4, <1>5, <1>6
<1> QED
  BY <1>2, <1>7 DEF S, x

\* A published file is not NoFile.
LEMMA PublishedFact ==
    ASSUME IInv
    PROVE  /\ runJson \in {Missing, Torn} => PublishedFile = Missing
           /\ runJson \notin {Missing, Torn} =>
                /\ PublishedFile = SettledIn(runJson.grades, runJson.errors, Len(Plan))
                /\ PublishedFile # Missing
<1>1. CASE runJson \in {Missing, Torn}
  BY <1>1 DEF PublishedFile
<1>2. CASE runJson \notin {Missing, Torn}
  <2>1. PublishedFile = SettledIn(runJson.grades, runJson.errors, Len(Plan))
    BY <1>2, SettledValue DEF PublishedFile
  <2>2. /\ runJson.grades \in Seq(GradeRecords) /\ runJson.errors \in Seq(Units)
        /\ Settles(runJson.grades, runJson.errors, Len(Plan)) /\ Len(Plan) \in Nat
    BY <1>2, PlanFacts DEF IInv, TypeOK, Payloads, FileSettles
  <2>3. \A m \in 1..Len(Plan) :
           OutcomeIn(runJson.grades, runJson.errors, Plan[m]) \in {"pass", "fail", "invalid"}
    BY <2>2, OutcomeSettled
  <2>4. SettledIn(runJson.grades, runJson.errors, Len(Plan))
           \in [1..Len(Plan) -> {"pass", "fail", "invalid"}]
    BY <2>3 DEF SettledIn
  <2> QED
    BY <1>2, <2>1, <2>4, SentinelAssumption
<1> QED
  BY <1>1, <1>2

\* An attempt that ends, one way or another, is one Settle.
LEMMA SettleStep ==
    ASSUME IInv, pc \in Busy, pc' = "attempt", at' = at + 1, runJson' = runJson,
           NEW outcome \in {"pass", "fail", "invalid"},
           OutcomeIn(grades', errors', Plan[at]) = outcome,
           \A m \in 1..(at - 1) : OutcomeIn(grades', errors', Plan[m]) = OutcomeIn(grades, errors, Plan[m])
    PROVE  Ledger!Settle(outcome)
<1>1. at \in 1..Len(Plan) /\ Len(Plan) \in Nat /\ at \in Nat \ {0}
  BY UnitFact, PlanFacts DEF IInv
<1>2. Phase = "settling" /\ Phase' = "settling"
  BY DEF Phase, Busy
<1>3. /\ SettledSoFar = SettledIn(grades, errors, at - 1)
      /\ SettledSoFar' = SettledIn(grades', errors', at)
  <2>1. SettledSoFar = SettledUpTo(InMemory, at - 1)
    BY <1>2 DEF SettledSoFar
  <2>2. SettledSoFar' = SettledUpTo(InMemory, at - 1)'
    BY <1>2 DEF SettledSoFar
  <2>3. SettledUpTo(InMemory, at - 1)' = SettledIn(grades', errors', at' - 1)
    BY DEF SettledUpTo, SettledIn, InMemory, Outcome, OutcomeIn, UnitOf
  <2>4. at' - 1 = at
    BY <1>1
  <2> QED
    BY <2>1, <2>2, <2>3, <2>4, SettledValue
<1>4. /\ SettledSoFar' = Append(SettledSoFar, outcome) /\ Len(SettledSoFar) = at - 1
  BY <1>1, <1>3, SettledAppend
<1>5. PublishedFile' = PublishedFile
  BY DEF PublishedFile, SettledUpTo, Outcome
<1>6. Len(SettledSoFar) < Len(Plan)
  BY <1>1, <1>4
<1> QED
  BY <1>2, <1>4, <1>5, <1>6 DEF Ledger!Settle

\* An exception of run_attempt settles the unit as invalid in the ledger.
LEMMA RaiseIsSettle ==
    ASSUME IInv, pc \in Busy, Raise, runJson' = runJson
    PROVE  \E outcome \in {"pass", "fail", "invalid"} : Ledger!Settle(outcome)
<1>1. /\ at \in 1..Len(Plan) /\ Unit \in Units /\ Unit = Plan[at] /\ Len(Plan) \in Nat
      /\ errors \in Seq(Units)
  BY UnitFact, PlanFacts DEF IInv, Unit, TypeOK
<1>2. /\ errors' = Append(errors, Plan[at]) /\ grades' = grades /\ pc' = "attempt" /\ at' = at + 1
  BY <1>1 DEF Raise
<1>3. OutcomeIn(grades', errors', Plan[at]) = "invalid"
  BY <1>1, <1>2, OutcomeOfError
<1>4. \A m \in 1..(at - 1) : Plan[m] # Plan[at]
  BY <1>1, PlanFacts
<1>5. \A m \in 1..(at - 1) : OutcomeIn(grades', errors', Plan[m]) = OutcomeIn(grades, errors, Plan[m])
  BY <1>1, <1>2, <1>4, OutcomeOfError
<1> QED
  BY <1>2, <1>3, <1>5, SettleStep

\* Every step of the command is a step of the ledger, or none.
LEMMA LedgerStep == IInv /\ [Next]_vars => [Ledger!LedgerNext]_(Ledger!ledgerVars)
<1> SUFFICES ASSUME IInv, [Next]_vars PROVE [Ledger!LedgerNext]_(Ledger!ledgerVars)
  OBVIOUS
<1>0. TypeOK /\ InPlan /\ Progress /\ MemorySettles /\ FileSettles
  BY DEF IInv
<1>1. CASE Start
  <2>1. Phase' = Phase /\ SettledSoFar' = SettledSoFar /\ PublishedFile' = PublishedFile
    BY <1>1 DEF Start, disk, Phase, SettledSoFar, PublishedFile, SettledUpTo, Outcome
  <2> QED
    BY <2>1 DEF Ledger!ledgerVars
<1>2. CASE Regrade
  <2>1. /\ Phase = "idle" /\ Phase' = "writing" /\ PublishedFile' = Missing
    BY <1>2 DEF Regrade, Phase, PublishedFile
  <2>2. /\ PublishedFile # Missing
        /\ PublishedFile = SettledIn(runJson.grades, runJson.errors, Len(Plan))
    BY <1>2, PublishedFact DEF Regrade
  <2>3. SettledSoFar' = SettledIn(grades', errors', Len(Plan))
    BY <2>1 DEF SettledSoFar, SettledUpTo, SettledIn, InMemory, Outcome, OutcomeIn, UnitOf
  <2>4. /\ Len(grades') = Len(runJson.grades) /\ errors' = runJson.errors
        /\ \A n \in 1..Len(runJson.grades) :
             /\ UnitOf(grades'[n]) = UnitOf(runJson.grades[n])
             /\ grades'[n].pass = runJson.grades[n].pass
    BY <1>0, <1>2, Regrading DEF Regrade, UnitOf
  <2>5. \A u : OutcomeIn(grades', errors', u) = OutcomeIn(runJson.grades, runJson.errors, u)
    BY <2>4 DEF OutcomeIn
  <2>6. SettledSoFar' = PublishedFile
    BY <2>2, <2>3, <2>5 DEF SettledIn
  <2> QED
    BY <2>1, <2>2, <2>6 DEF Ledger!LedgerNext, Ledger!Reopen
<1>3. ASSUME NEW server \in {"frontier", "serving", "down", "other_model"},
             NEW armed \in BOOLEAN, NEW dry \in BOOLEAN, Check(server, armed, dry)
       PROVE  [Ledger!LedgerNext]_(Ledger!ledgerVars)
  <2>1. /\ Phase = "idle" /\ SettledSoFar = <<>> /\ PublishedFile' = PublishedFile
    BY <1>3 DEF Check, disk, Phase, SettledSoFar, PublishedFile, SettledUpTo, Outcome
  <2>2. CASE pc' = "idle"
    <3>1. Phase' = "idle" /\ SettledSoFar' = <<>>
      BY <2>2 DEF Phase, SettledSoFar
    <3> QED
      BY <2>1, <3>1 DEF Ledger!ledgerVars
  <2>3. CASE pc' = "attempt"
    <3>1. Phase' = "settling" /\ at' = 1
      BY <1>0, <1>3, <2>3 DEF Phase, Check, InPlan
    <3>2. SettledSoFar' = SettledIn(grades', errors', at' - 1)
      BY <3>1 DEF SettledSoFar, SettledUpTo, SettledIn, InMemory, Outcome, OutcomeIn, UnitOf
    <3>3. SettledSoFar' = <<>>
      BY <3>1, <3>2 DEF SettledIn
    <3> QED
      BY <2>1, <3>1, <3>3 DEF Ledger!LedgerNext, Ledger!Begin
  <2> QED
    BY <1>3, <2>2, <2>3 DEF Check
<1>4. CASE PickDirectory
  <2>1. /\ pc \in {"attempt"} \cup Busy /\ pc' \in {"attempt"} \cup Busy
        /\ grades' = grades /\ errors' = errors /\ at' = at /\ runJson' = runJson
    BY <1>4 DEF PickDirectory, Busy
  <2>2. /\ Phase' = Phase /\ SettledSoFar' = SettledSoFar /\ PublishedFile' = PublishedFile
    BY <2>1 DEF Phase, SettledSoFar, PublishedFile, InMemory, SettledUpTo, Outcome, Busy
  <2> QED
    BY <2>2 DEF Ledger!ledgerVars
<1>5. ASSUME NEW host \in Hosts, SaveMetadata(host)
       PROVE  [Ledger!LedgerNext]_(Ledger!ledgerVars)
  <2>1. CASE Raise
    <3>1. pc \in Busy /\ runJson' = runJson
      BY <1>5 DEF SaveMetadata, Busy, disk
    <3> QED
      BY <2>1, <3>1, RaiseIsSettle DEF Ledger!LedgerNext
  <2>2. CASE ~Raise
    <3>1. /\ pc \in {"attempt"} \cup Busy /\ pc' \in {"attempt"} \cup Busy
          /\ grades' = grades /\ errors' = errors /\ at' = at /\ runJson' = runJson
      BY <1>5, <2>2 DEF SaveMetadata, Busy
    <3>2. /\ Phase' = Phase /\ SettledSoFar' = SettledSoFar /\ PublishedFile' = PublishedFile
      BY <3>1 DEF Phase, SettledSoFar, PublishedFile, InMemory, SettledUpTo, Outcome, Busy
    <3> QED
      BY <3>2 DEF Ledger!ledgerVars
  <2> QED
    BY <2>1, <2>2
<1>6. CASE RefuseTurn
  <2>1. CASE Raise
    <3>1. pc \in Busy /\ runJson' = runJson
      BY <1>6 DEF RefuseTurn, Busy, disk
    <3> QED
      BY <2>1, <3>1, RaiseIsSettle DEF Ledger!LedgerNext
  <2> QED
    BY <1>6, <2>1 DEF RefuseTurn
<1>7. ASSUME NEW raw \in RawTurns, RunTurn(raw)
       PROVE  [Ledger!LedgerNext]_(Ledger!ledgerVars)
  <2>1. /\ pc \in {"attempt"} \cup Busy /\ pc' \in {"attempt"} \cup Busy
        /\ grades' = grades /\ errors' = errors /\ at' = at /\ runJson' = runJson
    BY <1>7 DEF RunTurn, Busy
  <2>2. /\ Phase' = Phase /\ SettledSoFar' = SettledSoFar /\ PublishedFile' = PublishedFile
    BY <2>1 DEF Phase, SettledSoFar, PublishedFile, InMemory, SettledUpTo, Outcome, Busy
  <2> QED
    BY <2>2 DEF Ledger!ledgerVars
<1>8. CASE JudgeTurn
  <2>1. CASE Raise
    <3>1. pc \in Busy /\ runJson' = runJson
      BY <1>8 DEF JudgeTurn, Busy, disk
    <3> QED
      BY <2>1, <3>1, RaiseIsSettle DEF Ledger!LedgerNext
  <2>2. CASE ~Raise
    <3>1. /\ pc \in {"attempt"} \cup Busy /\ pc' \in {"attempt"} \cup Busy
          /\ grades' = grades /\ errors' = errors /\ at' = at /\ runJson' = runJson
      BY <1>8, <2>2 DEF JudgeTurn, Busy
    <3>2. /\ Phase' = Phase /\ SettledSoFar' = SettledSoFar /\ PublishedFile' = PublishedFile
      BY <3>1 DEF Phase, SettledSoFar, PublishedFile, InMemory, SettledUpTo, Outcome, Busy
    <3> QED
      BY <3>2 DEF Ledger!ledgerVars
  <2> QED
    BY <2>1, <2>2
<1>9. ASSUME NEW good \in BOOLEAN, SaveRepo(good)
       PROVE  [Ledger!LedgerNext]_(Ledger!ledgerVars)
  <2>1. /\ pc \in {"attempt"} \cup Busy /\ pc' \in {"attempt"} \cup Busy
        /\ grades' = grades /\ errors' = errors /\ at' = at /\ runJson' = runJson
    BY <1>9 DEF SaveRepo, Busy
  <2>2. /\ Phase' = Phase /\ SettledSoFar' = SettledSoFar /\ PublishedFile' = PublishedFile
    BY <2>1 DEF Phase, SettledSoFar, PublishedFile, InMemory, SettledUpTo, Outcome, Busy
  <2> QED
    BY <2>2 DEF Ledger!ledgerVars
<1>10. ASSUME NEW raises \in BOOLEAN, OpenGrade(raises)
       PROVE  [Ledger!LedgerNext]_(Ledger!ledgerVars)
  <2>1. CASE Raise
    <3>1. pc \in Busy /\ runJson' = runJson
      BY <1>10 DEF OpenGrade, Busy, disk
    <3> QED
      BY <2>1, <3>1, RaiseIsSettle DEF Ledger!LedgerNext
  <2>2. CASE ~Raise
    <3>1. /\ pc \in {"attempt"} \cup Busy /\ pc' \in {"attempt"} \cup Busy
          /\ grades' = grades /\ errors' = errors /\ at' = at /\ runJson' = runJson
      BY <1>10, <2>2 DEF OpenGrade, Busy
    <3>2. /\ Phase' = Phase /\ SettledSoFar' = SettledSoFar /\ PublishedFile' = PublishedFile
      BY <3>1 DEF Phase, SettledSoFar, PublishedFile, InMemory, SettledUpTo, Outcome, Busy
    <3> QED
      BY <3>2 DEF Ledger!ledgerVars
  <2> QED
    BY <2>1, <2>2
<1>11. CASE DumpGrade
  <2> DEFINE g == GradeOf(Unit, id[3], repoAfter[id], turn)
             outcome == IF g.pass THEN "pass" ELSE "fail"
  <2>1. /\ pc \in Busy /\ pc' = "attempt" /\ at' = at + 1 /\ runJson' = runJson
        /\ grades' = Append(grades, g) /\ errors' = errors
    BY <1>11 DEF DumpGrade, Busy
  <2>2. /\ at \in 1..Len(Plan) /\ Len(Plan) \in Nat /\ Unit = Plan[at] /\ Unit = <<Unit[1], Unit[2]>>
    BY <1>0, <2>1, UnitFact, PlanFacts, IdFacts DEF Unit
  <2>3. UnitOf(g) = Plan[at]
    BY <2>2 DEF UnitOf, GradeOf
  <2>4. g \in GradeRecords /\ grades \in Seq(GradeRecords)
    <3>1. grades' \in Seq(GradeRecords) /\ grades \in Seq(GradeRecords)
      BY <1>0, TypeStep DEF TypeOK
    <3>2. Len(grades) + 1 \in 1..Len(grades') /\ grades'[Len(grades) + 1] = g
      <4> HIDE DEF g
      <4> QED
        BY <2>1, <3>1
    <3> QED
      BY <3>1, <3>2
  <2> HIDE DEF g
  <2>5. Settles(grades, errors, at - 1) /\ \A m \in 1..(at - 1) : Plan[m] # Plan[at]
    BY <1>0, <2>1, <2>2, PlanFacts DEF MemorySettles
  <2>6. /\ \A n \in 1..Len(errors) : errors[n] # Plan[at]
        /\ \A n \in 1..Len(grades) : UnitOf(grades[n]) # Plan[at]
    BY <2>5 DEF Settles
  <2>7. OutcomeIn(grades', errors', Plan[at]) = outcome
    BY <2>1, <2>3, <2>4, <2>6, OutcomeOfGrade
  <2>8. \A m \in 1..(at - 1) : OutcomeIn(grades', errors', Plan[m]) = OutcomeIn(grades, errors, Plan[m])
    BY <2>1, <2>3, <2>4, <2>5, OutcomeOfGrade, ZenonT(60)
  <2>9. outcome \in {"pass", "fail", "invalid"}
    OBVIOUS
  <2> HIDE DEF outcome
  <2>10. Ledger!Settle(outcome)
    BY <2>1, <2>7, <2>8, <2>9, SettleStep
  <2> QED
    BY <2>9, <2>10 DEF Ledger!LedgerNext
<1>12. CASE OpenRunJson
  <2>1. /\ at \in 1..(Len(Plan) + 1) /\ at > Len(Plan) /\ Len(Plan) \in Nat /\ pc = "attempt"
        /\ pc' = "write" /\ grades' = grades /\ errors' = errors /\ runJson' = Torn
    BY <1>0, <1>12, PlanFacts DEF OpenRunJson, InPlan
  <2>2. at - 1 = Len(Plan)
    BY <2>1
  <2>3. Phase = "settling" /\ Phase' = "writing" /\ PublishedFile' = Missing
    BY <2>1 DEF Phase, PublishedFile
  <2>4. /\ SettledSoFar = SettledIn(grades, errors, Len(Plan))
        /\ SettledSoFar' = SettledIn(grades, errors, Len(Plan))
    <3>1. SettledSoFar = SettledUpTo(InMemory, Len(Plan))
      BY <2>2, <2>3 DEF SettledSoFar
    <3>2. SettledSoFar' = SettledIn(grades', errors', Len(Plan))
      BY <2>3 DEF SettledSoFar, SettledUpTo, SettledIn, InMemory, Outcome, OutcomeIn, UnitOf
    <3> QED
      BY <2>1, <3>1, <3>2, SettledValue
  <2>5. Len(SettledSoFar) = Len(Plan)
    BY <2>1, <2>4 DEF SettledIn
  <2> QED
    BY <2>3, <2>4, <2>5 DEF Ledger!LedgerNext, Ledger!Withdraw
<1>13. CASE DumpRunJson
  <2>1. /\ pc = "write" /\ pc' = "idle" /\ runJson' = [grades |-> grades, errors |-> errors]
    BY <1>13 DEF DumpRunJson
  <2>2. runJson' \notin {Missing, Torn} /\ runJson'.grades = grades /\ runJson'.errors = errors
    BY <1>0, <2>1, SentinelAssumption DEF TypeOK, Payloads
  <2>3. Phase = "writing" /\ Phase' = "idle" /\ SettledSoFar' = <<>>
    BY <2>1 DEF Phase, SettledSoFar
  <2>4. SettledSoFar = SettledIn(grades, errors, Len(Plan))
    BY <2>3, SettledValue DEF SettledSoFar
  <2>5. PublishedFile' = SettledIn(grades, errors, Len(Plan))
    <3>1. PublishedFile' = SettledUpTo(runJson', Len(Plan))
      BY <2>2 DEF PublishedFile, SettledUpTo, Outcome
    <3> QED
      BY <2>2, <3>1, OutcomeValue DEF SettledUpTo, SettledIn
  <2> QED
    BY <2>3, <2>4, <2>5 DEF Ledger!LedgerNext, Ledger!Publish
<1>14. CASE DumpRegraded
  <2>1. /\ pc = "rewrite" /\ pc' = "idle" /\ runJson' = [grades |-> grades, errors |-> errors]
    BY <1>14 DEF DumpRegraded
  <2>2. runJson' \notin {Missing, Torn} /\ runJson'.grades = grades /\ runJson'.errors = errors
    BY <1>0, <2>1, SentinelAssumption DEF TypeOK, Payloads
  <2>3. Phase = "writing" /\ Phase' = "idle" /\ SettledSoFar' = <<>>
    BY <2>1 DEF Phase, SettledSoFar
  <2>4. SettledSoFar = SettledIn(grades, errors, Len(Plan))
    BY <2>3, SettledValue DEF SettledSoFar
  <2>5. PublishedFile' = SettledIn(grades, errors, Len(Plan))
    <3>1. PublishedFile' = SettledUpTo(runJson', Len(Plan))
      BY <2>2 DEF PublishedFile, SettledUpTo, Outcome
    <3> QED
      BY <2>2, <3>1, OutcomeValue DEF SettledUpTo, SettledIn
  <2> QED
    BY <2>3, <2>4, <2>5 DEF Ledger!LedgerNext, Ledger!Publish
<1>15. CASE Kill
  <2>1. pc # "idle" /\ pc' = "idle" /\ runJson' = runJson
    BY <1>15 DEF Kill, disk
  <2>2. Phase' = "idle" /\ SettledSoFar' = <<>> /\ PublishedFile' = PublishedFile
    BY <2>1 DEF Phase, SettledSoFar, PublishedFile, SettledUpTo, Outcome
  <2>3. CASE pc = "check"
    <3>1. Phase = "idle" /\ SettledSoFar = <<>>
      BY <2>3 DEF Phase, SettledSoFar
    <3> QED
      BY <2>2, <3>1 DEF Ledger!ledgerVars
  <2>4. CASE pc # "check"
    <3>1. Phase # "idle"
      BY <2>1, <2>4 DEF Phase
    <3> QED
      BY <2>2, <3>1 DEF Ledger!LedgerNext, Ledger!Stop
  <2> QED
    BY <2>3, <2>4
<1>16. CASE UNCHANGED vars
  <2>1. Phase' = Phase /\ SettledSoFar' = SettledSoFar /\ PublishedFile' = PublishedFile
    BY <1>16 DEF vars, disk, Phase, SettledSoFar, PublishedFile, SettledUpTo, InMemory, Outcome
  <2> QED
    BY <2>1 DEF Ledger!ledgerVars
<1> QED
  BY <1>1, <1>2, <1>3, <1>4, <1>5, <1>6, <1>7, <1>8, <1>9, <1>10, <1>11, <1>12, <1>13, <1>14,
     <1>15, <1>16 DEF Next, Step, Done

\* The command implements AttemptLedger: planned attempts are settled once and in
\* order, run.json holds all of what one command settled or nothing, and a regrade
\* gives back what was published.
THEOREM Refinement == Spec => ImplementsLedger
<1>1. Init => Ledger!LedgerInit
  BY DEF Init, Ledger!LedgerInit, Phase, SettledSoFar, PublishedFile
<1> QED
  BY <1>1, LedgerStep, Invariance, PTL DEF Spec, ImplementsLedger, Ledger!LedgerSpec
=============================================================================
