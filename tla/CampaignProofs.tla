--------------------------- MODULE CampaignProofs ---------------------------
(***************************************************************************)
(* Proofs about Campaign, for every set of configurations, every question  *)
(* bank and every bound on the faults.                                     *)
(***************************************************************************)
EXTENDS Campaign, SumTheorems

-----------------------------------------------------------------------------
(***************************************************************************)
(* Facts about the constants and the operators.                            *)
(***************************************************************************)

\* What the loops rely on in a valid configuration.
LEMMA PlanFacts ==
    ASSUME NEW c \in Configs
    PROVE  /\ c.models \in Seq(ModelConfig) /\ c.models # <<>>
           /\ c.repetitions \in Nat /\ c.repetitions >= 1
           /\ c.repetitions <= MaxRepetitions
           /\ \A i \in 1..Len(c.models) :
                /\ c.models[i].key \in Keys
                /\ ReasoningRounds(c.models[i]) \in Seq(1..3)
                /\ \A r \in 1..3 : Questions(c.models[i], r) \in Seq(Items)
                /\ Round4Tasks(c, c.models[i]) \in Seq(Tasks)
                /\ Round4Tasks(c, c.models[i]) # <<>>
<1>1. c \in Config /\ ValidConfig(c)
  BY ConfigAssumption
<1>2. /\ c.models \in Seq(ModelConfig) /\ c.repetitions \in Attempts
      /\ c.round4_tasks \in Seq(Tasks)
  BY <1>1 DEF Config
<1>3. c.repetitions \in Nat /\ c.repetitions >= 1 /\ c.repetitions <= MaxRepetitions
  BY <1>2, ConfigAssumption DEF Attempts
<1>4. c.models # <<>>
  BY <1>1 DEF ValidConfig
<1>5. ASSUME NEW i \in 1..Len(c.models)
      PROVE  /\ c.models[i].key \in Keys
             /\ ReasoningRounds(c.models[i]) \in Seq(1..3)
             /\ \A r \in 1..3 : Questions(c.models[i], r) \in Seq(Items)
             /\ Round4Tasks(c, c.models[i]) \in Seq(Tasks)
             /\ Round4Tasks(c, c.models[i]) # <<>>
  <2>1. c.models[i] \in ModelConfig
    BY <1>2, <1>5
  <2>2. c.models[i].key \in Keys
    BY <2>1 DEF ModelConfig
  <2>4. CANONICAL_TASKS \in Seq(Tasks) /\ CANONICAL_TASKS # <<>>
    BY ConfigAssumption
  <2>3. c.models[i].filters[4] \in Seq(Tasks)
    <3> DEFINE filter == c.models[i].filters[4]
    <3>1. filter \in Seq(Items \cup Tasks)
      BY <2>1 DEF ModelConfig
    <3>2. Range(filter) \subseteq Range(CANONICAL_TASKS)
      BY <1>5, ConfigAssumption DEF ValidFilters
    <3> HIDE DEF filter
    <3>3. Range(CANONICAL_TASKS) \subseteq Tasks
      BY <2>4 DEF Range
    <3>4. \A k \in 1..Len(filter) : filter[k] \in Tasks
      BY <3>1, <3>2, <3>3 DEF Range
    <3> QED
      BY <3>1, <3>4, SMTT(40) DEF filter
  <2>5. /\ Round4Tasks(c, c.models[i]) \in Seq(Tasks)
        /\ Round4Tasks(c, c.models[i]) # <<>>
    BY <1>2, <2>3, <2>4 DEF Round4Tasks, NoTasks
  <2> QED
    BY <2>2, <2>5, <1>5, PlanAssumption
<1> QED
  BY <1>2, <1>3, <1>4, <1>5

\* A count of rows is a natural number.
LEMMA CountType ==
    ASSUME NEW S, NEW rs \in Seq(S), NEW T \in SUBSET (1..Len(rs))
    PROVE  Cardinality(T) \in Nat
<1>1. IsFiniteSet(1..Len(rs))
  BY FS_Interval
<1>2. IsFiniteSet(T)
  BY <1>1, FS_Subset
<1> QED
  BY <1>2, FS_CardinalityType

\* The payloads of both runners are well formed.
LEMMA PayloadType ==
    ASSUME NEW rs \in Seq(Row(Items))
    PROVE  Payload12(rs) \in Payload /\ Payload3(rs) \in Payload
<1>1. \A T \in SUBSET (1..Len(rs)) : Cardinality(T) \in Nat
  BY CountType
<1>2. Len(rs) \in Nat
  OBVIOUS
<1>3. Payload12(rs) \in Payload
  BY <1>1, <1>2 DEF Payload12, Payload, CountRows
<1>4. Payload3(rs) \in Payload
  BY <1>1, <1>2 DEF Payload3, Payload, CountRows
<1> QED
  BY <1>3, <1>4

\* The rows of both runners are well formed, and so are their display statuses.
LEMMA RowType ==
    ASSUME NEW q \in Items, NEW resp \in Responses, NEW multi \in BOOLEAN
    PROVE  /\ Row12(q, resp) \in Row(Items) /\ Row12(q, resp).status \in Statuses
           /\ Row3(q, multi, resp) \in Row(Items)
           /\ mark3(Row3(q, multi, resp)) \in Statuses
           /\ Row12(q, resp).id = q /\ Row3(q, multi, resp).id = q
<1>1. /\ Row12(q, resp) \in Row(Items) /\ Row12(q, resp).status \in Statuses
      /\ Row12(q, resp).id = q
  BY DEF Row12, Row, Statuses, Responses, complete, Replies, Verdicts, NoStatus, Graded, output_limited
<1>2. Row3(q, multi, resp) \in Row(Items) /\ Row3(q, multi, resp).id = q
  BY DEF Row3, Row, Statuses, Responses, complete, Replies, Verdicts, NoStatus, Graded, output_limited
<1>3. mark3(Row3(q, multi, resp)) \in Statuses
  BY DEF mark3, Row3, Statuses
<1> QED
  BY <1>1, <1>2, <1>3

Dashboards == [completed : Nat, skipped : Nat, tally : [Statuses -> Nat]]

Memories == [grades : Seq(Grade), errors : Seq(Error)]

\* The counters of the dashboard stay counters.
LEMMA DashboardType ==
    ASSUME NEW d \in Dashboards, NEW n \in Nat, NEW s \in Statuses
    PROVE  skip(d, n) \in Dashboards /\ record(d, s) \in Dashboards
<1>1. d.completed \in Nat /\ d.skipped \in Nat /\ d.tally \in [Statuses -> Nat]
  BY DEF Dashboards
<1>4. [d.tally EXCEPT ![s] = d.tally[s] + 1] \in [Statuses -> Nat]
  BY <1>1
<1>5. skip(d, n) \in Dashboards
  BY <1>1 DEF Dashboards, skip
<1>6. record(d, s) \in Dashboards
  BY <1>1, <1>4 DEF Dashboards, record
<1> QED
  BY <1>5, <1>6

\* Appending a grade or an error keeps the memory of v4_runner.main well formed.
LEMMA MemoryType ==
    ASSUME NEW x \in Memories, NEW g \in Grade, NEW e \in Error
    PROVE  /\ [x EXCEPT !.grades = Append(@, g)] \in Memories
           /\ [x EXCEPT !.errors = Append(@, e)] \in Memories
<1>1. [x EXCEPT !.grades = Append(@, g)] \in Memories
  BY DEF Memories
<1>2. [x EXCEPT !.errors = Append(@, e)] \in Memories
  BY SMTT(40) DEF Memories
<1> QED
  BY <1>1, <1>2

\* The fault counter stays within its bound.
LEMMA FaultType ==
    ASSUME NEW f \in 0..MaxFaults
    PROVE  f < MaxFaults => f + 1 \in 0..MaxFaults
BY ConfigAssumption

-----------------------------------------------------------------------------
(***************************************************************************)
(* The plan as a set.  _campaign_units adds up what is planned for each    *)
(* model and round; Work is one element for each unit of that sum.         *)
(***************************************************************************)
Rounds(c) == {y \in (1..Len(c.models)) \X (1..4) : y[2] \in Range(c.models[y[1]].rounds)}

Share(c, x) == {x} \X ((1..c.repetitions) \X (1..ModelRoundUnits(c, c.models[x[1]], x[2])))

Work(c) == UNION {Share(c, x) : x \in Rounds(c)}

\* The size of an interval.
LEMMA UpTo ==
    ASSUME NEW n \in Nat
    PROVE  IsFiniteSet(1..n) /\ Cardinality(1..n) = n
<1>1. IsFiniteSet(1..n) /\ Cardinality(1..n) = IF 1 > n THEN 0 ELSE n - 1 + 1
  BY FS_Interval
<1> QED
  BY <1>1

\* The questions of a filter are all found in the bank, in a list of the same length.
LEMMA SelectedLength ==
    ASSUME NEW S, NEW s \in Seq(S), NEW f \in Seq(S), NEW t \in Seq(S), IsInjective(s), IsInjective(f),
           Range(f) \subseteq Range(s), Selected(t, s, Range(f))
    PROVE  Len(t) = Len(f)
<1>1. Range(t) = Range(f) /\ IsInjective(t)
  BY DEF Selected
<1>2. \A g \in Seq(S) : IsInjective(g) => g \in Bijection(1..Len(g), Range(g))
  BY DEF Bijection, Injection, Surjection, IsInjective, Range
<1>3. \A g \in Seq(S) : IsInjective(g) => /\ IsFiniteSet(Range(g)) /\ Cardinality(Range(g)) = Len(g)
  <2> SUFFICES ASSUME NEW g \in Seq(S), IsInjective(g)
               PROVE  IsFiniteSet(Range(g)) /\ Cardinality(Range(g)) = Len(g)
    OBVIOUS
  <2>1. IsFiniteSet(1..Len(g)) /\ Cardinality(1..Len(g)) = Len(g)
    BY UpTo
  <2>2. ExistsBijection(1..Len(g), Range(g))
    BY <1>2 DEF ExistsBijection
  <2> QED
    BY <2>1, <2>2, FS_Bijection
<1> QED
  BY <1>1, <1>3

\* The plan of a model and round is the length of the list that is worked through.
LEMMA UnitsOfRound ==
    ASSUME NEW c \in Configs, NEW i \in 1..Len(c.models)
    PROVE  /\ \A r \in 1..3 : ModelRoundUnits(c, c.models[i], r) = Len(Questions(c.models[i], r))
           /\ ModelRoundUnits(c, c.models[i], 4) = Len(Round4Tasks(c, c.models[i]))
           /\ \A r \in 1..4 : ModelRoundUnits(c, c.models[i], r) \in Nat
<1> DEFINE model == c.models[i]
<1>0. /\ \A r \in 1..3 : Questions(model, r) \in Seq(Items)
      /\ Round4Tasks(c, model) \in Seq(Tasks)
  BY PlanFacts
<1>1. ModelRoundUnits(c, model, 4) = Len(Round4Tasks(c, model))
  BY DEF ModelRoundUnits, Round4Tasks
<1>2. ASSUME NEW r \in 1..3
      PROVE  ModelRoundUnits(c, model, r) = Len(Questions(model, r))
  <2>1. CASE model.filters[r] = NoTasks
    BY <2>1 DEF ModelRoundUnits, Questions
  <2>2. CASE model.filters[r] # NoTasks
    <3>1. /\ Bank[r] \in Seq(Items) /\ IsInjective(Bank[r])
          /\ c \in Config /\ ValidFilters(c)
      BY ConfigAssumption
    <3>2. model.filters[r] \in Seq(Items \cup Tasks)
      <4>1. c.models \in Seq(ModelConfig)
        BY <3>1 DEF Config
      <4>2. model \in ModelConfig
        BY <4>1
      <4> HIDE DEF model
      <4> QED
        BY <4>2 DEF ModelConfig
    <3>3. IsInjective(model.filters[r]) /\ Range(model.filters[r]) \subseteq Range(Bank[r])
      <4>1. /\ r \in 1..4 /\ r # 4
        OBVIOUS
      <4> QED
        BY <3>1, <4>1 DEF ValidFilters
    <3>4. Selected(Questions(model, r), Bank[r], Range(model.filters[r]))
      BY <2>2, PlanAssumption
    <3>5. Bank[r] \in Seq(Items \cup Tasks) /\ Questions(model, r) \in Seq(Items \cup Tasks)
      BY <1>0, <3>1
    <3>6. Len(Questions(model, r)) = Len(model.filters[r])
      <4> HIDE DEF model
      <4> QED
        BY <3>1, <3>2, <3>3, <3>4, <3>5, SelectedLength
    <3> QED
      BY <2>2, <3>6 DEF ModelRoundUnits
  <2> QED
    BY <2>1, <2>2
<1>3. \A r \in 1..4 : ModelRoundUnits(c, model, r) \in Nat
  <2>1. Len(Round4Tasks(c, model)) \in Nat /\ \A r \in 1..3 : Len(Questions(model, r)) \in Nat
    BY <1>0
  <2> HIDE DEF model
  <2> QED
    BY <1>1, <1>2, <2>1
<1> QED
  BY <1>1, <1>2, <1>3

\* The units of one model and round.
LEMMA ShareSize ==
    ASSUME NEW c \in Configs, NEW x \in Rounds(c)
    PROVE  /\ IsFiniteSet(Share(c, x))
           /\ Cardinality(Share(c, x)) = c.repetitions * ModelRoundUnits(c, c.models[x[1]], x[2])
<1> DEFINE n == c.repetitions
           u == ModelRoundUnits(c, c.models[x[1]], x[2])
           A == 1..n
           B == 1..u
<1>1. n \in Nat /\ u \in Nat
  <2>1. x[1] \in 1..Len(c.models) /\ x[2] \in 1..4
    BY DEF Rounds
  <2> QED
    BY <2>1, PlanFacts, UnitsOfRound
<1>2. Share(c, x) = {x} \X (A \X B)
  BY DEF Share
<1> HIDE DEF n, u
<1>3. /\ IsFiniteSet(A) /\ Cardinality(A) = n
      /\ IsFiniteSet(B) /\ Cardinality(B) = u
      /\ IsFiniteSet({x}) /\ Cardinality({x}) = 1
  <2>1. IsFiniteSet({x}) /\ Cardinality({x}) = 1
    BY FS_Singleton
  <2>2. IsFiniteSet(1..n) /\ Cardinality(1..n) = n
    BY <1>1, UpTo
  <2>3. IsFiniteSet(1..u) /\ Cardinality(1..u) = u
    BY <1>1, UpTo
  <2> QED
    BY <2>1, <2>2, <2>3
<1> HIDE DEF A, B
<1>4. IsFiniteSet(A \X B) /\ Cardinality(A \X B) = n * u
  BY <1>3, FS_Product
<1>5. IsFiniteSet({x} \X (A \X B)) /\ Cardinality({x} \X (A \X B)) = 1 * (n * u)
  BY <1>3, <1>4, FS_Product, SMTT(40)
<1>6. n * u \in Nat
  BY <1>4, FS_CardinalityType
<1>7. IsFiniteSet(Share(c, x)) /\ Cardinality(Share(c, x)) = n * u
  BY <1>2, <1>5, <1>6
<1> QED
  BY <1>7 DEF n, u

\* The total of the progress bar is the number of units of the plan.
LEMMA PlanSize ==
    ASSUME NEW c \in Configs
    PROVE  /\ IsFiniteSet(Work(c)) /\ Cardinality(Work(c)) = CampaignUnits(c)
           /\ CampaignUnits(c) \in Nat
<1> DEFINE n == c.repetitions
           u(x) == ModelRoundUnits(c, c.models[x[1]], x[2])
           w == [x \in Rounds(c) |-> n * u(x)]
           T == [x \in Rounds(c) |-> Share(c, x)]
<1>1. n \in Nat /\ Len(c.models) \in Nat
  BY PlanFacts
<1>2. \A x \in Rounds(c) : u(x) \in Nat
  BY UnitsOfRound DEF Rounds
<1>3. IsFiniteSet(Rounds(c))
  <2>1. IsFiniteSet(1..Len(c.models)) /\ IsFiniteSet(1..4)
    BY <1>1, UpTo
  <2>2. IsFiniteSet((1..Len(c.models)) \X (1..4))
    BY <2>1, FS_Product
  <2>3. Rounds(c) \subseteq (1..Len(c.models)) \X (1..4)
    BY DEF Rounds
  <2> QED
    BY <2>2, <2>3, FS_Subset
<1>4. ASSUME NEW x \in Rounds(c)
      PROVE  IsFiniteSet(T[x]) /\ w[x] = Cardinality(T[x])
  BY ShareSize
<1>5. \A x, y \in Rounds(c) : x # y => T[x] \cap T[y] = {}
  BY DEF Share
<1>6. CampaignUnits(c) = SumFunctionOnSet(w, Rounds(c))
  BY DEF CampaignUnits, SumFunction, Rounds
<1>7. Work(c) = UNION {T[x] : x \in Rounds(c)}
  BY DEF Work
<1>8. \A x \in Rounds(c) : w[x] \in Nat
  <2> HIDE DEF w, T
  <2> QED
    BY <1>4, FS_CardinalityType
<1> HIDE DEF w, T, n, u
<1>9. SumFunctionOnSet(w, Rounds(c)) = Sigma(w, Rounds(c))
  BY <1>3, <1>8, SumOfFunction
<1>10. /\ IsFiniteSet(UNION {T[x] : x \in Rounds(c)})
       /\ Cardinality(UNION {T[x] : x \in Rounds(c)}) = Sigma(w, Rounds(c))
  BY <1>3, <1>4, <1>5, SigmaOfSizes
<1>11. IsFiniteSet(Work(c)) /\ Cardinality(Work(c)) = CampaignUnits(c)
  BY <1>6, <1>7, <1>9, <1>10
<1> QED
  BY <1>11, FS_CardinalityType

-----------------------------------------------------------------------------
(***************************************************************************)
(* Type correctness.  TypeOK alone is not inductive: that the next row has *)
(* a question id and the next grade a task name depends on where the loops *)
(* are, so the invariant carries the ranges of the loop variables.         *)
(***************************************************************************)
InReasoning == pc \in {"unit", "ask"}
InRound4    == pc \in {"attempt", "run.json", "dump"}

LoopInv ==
    /\ InReasoning \/ InRound4 \/ pc = "round4" => mi \in 1..Len(cfg.models)
    /\ InReasoning => /\ ri \in 1..Len(ReasoningRounds(Model))
                      /\ at \in 1..cfg.repetitions
    /\ pc = "attempt" => ri \in 1..Len(R4Tasks) /\ at \in 1..cfg.repetitions
    /\ pc # "ask" => rows = <<>>
    /\ ~InRound4 => r4 = EmptyR4

TypeInv == TypeOK /\ LoopInv

USE DEF InReasoning, InRound4

\* Entering the loops of one model keeps the loop variables in range.
LEMMA StartModelLoop ==
    ASSUME NEW c \in Configs, NEW i \in 1..Len(c.models), StartModel(c, i), cfg' = c
    PROVE  /\ mi' \in 1..Len(cfg'.models) /\ mi' \in Nat /\ ri' \in Nat /\ at' \in Nat
           /\ pc' \in {"unit", "round4"}
           /\ pc' = "unit" => /\ ri' \in 1..Len(ReasoningRounds(Model'))
                              /\ at' \in 1..cfg'.repetitions
<1>1. /\ c.models \in Seq(ModelConfig) /\ ReasoningRounds(c.models[i]) \in Seq(1..3)
      /\ c.repetitions \in Nat /\ c.repetitions >= 1
  BY PlanFacts
<1>2. Model' = c.models[i]
  BY DEF StartModel, Model
<1>3. pc' = "unit" => Len(ReasoningRounds(c.models[i])) >= 1
  BY <1>1 DEF StartModel
<1> QED
  BY <1>1, <1>2, <1>3 DEF StartModel

\* Advancing to the next unit of a model keeps them in range.
LEMMA NextUnitLoop ==
    ASSUME TypeOK, LoopInv, InReasoning, NextUnit, cfg' = cfg
    PROVE  /\ mi' = mi /\ mi' \in 1..Len(cfg'.models)
           /\ ri' \in Nat /\ at' \in Nat
           /\ pc' \in {"unit", "round4"}
           /\ pc' = "unit" => /\ ri' \in 1..Len(ReasoningRounds(Model'))
                              /\ at' \in 1..cfg'.repetitions
<1>1. cfg \in Configs /\ mi \in 1..Len(cfg.models)
  BY DEF TypeOK, LoopInv
<1>2. /\ ReasoningRounds(Model) \in Seq(1..3)
      /\ cfg.repetitions \in Nat /\ cfg.repetitions >= 1
  BY <1>1, PlanFacts DEF Model
<1>3. mi' = mi /\ Model' = Model
  BY DEF NextUnit, loop, Model
<1>4. ri \in 1..Len(ReasoningRounds(Model)) /\ at \in 1..cfg.repetitions
  BY DEF LoopInv
<1> QED
  BY <1>1, <1>2, <1>3, <1>4 DEF NextUnit, loop

\* So does leaving a model, for the next one or for the end of the campaign.
LEMMA NextModelLoop ==
    ASSUME TypeOK, mi \in 1..Len(cfg.models), NextModel, cfg' = cfg
    PROVE  /\ mi' \in Nat /\ ri' \in Nat /\ at' \in Nat
           /\ pc' \in {"unit", "round4", "finish", "collect"}
           /\ pc' \in {"unit", "round4"} => mi' \in 1..Len(cfg'.models)
           /\ pc' = "unit" => /\ ri' \in 1..Len(ReasoningRounds(Model'))
                              /\ at' \in 1..cfg'.repetitions
<1>0. cfg \in Configs /\ cfg.models \in Seq(ModelConfig)
  BY PlanFacts DEF TypeOK
<1>1. CASE mi < Len(cfg.models) /\ StartModel(cfg, mi + 1)
  <2>1. mi + 1 \in 1..Len(cfg.models)
    BY <1>0, <1>1
  <2> QED
    BY <1>0, <1>1, <2>1, StartModelLoop
<1>2. CASE mi >= Len(cfg.models) /\ pc' \in {"finish", "collect"} /\ UNCHANGED loop
  BY <1>2 DEF TypeOK, loop
<1> QED
  BY <1>1, <1>2 DEF NextModel

\* The current unit of the reasoning loops and its questions are well formed.
LEMMA UnitType ==
    ASSUME TypeOK, LoopInv, InReasoning
    PROVE  Round \in 1..3 /\ Unit \in Units /\ Qs \in Seq(Items)
<1>1. /\ cfg \in Configs /\ mi \in 1..Len(cfg.models)
      /\ ri \in 1..Len(ReasoningRounds(Model)) /\ at \in 1..cfg.repetitions
  BY DEF TypeOK, LoopInv
<1>2. /\ Model.key \in Keys /\ ReasoningRounds(Model) \in Seq(1..3)
      /\ \A r \in 1..3 : Questions(Model, r) \in Seq(Items)
      /\ cfg.repetitions \in Nat /\ cfg.repetitions <= MaxRepetitions
  BY <1>1, PlanFacts DEF Model
<1>3. Round \in 1..3
  BY <1>1, <1>2 DEF Round
<1>4. at \in Attempts
  BY <1>1, <1>2, ConfigAssumption DEF Attempts
<1> QED
  BY <1>2, <1>3, <1>4 DEF Unit, Units, Qs

\* Every step keeps every variable in its type and the loops in their ranges.
LEMMA TypeStep == TypeInv /\ [Next]_vars => TypeInv'
<1> SUFFICES ASSUME TypeOK, LoopInv, [Next]_vars
             PROVE  TypeOK' /\ LoopInv'
  BY DEF TypeInv
<1> USE DEF disk, proc, loop
<1>c. cfg \in Configs
  BY DEF TypeOK
<1>r. rows \in Seq(Row(Items))
  BY DEF TypeOK
<1>d. dashboard \in Dashboards
  BY DEF TypeOK, Dashboards
<1>x. r4 \in Memories
  BY DEF TypeOK, Memories
<1>f. faults \in 0..MaxFaults /\ (faults < MaxFaults => faults + 1 \in 0..MaxFaults)
  <2>1. faults \in 0..MaxFaults
    BY DEF TypeOK
  <2> QED
    BY <2>1, FaultType
<1>m. ASSUME mi \in 1..Len(cfg.models)
      PROVE  /\ Model.key \in Keys /\ ReasoningRounds(Model) \in Seq(1..3)
             /\ R4Tasks \in Seq(Tasks) /\ R4Tasks # <<>>
             /\ \A r \in 1..3 : Questions(Model, r) \in Seq(Items)
             /\ cfg.repetitions \in Nat /\ cfg.repetitions >= 1
             /\ cfg.repetitions <= MaxRepetitions
  BY <1>c, <1>m, PlanFacts DEF Model, R4Tasks
<1>u. InReasoning => Round \in 1..3 /\ Unit \in Units /\ Qs \in Seq(Items)
  BY UnitType
<1>e. ASSUME NEW how \in {"stopped", "success", "killed", "interrupted"},
             End(how), UNCHANGED <<snapshot, result, graded, run4>>,
             dashboard' \in Dashboards,
             faults' \in 0..MaxFaults
      PROVE  TypeOK' /\ LoopInv'
  <2>1. rows' \in Seq(Row(Items))
    BY <1>e DEF End
  <2>2. r4' \in Memories
    BY <1>e DEF End, EmptyR4, Memories
  <2> QED
    BY <1>e, <2>1, <2>2 DEF End, TypeOK, LoopInv, Dashboards, Memories
<1>1. ASSUME NEW c \in Configs, NEW cmd \in {"run", "dry-run"}, Invoke(c, cmd)
      PROVE  TypeOK' /\ LoopInv'
  <2>1. 1 \in 1..Len(c.models)
    BY PlanFacts
  <2>2. StartModel(c, 1) /\ cfg' = c
    BY <1>1 DEF Invoke
  <2>3. /\ mi' \in 1..Len(cfg'.models) /\ mi' \in Nat /\ ri' \in Nat /\ at' \in Nat
        /\ pc' \in {"unit", "round4"}
        /\ pc' = "unit" => /\ ri' \in 1..Len(ReasoningRounds(Model'))
                           /\ at' \in 1..cfg'.repetitions
    BY <2>1, <2>2, StartModelLoop
  <2>4. dashboard' \in Dashboards
    BY <1>1 DEF Invoke, FreshDashboard, Dashboards
  <2>5. TypeOK'
    BY <1>1, <2>3, <2>4 DEF Invoke, TypeOK, Dashboards
  <2>6. LoopInv'
    BY <1>1, <2>3 DEF Invoke, LoopInv
  <2> QED
    BY <2>5, <2>6
<1>2. ASSUME NEW c \in Configs, Refuse(c)
      PROVE  TypeOK' /\ LoopInv'
  BY <1>2 DEF Refuse, TypeOK, LoopInv, Model, R4Tasks
<1>3. CASE InvokeReport
  BY <1>3, SentinelAssumption DEF InvokeReport, TypeOK, LoopInv
<1>4. CASE SkipUnit
  <2>1. result[Unit] \in Payload
    BY <1>4, <1>u DEF SkipUnit, TypeOK, Finished
  <2>2. result[Unit].planned \in Nat
    BY <2>1 DEF Payload
  <2>3. dashboard' \in Dashboards
    BY <1>4, <2>2, <1>d, DashboardType DEF SkipUnit, Statuses
  <2>4. NextUnit /\ cfg' = cfg /\ InReasoning
    BY <1>4 DEF SkipUnit
  <2> QED
    BY <1>4, <2>3, <2>4, NextUnitLoop DEF SkipUnit, TypeOK, LoopInv, Dashboards
<1>5. CASE StartUnit
  <2>1. CASE command = "dry-run" /\ NextUnit
    BY <1>5, <2>1, NextUnitLoop DEF StartUnit, TypeOK, LoopInv
  <2>2. CASE pc' = "ask" /\ UNCHANGED loop
    BY <1>5, <2>2 DEF StartUnit, TypeOK, LoopInv, Model
  <2> QED
    BY <1>5, <2>1, <2>2 DEF StartUnit
<1>6. ASSUME NEW resp \in Responses, Ask(resp)
      PROVE  TypeOK' /\ LoopInv'
  <2> DEFINE q   == Qs[Len(rows) + 1]
             row == IF Round = 3 THEN Row3(q, q \in MultiTurn, resp) ELSE Row12(q, resp)
             st  == IF Round = 3 THEN mark3(row) ELSE row.status
  <2>1. rows \in Seq(Row(Items)) /\ Len(rows) \in Nat
    BY <1>r
  <2>2. q \in Items
    BY <1>6, <1>u, <2>1 DEF Ask
  <2>3. row \in Row(Items) /\ st \in Statuses
    <3> HIDE DEF q
    <3>1. (q \in MultiTurn) \in BOOLEAN
      OBVIOUS
    <3>2. /\ Row12(q, resp) \in Row(Items) /\ Row12(q, resp).status \in Statuses
          /\ Row3(q, q \in MultiTurn, resp) \in Row(Items)
          /\ mark3(Row3(q, q \in MultiTurn, resp)) \in Statuses
      BY <2>2, <3>1, RowType
    <3> QED
      BY <3>2
  <2>4. rows' \in Seq(Row(Items))
    BY <1>6, <2>1, <2>3 DEF Ask
  <2>5. dashboard' = record(dashboard, st)
    BY <1>6 DEF Ask
  <2> HIDE DEF q, row, st
  <2>6. dashboard' \in Dashboards
    BY <2>3, <2>5, <1>d, DashboardType
  <2>7. faults' \in 0..MaxFaults
    BY <1>6, <1>f DEF Ask, Respond
  <2> QED
    BY <1>6, <2>4, <2>6, <2>7 DEF Ask, TypeOK, LoopInv, Model, Dashboards
<1>7. CASE SaveResult
  <2>1. rows \in Seq(Row(Items))
    BY DEF TypeOK
  <2>2. result' \in [Units -> Payload \cup {Missing}]
    BY <1>7, <2>1, PayloadType DEF SaveResult, TypeOK
  <2>3. NextUnit /\ cfg' = cfg /\ InReasoning
    BY <1>7 DEF SaveResult
  <2>4. rows' = <<>> /\ <<>> \in Seq(Row(Items))
    BY <1>7 DEF SaveResult
  <2> QED
    BY <1>7, <2>2, <2>3, <2>4, NextUnitLoop DEF SaveResult, TypeOK, LoopInv
<1>8. CASE SkipRound4
  <2>1. mi \in 1..Len(cfg.models) /\ NextModel /\ cfg' = cfg
    BY <1>8 DEF SkipRound4, LoopInv
  <2>2. dashboard' \in Dashboards
    <3>1. CASE dashboard' = dashboard
      BY <3>1, <1>d
    <3>2. CASE Finished4(run4[Model.key])
                /\ dashboard' = skip(dashboard, run4[Model.key].attempts
                                                  * Len(run4[Model.key].tasks))
      <4>1. run4[Model.key] \in Payload4
        BY <1>m, <2>1, <3>2 DEF TypeOK, Finished4
      <4>2. run4[Model.key].attempts \in Nat /\ run4[Model.key].tasks \in Seq(Tasks)
        BY <4>1, ConfigAssumption, SMTT(40) DEF Payload4, Attempts
      <4>3. run4[Model.key].attempts * Len(run4[Model.key].tasks) \in Nat
        BY <4>2
      <4> QED
        BY <3>2, <4>3, <1>d, DashboardType DEF Statuses
    <3> QED
      BY <1>8, <3>1, <3>2 DEF SkipRound4
  <2> QED
    BY <1>8, <2>1, <2>2, NextModelLoop DEF SkipRound4, TypeOK, LoopInv, Dashboards
<1>9. CASE RejectRound4
  BY <1>9, <1>d, <1>f, <1>e DEF RejectRound4
<1>10. CASE StartRound4
  <2>1. mi \in 1..Len(cfg.models)
    BY <1>10 DEF StartRound4, LoopInv
  <2>2. mi' = mi /\ cfg' = cfg /\ ri' = 1 /\ at' = 1 /\ R4Tasks' = R4Tasks
    BY <1>10 DEF StartRound4, R4Tasks, Model
  <2>3. 1 \in 1..Len(R4Tasks) /\ 1 \in 1..cfg.repetitions
    BY <2>1, <1>m
  <2> QED
    BY <1>10, <2>1, <2>2, <2>3 DEF StartRound4, TypeOK, LoopInv
<1>11. CASE FailPreflight
  <2>1. faults' \in 0..MaxFaults
    BY <1>11, <1>f DEF FailPreflight
  <2> QED
    BY <1>11, <2>1, <1>d, <1>e DEF FailPreflight
<1>12. ASSUME NEW how \in {"pass", "fail", "timeout", "error"}, Attempt(how)
       PROVE  TypeOK' /\ LoopInv'
  <2> DEFINE task == R4Tasks[ri]
  <2>1. /\ mi \in 1..Len(cfg.models) /\ ri \in 1..Len(R4Tasks)
        /\ at \in 1..cfg.repetitions
    BY <1>12 DEF Attempt, NextAttempt, LoopInv
  <2>2. task \in Tasks /\ at \in Attempts /\ Model.key \in Keys
    BY <2>1, <1>m, ConfigAssumption, SMTT(40) DEF Attempts
  <2>3. faults' \in 0..MaxFaults
    BY <1>12, <1>f DEF Attempt, NextAttempt
  <2>4. /\ r4' \in Memories
        /\ graded' \subseteq Keys \X Tasks \X Attempts
        /\ dashboard' \in Dashboards
    <3>1. CASE how \in {"pass", "fail"}
      <4>0. [task |-> task, attempt |-> at, error |-> "error"] \in Error
        BY <2>2 DEF Error
      <4>1. [task |-> task, attempt |-> at, attempt_pass |-> how = "pass",
             model_timed_out |-> FALSE] \in Grade
        BY <2>2 DEF Grade
      <4>2. r4' \in Memories
        BY <1>12, <3>1, <4>1, <4>0, <1>x, MemoryType DEF Attempt, NextAttempt
      <4>3. graded' \subseteq Keys \X Tasks \X Attempts
        BY <1>12, <3>1, <2>2, SMTT(40) DEF Attempt, NextAttempt, TypeOK
      <4>4. dashboard' \in Dashboards
        BY <1>12, <3>1, <1>d, DashboardType DEF Attempt, NextAttempt, Statuses
      <4> QED
        BY <4>2, <4>3, <4>4
    <3>2. CASE how \in {"timeout", "error"}
      <4>0. [task |-> task, attempt |-> at, attempt_pass |-> FALSE,
             model_timed_out |-> FALSE] \in Grade
        BY <2>2 DEF Grade
      <4>1. [task |-> task, attempt |-> at, error |-> how] \in Error
        BY <2>2, <3>2 DEF Error
      <4>2. r4' \in Memories
        BY <1>12, <3>2, <4>1, <4>0, <1>x, MemoryType DEF Attempt, NextAttempt
      <4>3. graded' \subseteq Keys \X Tasks \X Attempts
        BY <1>12, <3>2 DEF Attempt, NextAttempt, TypeOK
      <4>4. dashboard' \in Dashboards
        BY <1>12, <3>2, <1>d, DashboardType DEF Attempt, NextAttempt, Statuses
      <4> QED
        BY <4>2, <4>3, <4>4
    <3> QED
      BY <3>1, <3>2
  <2>5. /\ mi' = mi /\ cfg' = cfg /\ R4Tasks' = R4Tasks /\ pc' \in {"attempt", "run.json"}
        /\ ri' \in Nat /\ at' \in Nat
        /\ pc' = "attempt" => ri' \in 1..Len(R4Tasks) /\ at' \in 1..cfg.repetitions
    <3>1. R4Tasks \in Seq(Tasks) /\ cfg.repetitions \in Nat /\ cfg.repetitions >= 1
      BY <2>1, <1>m
    <3>2. mi' = mi /\ cfg' = cfg /\ R4Tasks' = R4Tasks
      BY <1>12 DEF Attempt, NextAttempt, R4Tasks, Model
    <3> QED
      BY <1>12, <2>1, <3>1, <3>2 DEF Attempt, NextAttempt
  <2> HIDE DEF task
  <2>6. TypeOK'
    BY <1>12, <2>3, <2>4, <2>5 DEF Attempt, NextAttempt, TypeOK, Dashboards, Memories
  <2>7. LoopInv'
    BY <1>12, <2>1, <2>5 DEF Attempt, NextAttempt, LoopInv
  <2> QED
    BY <2>6, <2>7
<1>13. CASE OpenRunJson
  BY <1>13 DEF OpenRunJson, TypeOK, LoopInv
<1>14. CASE DumpRunJson
  <2>1. mi \in 1..Len(cfg.models)
    BY <1>14 DEF DumpRunJson, LoopInv
  <2>2. [tasks |-> R4Tasks, attempts |-> cfg.repetitions,
         grades |-> r4.grades, errors |-> r4.errors] \in Payload4
    <3>1. cfg.repetitions \in Attempts
      BY <2>1, <1>m, ConfigAssumption DEF Attempts
    <3>2. r4.grades \in Seq(Grade) /\ r4.errors \in Seq(Error)
      BY <1>x DEF Memories
    <3> QED
      BY <2>1, <1>m, <3>1, <3>2 DEF Payload4
  <2>3. run4' \in [Keys -> Payload4 \cup {Missing, Torn}]
    BY <1>14, <2>2 DEF DumpRunJson, TypeOK
  <2>4. CASE End("stopped")
    <3>1. rows' \in Seq(Row(Items)) /\ r4' \in Memories
      BY <2>4 DEF End, EmptyR4, Memories
    <3> QED
      BY <1>14, <2>3, <2>4, <3>1 DEF DumpRunJson, End, TypeOK, LoopInv, Memories
  <2>5. CASE NextModel /\ r4' = EmptyR4 /\ UNCHANGED <<command, cfg, rows, outcome>>
    <3>1. r4' \in Memories
      BY <2>5 DEF EmptyR4, Memories
    <3>2. rows = <<>>
      BY <1>14 DEF DumpRunJson, LoopInv
    <3>3. /\ mi' \in Nat /\ ri' \in Nat /\ at' \in Nat
          /\ pc' \in {"unit", "round4", "finish", "collect"}
          /\ pc' \in {"unit", "round4"} => mi' \in 1..Len(cfg'.models)
          /\ pc' = "unit" => /\ ri' \in 1..Len(ReasoningRounds(Model'))
                             /\ at' \in 1..cfg'.repetitions
      BY <2>1, <2>5, NextModelLoop
    <3> QED
      BY <1>14, <2>3, <2>5, <3>1, <3>2, <3>3 DEF DumpRunJson, TypeOK, LoopInv, Memories
  <2> QED
    BY <1>14, <2>4, <2>5 DEF DumpRunJson
<1>15. CASE SaveSummary
  BY <1>15 DEF SaveSummary, TypeOK, LoopInv
<1>16. CASE RejectCollect
  BY <1>16, <1>d, <1>f, <1>e DEF RejectCollect
<1>17. CASE OpenReport
  BY <1>17 DEF OpenReport, TypeOK, LoopInv
<1>18. CASE WriteReport
  BY <1>18 DEF WriteReport, TypeOK, LoopInv
<1>19. CASE Finish
  <2>1. CampaignUnits(cfg) \in Nat
    BY <1>c, PlanSize
  <2>2. dashboard' \in Dashboards
    BY <1>19, <2>1, <1>d DEF Finish, complete_plan, Dashboards
  <2> QED
    BY <1>19, <2>2, <1>f, <1>e DEF Finish
<1>20. ASSUME NEW how \in {"killed", "interrupted"}, Kill(how)
       PROVE  TypeOK' /\ LoopInv'
  <2>1. faults' \in 0..MaxFaults
    BY <1>20, <1>f DEF Kill
  <2> QED
    BY <1>20, <2>1, <1>d, <1>e DEF Kill
<1>21. CASE UNCHANGED vars
  BY <1>21, ZenonT(60) DEF vars, TypeOK, LoopInv, Model, R4Tasks
<1> QED
  BY <1>1, <1>2, <1>3, <1>4, <1>5, <1>6, <1>7, <1>8, <1>9, <1>10, <1>11, <1>12,
     <1>13, <1>14, <1>15, <1>16, <1>17, <1>18, <1>19, <1>20, <1>21
  DEF Next, Step

\* The empty directory of the first run.
LEMMA TypeAtInit == Init => TypeInv
<1> SUFFICES ASSUME Init PROVE TypeOK /\ LoopInv
  BY DEF TypeInv
<1>1. EmptyR4 \in Memories
  BY DEF EmptyR4, Memories
<1>2. FreshDashboard \in Dashboards
  BY DEF FreshDashboard, Dashboards
<1>3. 0 \in 0..MaxFaults
  BY ConfigAssumption
<1> QED
  BY <1>1, <1>2, <1>3 DEF Init, TypeOK, LoopInv, Dashboards, Memories

\* The inductive form of type correctness.
LEMMA TypeInvariant == Spec => []TypeInv
BY TypeAtInit, TypeStep, PTL DEF Spec

\* The variables of a campaign always have their types: no result.json is ever
\* found torn, whatever is killed and whenever, and every saved row and grade is
\* well formed.  Wherever a loop of _execute, of a runner or of v4_runner.main uses
\* its index, the index is one of its list (LoopInv).
THEOREM Typing == Spec => [](TypeOK /\ LoopInv)
<1>1. TypeInv => TypeOK /\ LoopInv
  BY DEF TypeInv
<1> QED
  BY <1>1, TypeInvariant, PTL

-----------------------------------------------------------------------------
(***************************************************************************)
(* Resume.  The work in progress is never finished work: the decision to   *)
(* run a unit was made from the file on disk, and until the unit is saved  *)
(* nothing can have finished it.  That, with the exclusion of the writing  *)
(* program points from dry runs, is what makes the two action properties   *)
(* inductive.                                                              *)
(***************************************************************************)
WorkInv ==
    /\ pc = "ask" => ~Finished(result[Unit])
    /\ InRound4 => ~Finished4(run4[Model.key])
    /\ command = "dry-run" => pc \in {"idle", "unit", "round4", "finish"}

\* Every step keeps the work in progress unfinished.
LEMMA WorkStep == TypeInv /\ WorkInv /\ [Next]_vars => WorkInv'
<1> SUFFICES ASSUME TypeInv, WorkInv, [Next]_vars PROVE WorkInv'
  OBVIOUS
<1> USE DEF disk, proc, loop
<1>k. InRound4 => Model.key \in Keys
  BY PlanFacts DEF TypeInv, TypeOK, LoopInv, Model
<1>1. ASSUME NEW c \in Configs, NEW cmd \in {"run", "dry-run"}, Invoke(c, cmd)
      PROVE  WorkInv'
  BY <1>1 DEF Invoke, StartModel, WorkInv
<1>2. ASSUME NEW c \in Configs, Refuse(c)
      PROVE  WorkInv'
  BY <1>2 DEF Refuse, WorkInv
<1>3. CASE InvokeReport
  BY <1>3 DEF InvokeReport, WorkInv
<1>4. CASE SkipUnit
  BY <1>4 DEF SkipUnit, NextUnit, WorkInv
<1>5. CASE StartUnit
  <2>1. CASE command = "dry-run" /\ NextUnit
    BY <1>5, <2>1 DEF StartUnit, NextUnit, WorkInv
  <2>2. CASE command = "run" /\ pc' = "ask" /\ UNCHANGED loop
    <3>1. Unit' = Unit /\ result' = result /\ command' = command
      BY <1>5, <2>2 DEF StartUnit, Unit, Round, Model
    <3> QED
      BY <1>5, <2>2, <3>1 DEF StartUnit, WorkInv
  <2> QED
    BY <1>5, <2>1, <2>2 DEF StartUnit
<1>6. ASSUME NEW resp \in Responses, Ask(resp)
      PROVE  WorkInv'
  <2>1. Unit' = Unit /\ result' = result
    BY <1>6 DEF Ask, Unit, Round, Model
  <2> QED
    BY <1>6, <2>1 DEF Ask, WorkInv
<1>7. CASE SaveResult
  BY <1>7 DEF SaveResult, NextUnit, WorkInv
<1>8. CASE SkipRound4
  BY <1>8 DEF SkipRound4, NextModel, StartModel, WorkInv
<1>9. CASE RejectRound4
  BY <1>9 DEF RejectRound4, End, WorkInv
<1>10. CASE StartRound4
  <2>1. Model' = Model /\ run4' = run4
    BY <1>10 DEF StartRound4, Model
  <2> QED
    BY <1>10, <2>1 DEF StartRound4, WorkInv
<1>11. CASE FailPreflight
  BY <1>11 DEF FailPreflight, End, WorkInv
<1>12. ASSUME NEW how \in {"pass", "fail", "timeout", "error"}, Attempt(how)
       PROVE  WorkInv'
  <2>1. Model' = Model /\ run4' = run4 /\ command' = command
    BY <1>12 DEF Attempt, NextAttempt, Model
  <2>2. pc = "attempt" /\ pc' \in {"attempt", "run.json"}
    BY <1>12 DEF Attempt, NextAttempt
  <2> QED
    BY <2>1, <2>2 DEF WorkInv
<1>13. CASE OpenRunJson
  <2>1. Model' = Model /\ command' = command
    BY <1>13 DEF OpenRunJson, Model
  <2>2. run4'[Model.key] = Torn
    BY <1>13, <1>k DEF OpenRunJson, TypeInv, TypeOK
  <2> QED
    BY <1>13, <2>1, <2>2 DEF OpenRunJson, WorkInv, Finished4
<1>14. CASE DumpRunJson
  BY <1>14 DEF DumpRunJson, End, NextModel, StartModel, WorkInv
<1>15. CASE SaveSummary
  BY <1>15 DEF SaveSummary, WorkInv
<1>16. CASE RejectCollect
  BY <1>16 DEF RejectCollect, End, WorkInv
<1>17. CASE OpenReport
  BY <1>17 DEF OpenReport, WorkInv
<1>18. CASE WriteReport
  BY <1>18 DEF WriteReport, WorkInv
<1>19. CASE Finish
  BY <1>19 DEF Finish, End, WorkInv
<1>20. ASSUME NEW how \in {"killed", "interrupted"}, Kill(how)
       PROVE  WorkInv'
  BY <1>20 DEF Kill, End, WorkInv
<1>21. CASE UNCHANGED vars
  <2>1. Unit' = Unit /\ Model' = Model
    BY <1>21 DEF vars, Unit, Round, Model
  <2> QED
    BY <1>21, <2>1 DEF vars, WorkInv
<1> QED
  BY <1>1, <1>2, <1>3, <1>4, <1>5, <1>6, <1>7, <1>8, <1>9, <1>10, <1>11, <1>12,
     <1>13, <1>14, <1>15, <1>16, <1>17, <1>18, <1>19, <1>20, <1>21
  DEF Next, Step

\* The work in progress of any process is unfinished work, always.
LEMMA WorkInvariant == Spec => []WorkInv
<1>1. Init => WorkInv
  BY DEF Init, WorkInv
<1> QED
  BY <1>1, WorkStep, TypeInvariant, PTL DEF Spec

\* Only SaveResult writes a result.json, and only of the current unit.
LEMMA ResultWrites ==
    ASSUME Next PROVE result' = result \/ SaveResult
<1> USE DEF disk
<1> QED
  BY DEF Next, Step, Invoke, Refuse, InvokeReport, SkipUnit, StartUnit, Ask, SkipRound4,
         RejectRound4, StartRound4, FailPreflight, Attempt, OpenRunJson, DumpRunJson,
         SaveSummary, RejectCollect, OpenReport, WriteReport, Finish, Kill

\* Only the two steps of the write of run.json change it.
LEMMA Run4Writes ==
    ASSUME Next PROVE run4' = run4 \/ OpenRunJson \/ DumpRunJson
<1> USE DEF disk
<1> QED
  BY DEF Next, Step, Invoke, Refuse, InvokeReport, SkipUnit, StartUnit, Ask, SkipRound4,
         RejectRound4, StartRound4, FailPreflight, Attempt, SaveResult,
         SaveSummary, RejectCollect, OpenReport, WriteReport, Finish, Kill

\* A result.json or run.json without retryable items is never written again, by
\* any later process, for every configuration and any number of kills: resuming
\* never repeats a finished unit.
THEOREM NoRewrite == Spec => FinishedNeverRewritten
<1> DEFINE A == /\ \A u \in Units : Finished(result[u]) => result'[u] = result[u]
                /\ \A m \in Keys : Finished4(run4[m]) => run4'[m] = run4[m]
<1>1. TypeInv /\ WorkInv /\ [Next]_vars => [A]_vars
  <2> SUFFICES ASSUME TypeInv, WorkInv, Next PROVE A
    OBVIOUS
  <2>1. ASSUME NEW u \in Units, Finished(result[u]) PROVE result'[u] = result[u]
    <3>1. CASE SaveResult
      <4>1. u # Unit
        BY <2>1, <3>1 DEF SaveResult, WorkInv
      <4> QED
        BY <2>1, <3>1, <4>1 DEF SaveResult, TypeInv, TypeOK
    <3> QED
      BY <3>1, ResultWrites
  <2>2. ASSUME NEW m \in Keys, Finished4(run4[m]) PROVE run4'[m] = run4[m]
    <3>1. CASE OpenRunJson
      <4>1. m # Model.key
        BY <2>2, <3>1 DEF OpenRunJson, WorkInv
      <4> QED
        BY <2>2, <3>1, <4>1 DEF OpenRunJson, TypeInv, TypeOK
    <3>2. CASE DumpRunJson
      <4>1. m # Model.key
        BY <2>2, <3>2 DEF DumpRunJson, WorkInv
      <4> QED
        BY <2>2, <3>2, <4>1 DEF DumpRunJson, TypeInv, TypeOK
    <3> QED
      BY <3>1, <3>2, Run4Writes
  <2> QED
    BY <2>1, <2>2
<1> QED
  BY <1>1, TypeInvariant, WorkInvariant, PTL DEF Spec, FinishedNeverRewritten

\* A dry run, its start included, changes nothing in the run directory but a
\* config.json that was not there.
THEOREM DryRunIsInert == Spec => DryRunInert
<1> DEFINE A == command' = "dry-run" =>
                  /\ UNCHANGED <<result, graded, run4, summary, markdown>>
                  /\ snapshot' # snapshot =>
                       pc = "idle" /\ snapshot = Missing /\ snapshot' = cfg'
<1>1. WorkInv /\ [Next]_vars => [A]_vars
  <2> SUFFICES ASSUME WorkInv, Next, command' = "dry-run" PROVE A
    OBVIOUS
  <2>1. ASSUME NEW c \in Configs, NEW cmd \in {"run", "dry-run"}, Invoke(c, cmd)
        PROVE  A
    BY <2>1 DEF Invoke
  <2>2. ASSUME NEW c \in Configs, Refuse(c) PROVE A
    BY <2>2 DEF Refuse, disk
  <2>3. CASE InvokeReport
    BY <2>3 DEF InvokeReport
  <2>4. CASE Step
    <3>1. pc # "idle" /\ command = "dry-run"
      BY <2>4 DEF Step, SkipUnit, StartUnit, Ask, SkipRound4, RejectRound4, StartRound4,
           FailPreflight, Attempt, SaveResult, OpenRunJson, DumpRunJson, SaveSummary,
           RejectCollect, OpenReport, WriteReport, Finish, Kill, End, proc
    <3>2. pc \in {"unit", "round4", "finish"}
      BY <3>1 DEF WorkInv
    <3> QED
      BY <2>4, <3>1, <3>2 DEF Step, SkipUnit, StartUnit, Ask, SkipRound4, RejectRound4,
           StartRound4, FailPreflight, Attempt, SaveResult, OpenRunJson, DumpRunJson,
           SaveSummary, RejectCollect, OpenReport, WriteReport, Finish, Kill, disk
  <2>5. ASSUME NEW how \in {"killed", "interrupted"}, Kill(how) PROVE A
    BY <2>5 DEF Kill, disk
  <2> QED
    BY <2>1, <2>2, <2>3, <2>4, <2>5 DEF Next
<1> QED
  BY <1>1, WorkInvariant, PTL DEF Spec, DryRunInert

-----------------------------------------------------------------------------
(***************************************************************************)
(* Saved results.  A result.json is complete because the rows collected so *)
(* far are always those of a prefix of the selected questions, and it      *)
(* belongs to the saved configuration because a process only ever works    *)
(* under the configuration it found in, or put into, config.json.          *)
(***************************************************************************)
\* A process works under the configuration saved in config.json (orchestrator.run,
\* lines 384-390), so no directory mixes the evidence of two configurations.
OneConfig == pc # "idle" => snapshot = cfg

RowsInv ==
    pc = "ask" => /\ Len(rows) <= Len(Qs)
                  /\ \A i \in 1..Len(rows) : rows[i].id = Qs[i]

ResultsInv == OneConfig /\ RowsInv /\ ResultsComplete

\* A model is found again by its key: keys are unique in a valid configuration.
LEMMA ModelOfKey ==
    ASSUME NEW c \in Configs, NEW i \in 1..Len(c.models)
    PROVE  ModelOf(c, c.models[i].key) = c.models[i]
<1>1. \A j, k \in 1..Len(c.models) : c.models[j].key = c.models[k].key => j = k
  BY ConfigAssumption DEF ValidConfig
<1> DEFINE j == CHOOSE k \in 1..Len(c.models) : c.models[k].key = c.models[i].key
<1>2. j \in 1..Len(c.models) /\ c.models[j].key = c.models[i].key
  OBVIOUS
<1>3. j = i
  BY <1>1, <1>2
<1> QED
  BY <1>3 DEF ModelOf

\* Every step keeps the saved results complete.
LEMMA ResultsStep == TypeInv /\ ResultsInv /\ [Next]_vars => ResultsInv'
<1> SUFFICES ASSUME TypeInv, ResultsInv, [Next]_vars PROVE ResultsInv'
  OBVIOUS
<1> USE DEF disk, proc, loop
<1>q. ASSUME UNCHANGED <<snapshot, result>>
      PROVE  ResultsComplete'
  BY <1>q DEF ResultsInv, ResultsComplete
<1>e. ASSUME NEW how, End(how), UNCHANGED <<snapshot, result>>
      PROVE  ResultsInv'
  BY <1>e, <1>q DEF End, ResultsInv, OneConfig, RowsInv
<1>n. ASSUME UNCHANGED <<snapshot, result, cfg>>, pc # "idle", pc' # "ask"
      PROVE  ResultsInv'
  BY <1>n, <1>q DEF ResultsInv, OneConfig, RowsInv
<1>1. ASSUME NEW c \in Configs, NEW cmd \in {"run", "dry-run"}, Invoke(c, cmd)
      PROVE  ResultsInv'
  <2>1. /\ snapshot' = c /\ cfg' = c /\ result' = result /\ snapshot \in {Missing, c}
        /\ pc' # "ask"
    BY <1>1 DEF Invoke, StartModel
  <2>2. ResultsComplete'
    BY <2>1 DEF ResultsInv, ResultsComplete
  <2> QED
    BY <2>1, <2>2 DEF ResultsInv, OneConfig, RowsInv
<1>2. ASSUME NEW c \in Configs, Refuse(c)
      PROVE  ResultsInv'
  BY <1>2, <1>q DEF Refuse, ResultsInv, OneConfig, RowsInv
<1>3. CASE InvokeReport
  BY <1>3, <1>q DEF InvokeReport, ResultsInv, OneConfig, RowsInv
<1>4. CASE SkipUnit
  BY <1>4, <1>n DEF SkipUnit, NextUnit
<1>5. CASE StartUnit
  <2>1. CASE command = "dry-run" /\ NextUnit
    BY <1>5, <2>1, <1>n DEF StartUnit, NextUnit
  <2>2. CASE pc' = "ask" /\ UNCHANGED loop
    <3>1. rows' = <<>> /\ UNCHANGED <<snapshot, result, cfg>>
      BY <1>5, <2>2 DEF StartUnit, TypeInv, LoopInv
    <3>2. Qs' = Qs /\ Len(Qs) \in Nat
      <4>1. Qs' = Qs
        BY <1>5, <2>2 DEF StartUnit, Qs, Round, Model
      <4>2. Qs \in Seq(Items)
        BY <1>5, UnitType DEF StartUnit, TypeInv
      <4> QED
        BY <4>1, <4>2
    <3>3. RowsInv'
      BY <3>1, <3>2 DEF RowsInv
    <3> QED
      BY <1>5, <3>1, <3>3, <1>q DEF StartUnit, ResultsInv, OneConfig
  <2> QED
    BY <1>5, <2>1, <2>2 DEF StartUnit
<1>6. ASSUME NEW resp \in Responses, Ask(resp)
      PROVE  ResultsInv'
  <2> DEFINE q   == Qs[Len(rows) + 1]
             row == IF Round = 3 THEN Row3(q, q \in MultiTurn, resp) ELSE Row12(q, resp)
  <2>1. /\ pc = "ask" /\ pc' = "ask" /\ Len(rows) < Len(Qs) /\ rows' = Append(rows, row)
        /\ UNCHANGED <<snapshot, result, cfg, mi, ri, at>>
    BY <1>6 DEF Ask
  <2>2. Qs' = Qs
    BY <2>1 DEF Qs, Round, Model
  <2>3. row.id = q
    BY DEF Row3, Row12
  <2>4. rows \in Seq(Row(Items))
    BY DEF TypeInv, TypeOK
  <2>5. Qs \in Seq(Items)
    BY <2>1, UnitType DEF TypeInv
  <2>6. RowsInv'
    <3>1. \A i \in 1..Len(rows) : rows[i].id = Qs[i]
      BY <2>1 DEF ResultsInv, RowsInv
    <3> HIDE DEF row
    <3>2. /\ Len(rows') = Len(rows) + 1
          /\ \A i \in 1..Len(rows) : rows'[i] = rows[i]
          /\ rows'[Len(rows) + 1] = row
      BY <2>1, <2>4
    <3> QED
      BY <2>1, <2>2, <2>3, <2>4, <2>5, <3>1, <3>2 DEF RowsInv
  <2> QED
    BY <2>1, <2>6, <1>q DEF ResultsInv, OneConfig
<1>7. CASE SaveResult
  <2> DEFINE P == IF Round = 3 THEN Payload3(rows) ELSE Payload12(rows)
  <2>1. /\ pc = "ask" /\ Len(rows) = Len(Qs) /\ UNCHANGED <<snapshot, cfg>>
        /\ result' = [result EXCEPT ![Unit] = P] /\ pc' \in {"unit", "round4"}
    BY <1>7 DEF SaveResult, NextUnit
  <2>2. /\ cfg \in Configs /\ mi \in 1..Len(cfg.models)
        /\ ri \in 1..Len(ReasoningRounds(Model)) /\ at \in 1..cfg.repetitions
        /\ rows \in Seq(Row(Items)) /\ result \in [Units -> Payload \cup {Missing}]
    BY <2>1 DEF TypeInv, TypeOK, LoopInv
  <2>3. ReasoningRounds(Model) \in Seq(1..3)
    BY <2>2, PlanFacts DEF Model
  <2>4. Qs \in Seq(Items) /\ Round \in 1..3
    BY <2>1, UnitType DEF TypeInv
  <2>5. snapshot = cfg /\ \A i \in 1..Len(rows) : rows[i].id = Qs[i]
    BY <2>1 DEF ResultsInv, OneConfig, RowsInv
  <2>6. P.results = rows
    BY DEF Payload3, Payload12
  <2>7. Ids(rows) = Qs
    BY <2>1, <2>2, <2>4, <2>5 DEF Ids
  <2>8. ModelOf(cfg, Model.key) = Model
    BY <2>2, ModelOfKey DEF Model
  <2>9. Unit \in PlannedUnits(cfg)
    <3>1. Round \in Range(ReasoningRounds(Model))
      BY <2>2, <2>3 DEF Round, Range
    <3>2. Unit \in {cfg.models[mi].key} \X Range(ReasoningRounds(cfg.models[mi]))
                     \X (1..cfg.repetitions)
      BY <2>2, <3>1 DEF Unit, Model
    <3> QED
      BY <2>2, <3>2 DEF PlannedUnits
  <2>10. ResultsComplete'
    <3> SUFFICES ASSUME NEW u \in Units, result'[u] # Missing
                 PROVE  /\ snapshot' # Missing
                        /\ u \in PlannedUnits(snapshot')
                        /\ Ids(result'[u].results)
                             = Questions(ModelOf(snapshot', u[1]), u[2])
      BY DEF ResultsComplete
    <3>1. CASE u = Unit
      <4>1. result'[u] = P
        BY <2>1, <2>2, <3>1
      <4>2. u[1] = Model.key /\ u[2] = Round
        BY <3>1 DEF Unit
      <4> QED
        BY <2>1, <2>2, <2>5, <2>6, <2>7, <2>8, <2>9, <3>1, <4>1, <4>2,
           SentinelAssumption DEF Qs
    <3>2. CASE u # Unit
      <4>1. result'[u] = result[u]
        BY <2>1, <2>2, <3>2
      <4> QED
        BY <2>1, <4>1 DEF ResultsInv, ResultsComplete
    <3> QED
      BY <3>1, <3>2
  <2> QED
    BY <2>1, <2>5, <2>10 DEF ResultsInv, OneConfig, RowsInv
<1>8. CASE SkipRound4
  BY <1>8, <1>n DEF SkipRound4, NextModel, StartModel
<1>9. CASE RejectRound4
  BY <1>9, <1>e DEF RejectRound4
<1>10. CASE StartRound4
  BY <1>10, <1>n DEF StartRound4
<1>11. CASE FailPreflight
  BY <1>11, <1>e DEF FailPreflight
<1>12. ASSUME NEW how \in {"pass", "fail", "timeout", "error"}, Attempt(how)
       PROVE  ResultsInv'
  <2>1. UNCHANGED <<snapshot, result, cfg>> /\ pc = "attempt" /\ pc' # "ask"
    BY <1>12 DEF Attempt, NextAttempt
  <2> QED
    BY <2>1, <1>n
<1>13. CASE OpenRunJson
  BY <1>13, <1>n DEF OpenRunJson
<1>14. CASE DumpRunJson
  <2>1. UNCHANGED <<snapshot, result, cfg>> /\ pc = "dump" /\ pc' # "ask"
    BY <1>14 DEF DumpRunJson, End, NextModel, StartModel
  <2> QED
    BY <2>1, <1>n
<1>15. CASE SaveSummary
  BY <1>15, <1>n DEF SaveSummary
<1>16. CASE RejectCollect
  BY <1>16, <1>e DEF RejectCollect
<1>17. CASE OpenReport
  BY <1>17, <1>n DEF OpenReport
<1>18. CASE WriteReport
  BY <1>18, <1>n DEF WriteReport
<1>19. CASE Finish
  BY <1>19, <1>e DEF Finish
<1>20. ASSUME NEW how \in {"killed", "interrupted"}, Kill(how)
       PROVE  ResultsInv'
  BY <1>20, <1>e DEF Kill
<1>21. CASE UNCHANGED vars
  <2>1. Qs' = Qs
    BY <1>21 DEF vars, Qs, Round, Model
  <2> QED
    BY <1>21, <2>1, <1>q DEF vars, ResultsInv, OneConfig, RowsInv
<1> QED
  BY <1>1, <1>2, <1>3, <1>4, <1>5, <1>6, <1>7, <1>8, <1>9, <1>10, <1>11, <1>12,
     <1>13, <1>14, <1>15, <1>16, <1>17, <1>18, <1>19, <1>20, <1>21
  DEF Next, Step

\* Whatever was killed, resumed or refused, every result.json in the directory
\* is a whole attempt at a unit of the saved configuration.
THEOREM SavedResultsComplete == Spec => []ResultsComplete
<1>1. Init => ResultsInv
  BY DEF Init, ResultsInv, OneConfig, RowsInv, ResultsComplete
<1>2. ResultsInv => ResultsComplete
  BY DEF ResultsInv
<1> QED
  BY <1>1, <1>2, ResultsStep, TypeInvariant, PTL DEF Spec

-----------------------------------------------------------------------------
(***************************************************************************)
(* The report.  Between the collection of the evidence and the end of the  *)
(* command no step writes evidence, so what was collected is still what is *)
(* in the directory when success is announced.                             *)
(***************************************************************************)
Collected == summary = collect(result, run4, ConfigKeys(cfg))

ReportInv ==
    /\ pc # "idle" => outcome = "running"
    /\ pc \in {"open report", "write report"} => Collected
    /\ pc = "finish" /\ command # "dry-run" => Collected /\ markdown = summary
    /\ outcome = "success" /\ command # "dry-run" => Collected /\ markdown = summary

\* Every step keeps a finished report equal to the evidence.
LEMMA ReportStep == ReportInv /\ [Next]_vars => ReportInv'
<1> SUFFICES ASSUME ReportInv, [Next]_vars PROVE ReportInv'
  OBVIOUS
<1> USE DEF disk, proc, loop
<1>e. ASSUME NEW how, how \notin {"success", "running"}, End(how)
      PROVE  ReportInv'
  BY <1>e DEF End, ReportInv
<1>n. ASSUME pc' \in {"unit", "ask", "round4", "attempt", "run.json", "dump", "collect"},
             outcome' = "running"
      PROVE  ReportInv'
  BY <1>n DEF ReportInv
<1>k. UNCHANGED <<summary, result, run4, cfg>> /\ Collected => Collected'
  BY DEF Collected
<1>1. ASSUME NEW c \in Configs, NEW cmd \in {"run", "dry-run"}, Invoke(c, cmd)
      PROVE  ReportInv'
  BY <1>1, <1>n DEF Invoke, StartModel
<1>2. ASSUME NEW c \in Configs, Refuse(c)
      PROVE  ReportInv'
  BY <1>2 DEF Refuse, ReportInv
<1>3. CASE InvokeReport
  BY <1>3, <1>n DEF InvokeReport
<1>4. CASE SkipUnit
  BY <1>4, <1>n DEF SkipUnit, NextUnit, ReportInv
<1>5. CASE StartUnit
  BY <1>5, <1>n DEF StartUnit, NextUnit, ReportInv
<1>6. ASSUME NEW resp \in Responses, Ask(resp)
      PROVE  ReportInv'
  BY <1>6, <1>n DEF Ask, ReportInv
<1>7. CASE SaveResult
  BY <1>7, <1>n DEF SaveResult, NextUnit, ReportInv
<1>8. CASE SkipRound4
  <2>1. CASE pc' = "finish"
    BY <1>8, <2>1 DEF SkipRound4, NextModel, StartModel, ReportInv
  <2>2. CASE pc' # "finish"
    BY <1>8, <2>2, <1>n DEF SkipRound4, NextModel, StartModel, ReportInv
  <2> QED
    BY <2>1, <2>2
<1>9. CASE RejectRound4
  BY <1>9, <1>e DEF RejectRound4
<1>10. CASE StartRound4
  BY <1>10, <1>n DEF StartRound4, ReportInv
<1>11. CASE FailPreflight
  BY <1>11, <1>e DEF FailPreflight
<1>12. ASSUME NEW how \in {"pass", "fail", "timeout", "error"}, Attempt(how)
       PROVE  ReportInv'
  <2>1. pc' \in {"attempt", "run.json"} /\ outcome' = "running"
    BY <1>12 DEF Attempt, NextAttempt, ReportInv
  <2> QED
    BY <2>1, <1>n
<1>13. CASE OpenRunJson
  BY <1>13, <1>n DEF OpenRunJson, ReportInv
<1>14. CASE DumpRunJson
  <2>1. CASE End("stopped")
    BY <2>1, <1>e
  <2>2. CASE NextModel /\ UNCHANGED <<command, cfg, rows, outcome>>
    <3>1. CASE pc' = "finish"
      BY <1>14, <2>2, <3>1 DEF DumpRunJson, NextModel, StartModel, ReportInv
    <3>2. CASE pc' # "finish"
      BY <1>14, <2>2, <3>2, <1>n DEF DumpRunJson, NextModel, StartModel, ReportInv
    <3> QED
      BY <3>1, <3>2
  <2> QED
    BY <1>14, <2>1, <2>2 DEF DumpRunJson
<1>15. CASE SaveSummary
  BY <1>15 DEF SaveSummary, ReportInv, Collected
<1>16. CASE RejectCollect
  BY <1>16, <1>e DEF RejectCollect
<1>17. CASE OpenReport
  BY <1>17, <1>k DEF OpenReport, ReportInv
<1>18. CASE WriteReport
  BY <1>18, <1>k DEF WriteReport, ReportInv
<1>19. CASE Finish
  BY <1>19, <1>k DEF Finish, End, ReportInv
<1>20. ASSUME NEW how \in {"killed", "interrupted"}, Kill(how)
       PROVE  ReportInv'
  BY <1>20, <1>e DEF Kill
<1>21. CASE UNCHANGED vars
  BY <1>21, <1>k DEF vars, ReportInv
<1> QED
  BY <1>1, <1>2, <1>3, <1>4, <1>5, <1>6, <1>7, <1>8, <1>9, <1>10, <1>11, <1>12,
     <1>13, <1>14, <1>15, <1>16, <1>17, <1>18, <1>19, <1>20, <1>21
  DEF Next, Step

\* A command that reports success leaves a summary and a report of exactly the
\* evidence in the directory.
THEOREM ReportCurrent == Spec => []ReportIsCurrent
<1>1. Init => ReportInv
  BY DEF Init, ReportInv
<1>2. ReportInv => ReportIsCurrent
  BY DEF ReportInv, ReportIsCurrent, Collected
<1> QED
  BY <1>1, <1>2, ReportStep, PTL DEF Spec

-----------------------------------------------------------------------------
(***************************************************************************)
(* Replay and resume.  _execute decides from the two counters of a saved   *)
(* result.json, inspection from the rows.  The counters are those of the   *)
(* rows because both are written at once; that a row counted as an error   *)
(* is read as INVALID again needs, in round 3, that its rows carry no      *)
(* status of their own, from the first question on.  The same facts about  *)
(* rows make the saved score the number of rows that are read as PASS.     *)
(***************************************************************************)
SoundRow(r, row) ==
    IF r = 3 THEN /\ row.status = NoStatus
                  /\ row.correct = "yes" => row.valid
                  /\ row.review => row.correct = "none"
    ELSE row.status # NoStatus /\ (row.status = "PASS" <=> row.correct = "yes")

SoundRows(r, rs) == \A i \in 1..Len(rs) : SoundRow(r, rs[i])

AskedInv == pc = "ask" => SoundRows(Round, rows)

PayloadOf(r, rs) == IF r = 3 THEN Payload3(rs) ELSE Payload12(rs)

CountersInv ==
    \A u \in Units : result[u] # Missing =>
        /\ result[u] = PayloadOf(u[2], result[u].results)
        /\ SoundRows(u[2], result[u].results)

RetryInv == AskedInv /\ CountersInv

\* Questions are asked only after StartUnit and other questions.
LEMMA AskWrites ==
    ASSUME Next, pc' = "ask"
    PROVE  (StartUnit /\ UNCHANGED loop) \/ \E resp \in Responses : Ask(resp)
<1> USE DEF disk
<1> QED
  BY DEF Next, Step, Invoke, StartModel, Refuse, InvokeReport, SkipUnit, NextUnit, StartUnit,
         SkipRound4, RejectRound4, StartRound4, FailPreflight, Attempt, NextAttempt, SaveResult,
         OpenRunJson, DumpRunJson, NextModel, SaveSummary, RejectCollect, OpenReport, WriteReport,
         Finish, Kill, End

\* Every step keeps the counters of the saved results those of their rows.
LEMMA RetryStep == TypeInv /\ RetryInv /\ [Next]_vars => RetryInv'
<1> SUFFICES ASSUME TypeInv, RetryInv, [Next]_vars PROVE RetryInv'
  OBVIOUS
<1> USE DEF disk, proc, loop
<1>1. AskedInv'
  <2> SUFFICES ASSUME pc' = "ask" PROVE SoundRows(Round', rows')
    BY DEF AskedInv
  <2>1. CASE StartUnit /\ UNCHANGED loop
    <3>1. pc # "ask" /\ rows' = rows
      BY <2>1 DEF StartUnit
    <3>2. rows' = <<>>
      BY <3>1 DEF TypeInv, LoopInv
    <3> QED
      BY <3>2 DEF SoundRows
  <2>2. ASSUME NEW resp \in Responses, Ask(resp) PROVE SoundRows(Round', rows')
    <3> DEFINE q   == Qs[Len(rows) + 1]
               row == IF Round = 3 THEN Row3(q, q \in MultiTurn, resp) ELSE Row12(q, resp)
    <3>1. Round' = Round /\ pc = "ask"
      BY <2>2 DEF Ask, Round, Model
    <3>2. SoundRows(Round, rows) /\ rows \in Seq(Row(Items))
      BY <3>1 DEF RetryInv, AskedInv, TypeInv, TypeOK
    <3>3. rows' = Append(rows, row)
      BY <2>2 DEF Ask
    <3>4. SoundRow(Round, row)
      <4>1. SoundRow(3, Row3(q, q \in MultiTurn, resp))
        BY DEF SoundRow, Row3
      <4>2. ASSUME Round # 3 PROVE SoundRow(Round, Row12(q, resp))
        BY <4>2 DEF SoundRow, Row12, Graded, NoStatus
      <4> QED
        BY <4>1, <4>2
    <3> HIDE DEF row
    <3> QED
      BY <3>1, <3>2, <3>3, <3>4 DEF SoundRows
  <2>3. CASE UNCHANGED vars
    BY <2>3 DEF vars, RetryInv, AskedInv, Round, Model, SoundRows
  <2> QED
    BY <2>1, <2>2, <2>3, AskWrites
<1>2. CountersInv'
  <2>1. CASE result' = result
    BY <2>1 DEF RetryInv, CountersInv
  <2>2. CASE SaveResult
    <3>1. pc = "ask" /\ Unit \in Units /\ Unit[2] = Round
      BY <2>2, UnitType DEF SaveResult, TypeInv, Unit
    <3> SUFFICES ASSUME NEW u \in Units, result'[u] # Missing
                 PROVE  /\ result'[u] = PayloadOf(u[2], result'[u].results)
                        /\ SoundRows(u[2], result'[u].results)
      BY DEF CountersInv
    <3>2. CASE u # Unit
      <4>1. result'[u] = result[u]
        BY <2>2, <3>2 DEF SaveResult, TypeInv, TypeOK
      <4> QED
        BY <4>1 DEF RetryInv, CountersInv
    <3>3. CASE u = Unit
      <4>1. result'[u] = IF Round = 3 THEN Payload3(rows) ELSE Payload12(rows)
        BY <2>2, <3>3 DEF SaveResult, TypeInv, TypeOK
      <4>2. Payload3(rows).results = rows /\ Payload12(rows).results = rows
        BY DEF Payload3, Payload12
      <4> QED
        BY <3>1, <3>3, <4>1, <4>2 DEF RetryInv, AskedInv, PayloadOf
    <3> QED
      BY <3>2, <3>3
  <2> QED
    BY <2>1, <2>2, ResultWrites DEF vars
<1> QED
  BY <1>1, <1>2 DEF RetryInv

\* A count of rows that is not zero counts one of them.
LEMMA CountedRow ==
    ASSUME NEW S, NEW rs \in Seq(S), NEW T \in SUBSET (1..Len(rs)), Cardinality(T) # 0
    PROVE  \E i \in 1..Len(rs) : i \in T
<1>1. T # {}
  BY FS_EmptySet
<1> QED
  BY <1>1

\* inspect_run finds what the run.json of each model shows.
LEMMA InspectedRun4 ==
    ASSUME NEW res, NEW runs, NEW keys, NEW k \in keys, runs[k] # Missing,
           NEW x \in InspectRun4(k, runs[k])
    PROVE  x \in inspect_run(res, runs, keys)
<1> DEFINE A == UNION {InspectResult(res, u) : u \in {v \in keys \X (1..3) \X Attempts : res[v] # Missing}}
           B == UNION {InspectRun4(m, runs[m]) : m \in {l \in keys : runs[l] # Missing}}
<1>1. x \in B
  OBVIOUS
<1>2. inspect_run(res, runs, keys) = A \cup B
  BY Zenon DEF inspect_run
<1> HIDE DEF A, B
<1> QED
  BY <1>1, <1>2

\* The counters of the two payloads.
LEMMA PayloadCounters ==
    ASSUME NEW rs
    PROVE  /\ Payload3(rs).infrastructure_errors = Cardinality({i \in 1..Len(rs) : ~rs[i].valid})
           /\ Payload3(rs).incomplete = 0
           /\ Payload12(rs).infrastructure_errors
                = Cardinality({i \in 1..Len(rs) : rs[i].status = "INVALID"})
           /\ Payload12(rs).incomplete
                = Cardinality({i \in 1..Len(rs) : rs[i].status = "INCOMPLETE"})
BY DEF Payload3, Payload12, CountRows

\* Replay selects at least the items that resume would run again, in every round
\* and after any history of kills, retries and changed configurations: the counters
\* that _execute reads and the rows that inspection reads never disagree.
THEOREM ReplayCoversResume == Spec => []RetryableIsReplayed
<1>1. Init => RetryInv
  BY DEF Init, RetryInv, AskedInv, CountersInv
<1>2. TypeInv /\ RetryInv => RetryableIsReplayed
  <2> SUFFICES ASSUME TypeInv, RetryInv PROVE RetryableIsReplayed
    OBVIOUS
  <2>1. ASSUME NEW u \in Units, result[u] # Missing, ~Finished(result[u])
        PROVE  \E x \in ReplayItems(result, [m \in Keys |-> Missing], Keys, FALSE) :
                  x[1] = u[1] /\ x[2] = u[2]
    <3> DEFINE rs == result[u].results
    <3>1. result[u] \in Payload /\ rs \in Seq(Row(Items))
      BY <2>1 DEF TypeInv, TypeOK, Payload
    <3>2. PICK i \in 1..Len(rs) : item_status(rs[i]) \in {"INVALID", "INCOMPLETE"}
      <4>1. CASE u[2] = 3
        <5>1. /\ SoundRows(3, rs)
              /\ result[u].infrastructure_errors = Cardinality({i \in 1..Len(rs) : ~rs[i].valid})
              /\ result[u].incomplete = 0
          <6>1. result[u] = Payload3(rs) /\ SoundRows(3, rs)
            BY <2>1, <4>1 DEF RetryInv, CountersInv, PayloadOf
          <6> HIDE DEF rs
          <6> QED
            BY <6>1, PayloadCounters
        <5>2. Cardinality({i \in 1..Len(rs) : ~rs[i].valid}) # 0
          BY <2>1, <5>1 DEF Finished
        <5>3. \E i \in 1..Len(rs) : ~rs[i].valid
          BY <3>1, <5>2, CountedRow
        <5> QED
          BY <5>1, <5>3 DEF SoundRows, SoundRow, item_status
      <4>2. CASE u[2] # 3
        <5>1. /\ result[u].infrastructure_errors
                   = Cardinality({i \in 1..Len(rs) : rs[i].status = "INVALID"})
              /\ result[u].incomplete
                   = Cardinality({i \in 1..Len(rs) : rs[i].status = "INCOMPLETE"})
          <6>1. result[u] = Payload12(rs)
            BY <2>1, <4>2 DEF RetryInv, CountersInv, PayloadOf
          <6> HIDE DEF rs
          <6> QED
            BY <6>1, PayloadCounters
        <5>2. \/ Cardinality({i \in 1..Len(rs) : rs[i].status = "INVALID"}) # 0
              \/ Cardinality({i \in 1..Len(rs) : rs[i].status = "INCOMPLETE"}) # 0
          BY <2>1, <5>1 DEF Finished
        <5>3. \E i \in 1..Len(rs) : rs[i].status \in {"INVALID", "INCOMPLETE"}
          BY <3>1, <5>2, CountedRow
        <5> QED
          BY <5>3 DEF item_status, NoStatus
      <4> QED
        BY <4>1, <4>2
    <3> DEFINE x == [model |-> u[1], round |-> u[2], attempt |-> u[3], item |-> rs[i].id,
                     status |-> item_status(rs[i])]
               none == [m \in Keys |-> Missing]
    <3>3. x \in InspectResult(result, u)
      BY <3>2 DEF InspectResult, UNRESOLVED
    <3>4. x \in inspect_run(result, none, Keys)
      BY <2>1, <3>3 DEF inspect_run, Units
    <3>5. <<x.model, x.round, x.item>> \in ReplayItems(result, none, Keys, FALSE)
      BY <3>2, <3>4 DEF ReplayItems
    <3> QED
      BY <3>5
  <2>2. ASSUME NEW m \in Keys, run4[m] \notin {Missing, Torn}, ~Finished4(run4[m])
        PROVE  \E x \in ReplayItems([u \in Units |-> Missing],
                                    [k \in Keys |-> IF k = m THEN run4[m] ELSE Missing],
                                    Keys, FALSE) : x[1] = m /\ x[2] = 4
    <3> DEFINE p == run4[m]
               only == [k \in Keys |-> IF k = m THEN run4[m] ELSE Missing]
               none == [u \in Units |-> Missing]
               failed == {i \in 1..Len(p.grades) : ~p.grades[i].attempt_pass}
    <3>1. p.errors \in Seq(Error) /\ p.errors # <<>>
      BY <2>2 DEF TypeInv, TypeOK, Payload4, Finished4
    <3>2. 1 \in 1..Len(p.errors)
      BY <3>1
    <3>3. PICK x \in InspectRun4(m, p) : x.model = m /\ x.round = 4 /\ x.status \in {"FAIL", "INVALID"}
      <4>1. CASE failed = {}
        <5>1. [model |-> m, round |-> 4, attempt |-> p.errors[1].attempt,
               item |-> p.errors[1].task, status |-> "INVALID"] \in InspectRun4(m, p)
          BY <3>2, <4>1 DEF InspectRun4
        <5> QED
          BY <5>1
      <4>2. ASSUME NEW i \in failed
            PROVE  \E x \in InspectRun4(m, p) :
                      x.model = m /\ x.round = 4 /\ x.status \in {"FAIL", "INVALID"}
        <5>1. [model |-> m, round |-> 4, attempt |-> p.grades[i].attempt, item |-> p.grades[i].task,
               status |-> IF p.grades[i].model_timed_out THEN "INVALID" ELSE "FAIL"]
                 \in InspectRun4(m, p)
          BY DEF InspectRun4
        <5> QED
          BY <5>1
      <4> QED
        BY <4>1, <4>2
    <3>4. x \in inspect_run(none, only, Keys)
      <4>1. only[m] = p /\ only[m] # Missing
        BY <2>2
      <4> HIDE DEF only
      <4> QED
        BY <3>3, <4>1, InspectedRun4
    <3>5. <<x.model, x.round, x.item>> \in ReplayItems(none, only, Keys, FALSE)
      BY <3>3, <3>4 DEF ReplayItems
    <3> QED
      BY <3>3, <3>5
  <2> QED
    BY <2>1, <2>2 DEF RetryableIsReplayed
<1> QED
  BY <1>1, <1>2, RetryStep, TypeInvariant, PTL DEF Spec
-----------------------------------------------------------------------------
(***************************************************************************)
(* The public bundle.  Metrics are sums of counters over the saved         *)
(* attempts, item outcomes a set of records; each sum is the number of the *)
(* records it stands for because a record names its attempt and position.  *)
(***************************************************************************)
RowsOf(res, m, r, a) == res[<<m, r, a>>].results

\* The rows of one list that readers give one of some statuses.
Having(rs, S) == {i \in 1..Len(rs) : item_status(rs[i]) \in S}

Item(res, m, r, a, i) ==
    [item |-> RowsOf(res, m, r, a)[i].id, attempt |-> a, position |-> i,
     status |-> item_status(RowsOf(res, m, r, a)[i])]

\* Sizes of disjoint sets add up.
LEMMA DisjointSizes ==
    ASSUME NEW A, NEW B, IsFiniteSet(A), IsFiniteSet(B), A \cap B = {}
    PROVE  IsFiniteSet(A \cup B) /\ Cardinality(A \cup B) = Cardinality(A) + Cardinality(B)
<1>1. /\ IsFiniteSet(A \cup B)
      /\ Cardinality(A \cup B) = Cardinality(A) + Cardinality(B) - Cardinality(A \cap B)
  BY FS_Union
<1>2. Cardinality(A \cap B) = 0
  BY FS_EmptySet
<1>3. Cardinality(A) \in Nat /\ Cardinality(B) \in Nat
  BY FS_CardinalityType
<1> QED
  BY <1>1, <1>2, <1>3

\* The rows with given statuses are counted by a natural number.
LEMMA HavingIsFinite ==
    ASSUME NEW rs, NEW S, Len(rs) \in Nat
    PROVE  IsFiniteSet(Having(rs, S)) /\ Cardinality(Having(rs, S)) \in Nat
<1>1. IsFiniteSet(1..Len(rs)) /\ Having(rs, S) \subseteq 1..Len(rs)
  BY UpTo DEF Having
<1> QED
  BY <1>1, FS_Subset, FS_CardinalityType

\* _public_item_observations: each row of each saved attempt once.
LEMMA ItemsOfRound ==
    ASSUME NEW res, NEW m, NEW r
    PROVE  PublicItems(res, m, r) =
             UNION {{Item(res, m, r, a, i) : i \in 1..Len(RowsOf(res, m, r, a))}
                      : a \in SavedAttempts(res, m, r)}
BY DEF PublicItems, Item, RowsOf

WithStatus(res, m, r, S) == {x \in PublicItems(res, m, r) : x.status \in S}

\* The published items of a round with given statuses are as many as the rows of its
\* saved attempts with them: the sum that collect forms over the attempts.
LEMMA PublicCounts ==
    ASSUME NEW res, NEW m, NEW r, NEW S, NEW w,
           \A a \in SavedAttempts(res, m, r) :
             /\ Len(RowsOf(res, m, r, a)) \in Nat
             /\ w[a] = Cardinality(Having(RowsOf(res, m, r, a), S))
    PROVE  /\ IsFiniteSet(WithStatus(res, m, r, S))
           /\ SumFunctionOnSet(w, SavedAttempts(res, m, r)) = Cardinality(WithStatus(res, m, r, S))
<1> DEFINE A == SavedAttempts(res, m, r)
           K(a) == Having(RowsOf(res, m, r, a), S)
           T == [a \in A |-> {Item(res, m, r, a, i) : i \in K(a)}]
           X == WithStatus(res, m, r, S)
<1>1. IsFiniteSet(A)
  <2>1. IsFiniteSet(Attempts) /\ A \subseteq Attempts
    BY UpTo, ConfigAssumption DEF Attempts, SavedAttempts
  <2> QED
    BY <2>1, FS_Subset
<1>2. ASSUME NEW a \in A
      PROVE  IsFiniteSet(T[a]) /\ w[a] = Cardinality(T[a])
  <2>1. IsFiniteSet(K(a))
    BY HavingIsFinite
  <2> DEFINE f == [i \in K(a) |-> Item(res, m, r, a, i)]
  <2>2. f \in Bijection(K(a), T[a])
    <3>1. \A i, j \in K(a) : f[i] = f[j] => i = j
      BY DEF Item
    <3>2. T[a] = {f[i] : i \in K(a)}
      OBVIOUS
    <3>3. f \in [K(a) -> T[a]]
      OBVIOUS
    <3> HIDE DEF f, T, K
    <3> QED
      BY <3>1, <3>2, <3>3 DEF Bijection, Injection, Surjection, IsInjective
  <2> HIDE DEF T, K, f
  <2>3. IsFiniteSet(T[a]) /\ Cardinality(T[a]) = Cardinality(K(a))
    BY <2>1, <2>2, FS_Bijection DEF ExistsBijection
  <2> QED
    BY <2>3 DEF K
<1>3. \A a, b \in A : a # b => T[a] \cap T[b] = {}
  BY DEF Item
<1>4. X = UNION {T[a] : a \in A}
  <2>1. ASSUME NEW x \in X PROVE x \in UNION {T[a] : a \in A}
    <3>0. PICK a \in A : \E i \in 1..Len(RowsOf(res, m, r, a)) : x = Item(res, m, r, a, i)
      BY ItemsOfRound DEF WithStatus
    <3>1. PICK i \in 1..Len(RowsOf(res, m, r, a)) : x = Item(res, m, r, a, i)
      BY <3>0
    <3>2. i \in K(a)
      BY <3>1 DEF Item, Having, WithStatus
    <3> QED
      BY <3>1, <3>2
  <2>2. ASSUME NEW a \in A, NEW x \in T[a] PROVE x \in X
    <3>1. PICK i \in K(a) : x = Item(res, m, r, a, i)
      OBVIOUS
    <3>2. i \in 1..Len(RowsOf(res, m, r, a)) /\ x.status \in S
      BY <3>1 DEF Item, Having
    <3>3. x \in PublicItems(res, m, r)
      BY <3>1, <3>2, ItemsOfRound
    <3> QED
      BY <3>2, <3>3 DEF WithStatus
  <2> HIDE DEF X, T
  <2> QED
    BY <2>1, <2>2
<1>5. \A a \in A : w[a] \in Nat
  <2> HIDE DEF T, A
  <2> QED
    BY <1>2, FS_CardinalityType
<1> HIDE DEF T, A, X
<1>6. IsFiniteSet(UNION {T[a] : a \in A}) /\ Cardinality(UNION {T[a] : a \in A}) = Sigma(w, A)
  BY <1>1, <1>2, <1>3, SigmaOfSizes
<1>7. SumFunctionOnSet(w, A) = Sigma(w, A)
  BY <1>1, <1>5, SumOfFunction
<1>8. IsFiniteSet(X) /\ SumFunctionOnSet(w, A) = Cardinality(X)
  BY <1>4, <1>6, <1>7
<1> QED
  BY <1>8 DEF A, X

\* What the readers of a saved list of rows count, one status at a time or two.
LEMMA RowCounts ==
    ASSUME NEW p, Len(p.results) \in Nat
    PROVE  /\ \A s \in Statuses : result_counts(p)[s] = Cardinality(Having(p.results, {s}))
           /\ result_counts(p)["PASS"] + result_counts(p)["FAIL"]
                = Cardinality(Having(p.results, {"PASS", "FAIL"}))
<1> DEFINE P == Having(p.results, {"PASS"})
           F == Having(p.results, {"FAIL"})
           B == Having(p.results, {"PASS", "FAIL"})
<1>1. \A s \in Statuses : result_counts(p)[s] = Cardinality(Having(p.results, {s}))
  <2> SUFFICES ASSUME NEW s \in Statuses
               PROVE  result_counts(p)[s] = Cardinality(Having(p.results, {s}))
    OBVIOUS
  <2>1. Having(p.results, {s}) = {i \in 1..Len(p.results) : item_status(p.results[i]) = s}
    BY DEF Having
  <2>2. result_counts(p)[s] = Cardinality({i \in 1..Len(p.results) : item_status(p.results[i]) = s})
    BY DEF result_counts, CountRows
  <2> QED
    BY <2>1, <2>2
<1>2. B = P \cup F /\ P \cap F = {}
  BY DEF Having
<1>3. IsFiniteSet(P) /\ IsFiniteSet(F)
  BY HavingIsFinite
<1>4. "PASS" \in Statuses /\ "FAIL" \in Statuses
  BY DEF Statuses
<1> HIDE DEF P, F, B
<1>5. Cardinality(P \cup F) = Cardinality(P) + Cardinality(F)
  BY <1>2, <1>3, DisjointSizes
<1>6. result_counts(p)["PASS"] = Cardinality(P) /\ result_counts(p)["FAIL"] = Cardinality(F)
  BY <1>1, <1>4 DEF P, F
<1> QED
  BY <1>1, <1>2, <1>5, <1>6 DEF B

\* The saved score is the number of rows that are read as PASS, unless a correct
\* answer of round 3 was cut at the output limit.
LEMMA ScoreIsPasses ==
    ASSUME NEW r, NEW rs \in Seq(Row(Items)), SoundRows(r, rs),
           r # 3 \/ \A i \in 1..Len(rs) : ~(CutAnswer(rs[i]) /\ rs[i].correct = "yes")
    PROVE  PayloadOf(r, rs).score = Cardinality(Having(rs, {"PASS"}))
<1>1. ASSUME NEW i \in 1..Len(rs)
      PROVE  item_status(rs[i]) = "PASS" <=> IF r = 3 THEN rs[i].valid /\ rs[i].correct = "yes"
                                             ELSE rs[i].correct = "yes"
  <2>1. SoundRow(r, rs[i]) /\ rs[i] \in Row(Items)
    BY DEF SoundRows
  <2>2. CASE r = 3
    BY <2>1, <2>2 DEF SoundRow, item_status, CutAnswer, Row, Verdicts
  <2>3. CASE r # 3
    BY <2>1, <2>3 DEF SoundRow, item_status
  <2> QED
    BY <2>2, <2>3
<1>2. CASE r = 3
  <2>1. Having(rs, {"PASS"}) = {i \in 1..Len(rs) : rs[i].valid /\ rs[i].correct = "yes"}
    BY <1>1, <1>2 DEF Having
  <2>2. PayloadOf(r, rs).score = Cardinality({i \in 1..Len(rs) : rs[i].valid /\ rs[i].correct = "yes"})
    BY <1>2 DEF PayloadOf, Payload3, CountRows
  <2> QED
    BY <2>1, <2>2
<1>3. CASE r # 3
  <2>1. Having(rs, {"PASS"}) = {i \in 1..Len(rs) : rs[i].correct = "yes"}
    BY <1>1, <1>3 DEF Having
  <2>2. PayloadOf(r, rs).score = Cardinality({i \in 1..Len(rs) : rs[i].correct = "yes"})
    BY <1>3 DEF PayloadOf, Payload12, CountRows
  <2> QED
    BY <2>1, <2>2
<1> QED
  BY <1>2, <1>3

\* No question is selected twice.
LEMMA QuestionsDistinct ==
    ASSUME NEW c \in Configs, NEW i \in 1..Len(c.models), NEW r \in 1..3
    PROVE  IsInjective(Questions(c.models[i], r))
<1>1. CASE c.models[i].filters[r] = NoTasks
  BY <1>1, ConfigAssumption DEF Questions
<1>2. CASE c.models[i].filters[r] # NoTasks
  BY <1>2, PlanAssumption DEF Selected
<1> QED
  BY <1>1, <1>2

\* The saved attempts of one model and round of the saved configuration.
LEMMA SavedRows ==
    ASSUME TypeInv, ResultsInv, RetryInv, NEW j \in 1..Len(snapshot.models), snapshot # Missing,
           NEW r \in 1..3, NEW a \in SavedAttempts(result, snapshot.models[j].key, r)
    PROVE  LET u == <<snapshot.models[j].key, r, a>>
               rs == result[u].results
           IN /\ rs \in Seq(Row(Items)) /\ SoundRows(r, rs) /\ result[u] = PayloadOf(r, rs)
              /\ Ids(rs) = Questions(snapshot.models[j], r)
<1> DEFINE m == snapshot.models[j].key
           u == <<m, r, a>>
<1>1. snapshot \in Configs
  BY DEF TypeInv, TypeOK
<1>2. m \in Keys /\ ModelOf(snapshot, m) = snapshot.models[j]
  BY <1>1, PlanFacts, ModelOfKey
<1>3. u \in Units /\ result[u] # Missing /\ u[1] = m /\ u[2] = r
  BY <1>2 DEF SavedAttempts, Units
<1>4. result[u] \in Payload
  BY <1>3 DEF TypeInv, TypeOK
<1> HIDE DEF u
<1>5. result[u].results \in Seq(Row(Items))
  BY <1>4 DEF Payload
<1>6. Ids(result[u].results) = Questions(snapshot.models[j], r)
  BY <1>2, <1>3 DEF ResultsInv, ResultsComplete
<1>7. SoundRows(r, result[u].results) /\ result[u] = PayloadOf(r, result[u].results)
  BY <1>3 DEF RetryInv, CountersInv
<1> QED
  BY <1>5, <1>6, <1>7 DEF u

\* Rounds 1 to 3 of a bundle: what build_public_result returns validates.
LEMMA RoundExports ==
    ASSUME TypeInv, ResultsInv, RetryInv, NEW j \in 1..Len(snapshot.models), snapshot # Missing,
           NEW r \in 1..3, ~(r = 3 /\ CutButCorrect(snapshot.models[j].key))
    PROVE  /\ PublicRoundValidates(result, snapshot.models[j].key, r)
           /\ \A a \in SavedAttempts(result, snapshot.models[j].key, r) :
                {x.item : x \in {y \in PublicItems(result, snapshot.models[j].key, r) : y.attempt = a}}
                  = Range(Questions(snapshot.models[j], r))
<1> DEFINE m == snapshot.models[j].key
           A == SavedAttempts(result, m, r)
           qs == Questions(snapshot.models[j], r)
           items == PublicItems(result, m, r)
<1>1. ASSUME NEW a \in A
      PROVE  /\ RowsOf(result, m, r, a) \in Seq(Row(Items)) /\ SoundRows(r, RowsOf(result, m, r, a))
             /\ Len(RowsOf(result, m, r, a)) \in Nat
             /\ result[<<m, r, a>>] = PayloadOf(r, RowsOf(result, m, r, a))
             /\ Ids(RowsOf(result, m, r, a)) = qs
  <2>1. /\ RowsOf(result, m, r, a) \in Seq(Row(Items)) /\ SoundRows(r, RowsOf(result, m, r, a))
        /\ result[<<m, r, a>>] = PayloadOf(r, RowsOf(result, m, r, a))
        /\ Ids(RowsOf(result, m, r, a)) = qs
    BY SavedRows DEF RowsOf
  <2> QED
    BY <2>1
<1>2. snapshot \in Configs
  BY DEF TypeInv, TypeOK
<1>3. IsInjective(qs) /\ qs \in Seq(Items)
  BY <1>2, QuestionsDistinct, PlanFacts
<1>4. ASSUME NEW a \in A
      PROVE  /\ Len(RowsOf(result, m, r, a)) = Len(qs)
             /\ \A i \in 1..Len(qs) : RowsOf(result, m, r, a)[i].id = qs[i]
  <2>1. Ids(RowsOf(result, m, r, a)) = qs /\ Len(RowsOf(result, m, r, a)) \in Nat
    BY <1>1
  <2> HIDE DEF qs, A, m
  <2> QED
    BY <1>3, <2>1 DEF Ids
<1>5. items = UNION {{Item(result, m, r, a, i) : i \in 1..Len(RowsOf(result, m, r, a))} : a \in A}
  BY ItemsOfRound
<1>6. ASSUME NEW x \in items
      PROVE  \E a \in A : \E i \in 1..Len(qs) :
                x.item = qs[i] /\ x.attempt = a /\ x.position = i
  <2>1. PICK a \in A : \E i \in 1..Len(RowsOf(result, m, r, a)) : x = Item(result, m, r, a, i)
    BY <1>5
  <2>2. PICK i \in 1..Len(RowsOf(result, m, r, a)) : x = Item(result, m, r, a, i)
    BY <2>1
  <2> HIDE DEF A, m, qs
  <2> QED
    BY <1>4, <2>2 DEF Item
<1>7. ItemsAreUnique(items)
  <2> SUFFICES ASSUME NEW x \in items, NEW y \in items, x.item = y.item, x.attempt = y.attempt
               PROVE  x.position = y.position
    BY DEF ItemsAreUnique
  <2>0. DOMAIN qs = 1..Len(qs)
    BY <1>3
  <2> HIDE DEF A, m, qs, items
  <2>1. PICK i \in 1..Len(qs) : x.item = qs[i] /\ x.position = i
    BY <1>6
  <2>2. PICK k \in 1..Len(qs) : y.item = qs[k] /\ y.position = k
    BY <1>6
  <2> QED
    BY <1>3, <2>0, <2>1, <2>2 DEF IsInjective
<1>8. ASSUME NEW a \in A
      PROVE  {x.item : x \in {y \in items : y.attempt = a}} = Range(qs)
  <2>1. ASSUME NEW i \in 1..Len(qs)
        PROVE  \E x \in items : x.attempt = a /\ x.item = qs[i]
    <3> DEFINE x == Item(result, m, r, a, i)
    <3>1. i \in 1..Len(RowsOf(result, m, r, a)) /\ RowsOf(result, m, r, a)[i].id = qs[i]
      BY <1>4, <2>1
    <3>2. x \in items
      BY <1>5, <3>1
    <3>3. x.attempt = a /\ x.item = qs[i]
      BY <3>1 DEF Item
    <3> HIDE DEF x
    <3> QED
      BY <3>2, <3>3
  <2>2. Range(qs) = {qs[i] : i \in 1..Len(qs)}
    BY <1>3 DEF Range
  <2> HIDE DEF A, m, qs, items
  <2> QED
    BY <1>6, <2>1, <2>2
<1>9. MetricsMatch(CollectRound(result, m, r), items)
  <2> DEFINE score == [a \in A |-> result[<<m, r, a>>].score]
             count(s) == [a \in A |-> result_counts(result[<<m, r, a>>])[s]]
             both == [a \in A |-> result_counts(result[<<m, r, a>>])["PASS"]
                                    + result_counts(result[<<m, r, a>>])["FAIL"]]
             N(s) == Cardinality({x \in items : x.status = s})
  <2>1. ASSUME NEW s \in Statuses
        PROVE  /\ SumFunctionOnSet(count(s), A) = N(s)
               /\ IsFiniteSet({x \in items : x.status = s})
    <3> DEFINE w == count(s)
               S == {s}
    <3>1. \A a \in A : /\ Len(RowsOf(result, m, r, a)) \in Nat
                       /\ w[a] = Cardinality(Having(RowsOf(result, m, r, a), S))
      BY <1>1, RowCounts DEF RowsOf
    <3>a. A = SavedAttempts(result, m, r) /\ items = PublicItems(result, m, r)
      OBVIOUS
    <3> HIDE DEF w, S, A, m, items
    <3>2. /\ IsFiniteSet(WithStatus(result, m, r, S))
          /\ SumFunctionOnSet(w, SavedAttempts(result, m, r)) = Cardinality(WithStatus(result, m, r, S))
      BY <3>a, <3>1, PublicCounts
    <3>3. {x \in items : x.status = s} = WithStatus(result, m, r, S)
      BY <3>a DEF S, WithStatus
    <3> QED
      BY <3>2, <3>3, <3>a DEF w, WithStatus
  <2>2. SumFunctionOnSet(score, A) = N("PASS")
    <3> DEFINE S == {"PASS"}
    <3>1. ASSUME NEW a \in A
          PROVE  score[a] = Cardinality(Having(RowsOf(result, m, r, a), {"PASS"}))
      <4> DEFINE rs == RowsOf(result, m, r, a)
      <4>1. rs \in Seq(Row(Items)) /\ SoundRows(r, rs) /\ result[<<m, r, a>>] = PayloadOf(r, rs)
        BY <1>1
      <4>2. r # 3 \/ \A i \in 1..Len(rs) : ~(CutAnswer(rs[i]) /\ rs[i].correct = "yes")
        <5> SUFFICES ASSUME r = 3, NEW i \in 1..Len(rs) PROVE ~(CutAnswer(rs[i]) /\ rs[i].correct = "yes")
          OBVIOUS
        <5>1. a \in SavedAttempts(result, m, 3) /\ rs[i] \in Range(result[<<m, 3, a>>].results)
          <6>1. rs[i] \in Range(rs) /\ rs = result[<<m, 3, a>>].results
            BY <4>1, SMTT(40) DEF Range, RowsOf
          <6> QED
            BY <6>1
        <5> QED
          BY <5>1 DEF CutButCorrect
      <4> HIDE DEF rs
      <4>3. PayloadOf(r, rs).score = Cardinality(Having(rs, {"PASS"}))
        BY <4>1, <4>2, ScoreIsPasses
      <4> QED
        BY <4>1, <4>3 DEF rs
    <3>2. \A a \in A : /\ Len(RowsOf(result, m, r, a)) \in Nat
                       /\ score[a] = Cardinality(Having(RowsOf(result, m, r, a), S))
      BY <1>1, <3>1
    <3>a. A = SavedAttempts(result, m, r) /\ items = PublicItems(result, m, r)
      OBVIOUS
    <3> HIDE DEF score, S, A, m, items
    <3>3. SumFunctionOnSet(score, SavedAttempts(result, m, r))
                = Cardinality(WithStatus(result, m, r, S))
      BY <3>a, <3>2, PublicCounts
    <3>4. {x \in items : x.status = "PASS"} = WithStatus(result, m, r, S)
      BY <3>a DEF S, WithStatus
    <3> QED
      BY <3>3, <3>4, <3>a DEF WithStatus
  <2>3. SumFunctionOnSet(both, A) = N("PASS") + N("FAIL")
    <3> DEFINE S == {"PASS", "FAIL"}
               P == {x \in items : x.status = "PASS"}
               F == {x \in items : x.status = "FAIL"}
               B == {x \in items : x.status \in S}
    <3>1. \A a \in A : /\ Len(RowsOf(result, m, r, a)) \in Nat
                       /\ both[a] = Cardinality(Having(RowsOf(result, m, r, a), S))
      BY <1>1, RowCounts DEF RowsOf
    <3>2. B = P \cup F /\ P \cap F = {}
      OBVIOUS
    <3>3. IsFiniteSet(P) /\ IsFiniteSet(F)
      BY <2>1 DEF Statuses
    <3>a. A = SavedAttempts(result, m, r) /\ items = PublicItems(result, m, r)
      OBVIOUS
    <3> HIDE DEF both, S, P, F, B, A, m, items
    <3>4. SumFunctionOnSet(both, SavedAttempts(result, m, r))
                = Cardinality(WithStatus(result, m, r, S))
      BY <3>a, <3>1, PublicCounts
    <3>5. Cardinality(P \cup F) = Cardinality(P) + Cardinality(F)
      BY <3>2, <3>3, DisjointSizes
    <3> QED
      BY <3>2, <3>4, <3>5, <3>a DEF B, P, F, WithStatus
  <2>4. \A s \in Statuses : SumFunction(count(s)) = N(s)
    BY <2>1 DEF SumFunction
  <2>5. SumFunction(score) = N("PASS") /\ SumFunction(both) = N("PASS") + N("FAIL")
    BY <2>2, <2>3 DEF SumFunction
  <2>6. LET k == CollectRound(result, m, r)
        IN /\ k.passed = SumFunction(score) /\ k.total = SumFunction(both)
           /\ k.incomplete = SumFunction(count("INCOMPLETE"))
           /\ k.manual_review = SumFunction(count("REVIEW"))
           /\ k.infrastructure_errors = SumFunction(count("INVALID"))
    BY DEF CollectRound, SumOver
  <2>7. {"INCOMPLETE", "REVIEW", "INVALID"} \subseteq Statuses
    BY DEF Statuses
  <2>8. LET k == CollectRound(result, m, r)
        IN /\ k.passed = N("PASS") /\ k.total = N("PASS") + N("FAIL")
           /\ k.incomplete = N("INCOMPLETE") /\ k.manual_review = N("REVIEW")
           /\ k.infrastructure_errors = N("INVALID")
    <3> HIDE DEF score, both, count, N
    <3> QED
      BY <2>4, <2>5, <2>6, <2>7
  <2> QED
    BY <2>8 DEF MetricsMatch
<1> QED
  BY <1>7, <1>8, <1>9 DEF PublicRoundValidates

-----------------------------------------------------------------------------
(***************************************************************************)
(* The run.json of round 4.  v4_runner.main collects a grade or an error   *)
(* for each task and attempt, in the order of its two loops; so far it has *)
(* collected exactly what the loops have passed, and each unit once.       *)
(***************************************************************************)
Named(x) == <<x.task, x.attempt>>

Named4(p) == {Named(p.grades[i]) : i \in 1..Len(p.grades)}
               \cup {Named(p.errors[i]) : i \in 1..Len(p.errors)}

\* p has a grade or an error for each unit of W, for no other and for none twice.
Settled(p, W) ==
    /\ Named4(p) = W
    /\ \A i, j \in 1..Len(p.grades) : Named(p.grades[i]) = Named(p.grades[j]) => i = j
    /\ \A i, j \in 1..Len(p.errors) : Named(p.errors[i]) = Named(p.errors[j]) => i = j
    /\ \A i \in 1..Len(p.grades), j \in 1..Len(p.errors) : Named(p.grades[i]) # Named(p.errors[j])

\* The grade.json of every grade has been written, and none says that the model
\* timed out: the agent wrappers raise instead.
Backed(m, p) ==
    \A i \in 1..Len(p.grades) :
        <<m, p.grades[i].task, p.grades[i].attempt>> \in graded /\ ~p.grades[i].model_timed_out

\* What the loops over ts and 1..n have passed at the k-th task and attempt a.
Passed(ts, n, k, a) ==
    {w \in Range(ts) \X (1..n) :
        \E x \in 1..Len(ts) : w[1] = ts[x] /\ (x < k \/ (x = k /\ w[2] < a))}

\* The two loops of v4_runner.main reach one new attempt at each iteration.
LEMMA PassedOne ==
    ASSUME NEW ts \in Seq(Tasks), IsInjective(ts), NEW n \in Nat, NEW k \in 1..Len(ts), NEW a \in 1..n
    PROVE  /\ <<ts[k], a>> \notin Passed(ts, n, k, a)
           /\ a < n => Passed(ts, n, k, a + 1) = Passed(ts, n, k, a) \cup {<<ts[k], a>>}
           /\ a >= n => Passed(ts, n, k + 1, 1) = Passed(ts, n, k, a) \cup {<<ts[k], a>>}
<1> DEFINE R == Range(ts)
           D == 1..Len(ts)
<1>1. /\ \A x, y \in D : ts[x] = ts[y] => x = y
      /\ \A x \in D : ts[x] \in R
  BY DEF IsInjective, Range
<1>2. \A k1, a1 : Passed(ts, n, k1, a1) =
        {w \in R \X (1..n) : \E x \in D : w[1] = ts[x] /\ (x < k1 \/ (x = k1 /\ w[2] < a1))}
  BY DEF Passed
<1>d. D \subseteq Nat /\ k \in D
  OBVIOUS
<1> HIDE DEF R, D
<1>3. <<ts[k], a>> \notin Passed(ts, n, k, a)
  BY <1>1, <1>2, <1>d
<1>4. ASSUME a < n PROVE Passed(ts, n, k, a + 1) = Passed(ts, n, k, a) \cup {<<ts[k], a>>}
  <2>1. ASSUME NEW w \in R \X (1..n)
        PROVE  (\E x \in D : w[1] = ts[x] /\ (x < k \/ (x = k /\ w[2] < a + 1)))
                 <=> (\/ \E x \in D : w[1] = ts[x] /\ (x < k \/ (x = k /\ w[2] < a))
                      \/ w = <<ts[k], a>>)
    <3>1. w = <<w[1], w[2]>> /\ w[2] \in 1..n
      BY <2>1
    <3> QED
      BY <3>1, <1>1, <1>d
  <2>2. <<ts[k], a>> \in R \X (1..n)
    BY <1>1, <1>d
  <2> QED
    BY <1>2, <2>1, <2>2
<1>5. ASSUME a >= n PROVE Passed(ts, n, k + 1, 1) = Passed(ts, n, k, a) \cup {<<ts[k], a>>}
  <2>1. ASSUME NEW w \in R \X (1..n)
        PROVE  (\E x \in D : w[1] = ts[x] /\ (x < k + 1 \/ (x = k + 1 /\ w[2] < 1)))
                 <=> (\/ \E x \in D : w[1] = ts[x] /\ (x < k \/ (x = k /\ w[2] < a))
                      \/ w = <<ts[k], a>>)
    <3>1. w = <<w[1], w[2]>> /\ w[2] \in 1..n /\ a = n
      BY <2>1, <1>5
    <3>2. (w[2] < a \/ w[2] = a) /\ ~(w[2] < 1)
      BY <3>1
    <3>3. \A x \in D : x < k + 1 <=> (x < k \/ x = k)
      BY <1>d
    <3> QED
      BY <3>1, <3>2, <3>3, <1>1, <1>d
  <2>2. <<ts[k], a>> \in R \X (1..n)
    BY <1>1, <1>d
  <2> QED
    BY <1>2, <2>1, <2>2
<1> QED
  BY <1>3, <1>4, <1>5

\* They start with none behind them and end with every task and attempt.
LEMMA PassedNoneAndAll ==
    ASSUME NEW ts \in Seq(Tasks), NEW n \in Nat
    PROVE  /\ Passed(ts, n, 1, 1) = {}
           /\ Passed(ts, n, Len(ts) + 1, 1) = Range(ts) \X (1..n)
<1>1. Range(ts) = {ts[x] : x \in 1..Len(ts)}
  BY DEF Range
<1>2. Passed(ts, n, 1, 1) = {}
  BY DEF Passed
<1>3. Passed(ts, n, Len(ts) + 1, 1) = Range(ts) \X (1..n)
  BY <1>1 DEF Passed
<1> QED
  BY <1>2, <1>3

\* A grade or an error for one more unit.
LEMMA SettleOne ==
    ASSUME NEW p \in Memories, NEW W, Settled(p, W), NEW g \in Grade, NEW e \in Error
    PROVE  /\ Named(g) \notin W => Settled([p EXCEPT !.grades = Append(@, g)], W \cup {Named(g)})
           /\ Named(e) \notin W => Settled([p EXCEPT !.errors = Append(@, e)], W \cup {Named(e)})
<1> DEFINE gs == p.grades
           es == p.errors
<1>1. gs \in Seq(Grade) /\ es \in Seq(Error)
  BY DEF Memories
<1>2. /\ \A i \in 1..Len(gs) : Named(gs[i]) \in W
      /\ \A i \in 1..Len(es) : Named(es[i]) \in W
      /\ \A w \in W : \/ \E i \in 1..Len(gs) : w = Named(gs[i])
                      \/ \E i \in 1..Len(es) : w = Named(es[i])
      /\ \A i, j \in 1..Len(gs) : Named(gs[i]) = Named(gs[j]) => i = j
      /\ \A i, j \in 1..Len(es) : Named(es[i]) = Named(es[j]) => i = j
      /\ \A i \in 1..Len(gs), j \in 1..Len(es) : Named(gs[i]) # Named(es[j])
  BY DEF Settled, Named4
<1>3. ASSUME Named(g) \notin W
      PROVE  Settled([p EXCEPT !.grades = Append(@, g)], W \cup {Named(g)})
  <2> DEFINE q == [p EXCEPT !.grades = Append(@, g)]
             hs == Append(gs, g)
  <2>1. q.grades = hs /\ q.errors = es
    BY DEF Memories
  <2>2. /\ Len(hs) = Len(gs) + 1 /\ hs[Len(gs) + 1] = g
        /\ \A i \in 1..Len(gs) : hs[i] = gs[i]
        /\ 1..Len(hs) = (1..Len(gs)) \cup {Len(gs) + 1}
        /\ Len(gs) + 1 \notin 1..Len(gs)
    BY <1>1
  <2> HIDE DEF gs, es, hs, q
  <2>3. Named4(q) = W \cup {Named(g)}
    <3>1. Named4(q) = {Named(hs[i]) : i \in 1..Len(hs)} \cup {Named(es[i]) : i \in 1..Len(es)}
      BY <2>1 DEF Named4
    <3>2. \A w : w \in Named4(q) <=> \/ \E i \in 1..Len(hs) : w = Named(hs[i])
                                     \/ \E i \in 1..Len(es) : w = Named(es[i])
      BY <3>1
    <3>3. \A w : w \in Named4(q) <=> w \in W \cup {Named(g)}
      BY <1>2, <2>2, <3>2
    <3> QED
      BY <3>3
  <2>4. \A i, j \in 1..Len(hs) : Named(hs[i]) = Named(hs[j]) => i = j
    BY <1>2, <1>3, <2>2
  <2>5. \A i \in 1..Len(hs), j \in 1..Len(es) : Named(hs[i]) # Named(es[j])
    BY <1>2, <1>3, <2>2
  <2>6. Settled(q, W \cup {Named(g)})
    BY <1>2, <2>1, <2>3, <2>4, <2>5 DEF Settled
  <2> QED
    BY <2>6 DEF q
<1>4. ASSUME Named(e) \notin W
      PROVE  Settled([p EXCEPT !.errors = Append(@, e)], W \cup {Named(e)})
  <2> DEFINE q == [p EXCEPT !.errors = Append(@, e)]
             fs == Append(es, e)
  <2>1. q.grades = gs /\ q.errors = fs
    BY DEF Memories
  <2>2. /\ Len(fs) = Len(es) + 1 /\ fs[Len(es) + 1] = e
        /\ \A i \in 1..Len(es) : fs[i] = es[i]
        /\ 1..Len(fs) = (1..Len(es)) \cup {Len(es) + 1}
        /\ Len(es) + 1 \notin 1..Len(es)
    BY <1>1
  <2> HIDE DEF gs, es, fs, q
  <2>3. Named4(q) = W \cup {Named(e)}
    <3>1. Named4(q) = {Named(gs[i]) : i \in 1..Len(gs)} \cup {Named(fs[i]) : i \in 1..Len(fs)}
      BY <2>1 DEF Named4
    <3>2. \A w : w \in Named4(q) <=> \/ \E i \in 1..Len(gs) : w = Named(gs[i])
                                     \/ \E i \in 1..Len(fs) : w = Named(fs[i])
      BY <3>1
    <3>3. \A w : w \in Named4(q) <=> w \in W \cup {Named(e)}
      BY <1>2, <2>2, <3>2
    <3> QED
      BY <3>3
  <2>4. \A i, j \in 1..Len(fs) : Named(fs[i]) = Named(fs[j]) => i = j
    BY <1>2, <1>4, <2>2
  <2>5. \A i \in 1..Len(gs), j \in 1..Len(fs) : Named(gs[i]) # Named(fs[j])
    BY <1>2, <1>4, <2>2
  <2>6. Settled(q, W \cup {Named(e)})
    BY <1>2, <2>1, <2>3, <2>4, <2>5 DEF Settled
  <2> QED
    BY <2>6 DEF q
<1> QED
  BY <1>3, <1>4

\* No task of round 4 is selected twice.
LEMMA TasksDistinct ==
    ASSUME NEW c \in Configs, NEW i \in 1..Len(c.models)
    PROVE  IsInjective(Round4Tasks(c, c.models[i]))
<1>1. /\ IsInjective(c.models[i].filters[4]) /\ IsInjective(c.round4_tasks)
      /\ IsInjective(CANONICAL_TASKS)
  BY ConfigAssumption, SMTT(40) DEF ValidFilters
<1> QED
  BY <1>1 DEF Round4Tasks

Memory4 ==
    /\ pc = "attempt" => Settled(r4, Passed(R4Tasks, cfg.repetitions, ri, at))
    /\ pc \in {"run.json", "dump"} => Settled(r4, Range(R4Tasks) \X (1..cfg.repetitions))
    /\ InRound4 => Backed(Model.key, r4)

\* A run.json that parses is of the whole of round 4 of its model, under the saved
\* configuration.
Whole4(m) ==
    /\ snapshot # Missing
    /\ \E i \in 1..Len(snapshot.models) :
         /\ snapshot.models[i].key = m
         /\ run4[m].tasks = Round4Tasks(snapshot, snapshot.models[i])
         /\ run4[m].attempts = snapshot.repetitions
         /\ Settled(run4[m], Range(Round4Tasks(snapshot, snapshot.models[i]))
                               \X (1..snapshot.repetitions))
    /\ Backed(m, run4[m])

Run4Inv == Memory4 /\ \A m \in Keys : run4[m] \notin {Missing, Torn} => Whole4(m)

\* The grades on disk only grow, and a saved configuration is never replaced.
LEMMA EvidenceGrows ==
    ASSUME Next PROVE graded \subseteq graded' /\ (snapshot # Missing => snapshot' = snapshot)
<1> USE DEF disk
<1> QED
  BY DEF Next, Step, Invoke, Refuse, InvokeReport, SkipUnit, StartUnit, Ask, SkipRound4,
         RejectRound4, StartRound4, FailPreflight, Attempt, OpenRunJson, DumpRunJson, SaveResult,
         SaveSummary, RejectCollect, OpenReport, WriteReport, Finish, Kill

\* Round 4 is entered by StartRound4 and goes on with attempts and the write.
LEMMA Round4Steps ==
    ASSUME Next, pc' \in {"attempt", "run.json", "dump"}
    PROVE  \/ StartRound4 \/ OpenRunJson
           \/ \E how \in {"pass", "fail", "timeout", "error"} : Attempt(how)
<1> USE DEF disk
<1> QED
  BY DEF Next, Step, Invoke, StartModel, Refuse, InvokeReport, SkipUnit, NextUnit, StartUnit,
         SkipRound4, RejectRound4, Ask, FailPreflight, SaveResult,
         DumpRunJson, NextModel, SaveSummary, RejectCollect, OpenReport, WriteReport,
         Finish, Kill, End

\* Every step keeps the collected units those the loops have passed.
LEMMA Memory4Step == TypeInv /\ Run4Inv /\ [Next]_vars => Memory4'
<1> SUFFICES ASSUME TypeInv, Run4Inv, [Next]_vars PROVE Memory4'
  OBVIOUS
<1> USE DEF disk, proc, loop
<1>t. ASSUME mi \in 1..Len(cfg.models)
      PROVE  /\ R4Tasks \in Seq(Tasks) /\ IsInjective(R4Tasks) /\ R4Tasks # <<>>
             /\ cfg.repetitions \in Nat /\ cfg.repetitions >= 1
             /\ cfg.repetitions <= MaxRepetitions /\ Model.key \in Keys
  <2>1. cfg \in Configs
    BY DEF TypeInv, TypeOK
  <2> QED
    BY <1>t, <2>1, PlanFacts, TasksDistinct DEF R4Tasks, Model
<1>1. CASE StartRound4
  <2>1. /\ mi \in 1..Len(cfg.models) /\ r4 = EmptyR4 /\ pc' = "attempt" /\ r4' = r4
        /\ ri' = 1 /\ at' = 1 /\ cfg' = cfg
    BY <1>1 DEF StartRound4, TypeInv, LoopInv
  <2>2. R4Tasks' = R4Tasks
    BY <1>1 DEF StartRound4, R4Tasks, Model
  <2>3. Passed(R4Tasks, cfg.repetitions, 1, 1) = {}
    BY <2>1, <1>t, PassedNoneAndAll
  <2>4. Settled(EmptyR4, {}) /\ Backed(Model', EmptyR4)
    BY DEF Settled, Named4, EmptyR4, Backed
  <2>5. Backed(Model.key, EmptyR4)'
    BY DEF EmptyR4, Backed
  <2> QED
    BY <2>1, <2>2, <2>3, <2>4, <2>5 DEF Memory4
<1>2. CASE OpenRunJson
  <2>1. /\ pc = "run.json" /\ pc' = "dump" /\ UNCHANGED <<r4, graded, cfg>>
    BY <1>2 DEF OpenRunJson
  <2>2. R4Tasks' = R4Tasks /\ Model' = Model
    BY <1>2 DEF OpenRunJson, R4Tasks, Model
  <2> QED
    BY <2>1, <2>2 DEF Run4Inv, Memory4, Backed
<1>3. ASSUME NEW how \in {"pass", "fail", "timeout", "error"}, Attempt(how)
      PROVE  Memory4'
  <2> DEFINE task == R4Tasks[ri]
             n == cfg.repetitions
             W == Passed(R4Tasks, n, ri, at)
             V == IF at < n THEN Passed(R4Tasks, n, ri, at + 1) ELSE Passed(R4Tasks, n, ri + 1, 1)
             g == [task |-> task, attempt |-> at, attempt_pass |-> how = "pass", model_timed_out |-> FALSE]
             e == [task |-> task, attempt |-> at, error |-> IF how = "timeout" THEN "timeout" ELSE "error"]
  <2>1. /\ pc = "attempt" /\ mi \in 1..Len(cfg.models) /\ ri \in 1..Len(R4Tasks) /\ at \in 1..n
        /\ cfg' = cfg /\ mi' = mi
    BY <1>3 DEF Attempt, TypeInv, LoopInv
  <2>2. R4Tasks' = R4Tasks /\ Model' = Model
    BY <2>1 DEF R4Tasks, Model
  <2>3. /\ R4Tasks \in Seq(Tasks) /\ IsInjective(R4Tasks) /\ n \in Nat /\ n >= 1
        /\ task \in Tasks /\ at \in Attempts
    BY <2>1, <1>t, ConfigAssumption DEF Attempts
  <2>4. g \in Grade /\ e \in Error /\ Named(g) = <<task, at>> /\ Named(e) = <<task, at>>
    BY <2>3 DEF Grade, Error, Named
  <2>5. <<task, at>> \notin W /\ V = W \cup {<<task, at>>}
    <3>1. /\ <<task, at>> \notin W
          /\ at < n => Passed(R4Tasks, n, ri, at + 1) = W \cup {<<task, at>>}
          /\ at >= n => Passed(R4Tasks, n, ri + 1, 1) = W \cup {<<task, at>>}
      <4> DEFINE ts == R4Tasks
      <4>1. ts \in Seq(Tasks) /\ IsInjective(ts) /\ n \in Nat /\ ri \in 1..Len(ts) /\ at \in 1..n
        BY <2>1, <2>3
      <4> HIDE DEF n, ts
      <4>2. \A k \in 1..Len(ts), a \in 1..n :
              /\ <<ts[k], a>> \notin Passed(ts, n, k, a)
              /\ a < n => Passed(ts, n, k, a + 1) = Passed(ts, n, k, a) \cup {<<ts[k], a>>}
              /\ a >= n => Passed(ts, n, k + 1, 1) = Passed(ts, n, k, a) \cup {<<ts[k], a>>}
        BY <4>1, PassedOne, ZenonT(60)
      <4> QED
        BY <4>1, <4>2 DEF ts
    <3>2. at < n \/ at >= n
      BY <2>1, <2>3
    <3> HIDE DEF W, task
    <3> QED
      BY <2>1, <2>3, <3>1, <3>2
  <2>6. Settled(r4, W) /\ Backed(Model.key, r4) /\ r4 \in Memories
    BY <2>1 DEF Run4Inv, Memory4, TypeInv, TypeOK, Memories
  <2>7. /\ r4' = IF how \in {"pass", "fail"} THEN [r4 EXCEPT !.grades = Append(@, g)]
                 ELSE [r4 EXCEPT !.errors = Append(@, e)]
        /\ graded' = IF how \in {"pass", "fail"} THEN graded \cup {<<Model.key, task, at>>} ELSE graded
    BY <1>3 DEF Attempt
  <2>8. Settled(r4', V)
    <3> HIDE DEF g, e, W, V, task
    <3>1. /\ Settled([r4 EXCEPT !.grades = Append(@, g)], W \cup {Named(g)})
          /\ Settled([r4 EXCEPT !.errors = Append(@, e)], W \cup {Named(e)})
      BY <2>4, <2>5, <2>6, SettleOne
    <3> QED
      BY <2>4, <2>5, <2>7, <3>1
  <2>9. Backed(Model.key, r4)'
    <3>1. r4.grades \in Seq(Grade)
      BY <2>6 DEF Memories
    <3>2. CASE how \in {"pass", "fail"}
      <4>1. r4'.grades = Append(r4.grades, g) /\ graded' = graded \cup {<<Model.key, task, at>>}
        BY <2>6, <2>7, <3>2 DEF Memories
      <4>2. g.task = task /\ g.attempt = at /\ g.model_timed_out = FALSE
        OBVIOUS
      <4> HIDE DEF g, task
      <4>3. /\ Len(r4'.grades) = Len(r4.grades) + 1 /\ r4'.grades[Len(r4.grades) + 1] = g
            /\ \A i \in 1..Len(r4.grades) : r4'.grades[i] = r4.grades[i]
            /\ 1..Len(r4'.grades) = (1..Len(r4.grades)) \cup {Len(r4.grades) + 1}
        BY <3>1, <4>1
      <4> QED
        BY <2>2, <2>6, <4>1, <4>2, <4>3 DEF Backed
    <3>3. CASE how \notin {"pass", "fail"}
      <4>1. r4'.grades = r4.grades /\ graded' = graded
        BY <2>6, <2>7, <3>3 DEF Memories
      <4> QED
        BY <2>2, <2>6, <4>1 DEF Backed
    <3> QED
      BY <3>2, <3>3
  <2>a. NextAttempt
    BY <1>3 DEF Attempt
  <2>10. CASE at < n
    <3>1. pc' = "attempt" /\ ri' = ri /\ at' = at + 1
      BY <2>a, <2>1, <2>3, <2>10 DEF NextAttempt
    <3> QED
      BY <2>1, <2>2, <2>8, <2>9, <2>10, <3>1 DEF Memory4
  <2>11. CASE at >= n
    <3>1. /\ ri' = ri + 1 /\ at' = 1
          /\ pc' = IF ri < Len(R4Tasks) THEN "attempt" ELSE "run.json"
      BY <2>a, <2>1, <2>3, <2>11 DEF NextAttempt
    <3>2. Settled(r4', Passed(R4Tasks, n, ri + 1, 1))
      BY <2>1, <2>3, <2>8, <2>11
    <3>3. CASE ri < Len(R4Tasks)
      BY <2>1, <2>2, <2>9, <3>1, <3>2, <3>3 DEF Memory4
    <3>4. CASE ri >= Len(R4Tasks)
      <4>1. ri + 1 = Len(R4Tasks) + 1
        BY <2>1, <2>3, <3>4
      <4>2. Passed(R4Tasks, n, ri + 1, 1) = Range(R4Tasks) \X (1..n)
        BY <2>3, <4>1, PassedNoneAndAll
      <4> QED
        BY <2>1, <2>2, <2>3, <2>9, <3>1, <3>2, <3>4, <4>2 DEF Memory4
    <3> QED
      BY <2>1, <2>3, <3>3, <3>4
  <2> QED
    BY <2>1, <2>3, <2>10, <2>11
<1>4. CASE UNCHANGED vars
  <2>1. R4Tasks' = R4Tasks /\ Model' = Model
    BY <1>4 DEF vars, R4Tasks, Model
  <2> QED
    BY <1>4, <2>1 DEF vars, Run4Inv, Memory4, Backed
<1>5. CASE pc' \notin {"attempt", "run.json", "dump"}
  BY <1>5 DEF Memory4
<1> QED
  BY <1>1, <1>2, <1>3, <1>4, <1>5, Round4Steps

\* Every step keeps every run.json whole.
LEMMA Run4Step == TypeInv /\ OneConfig /\ Run4Inv /\ [Next]_vars => Run4Inv'
<1> SUFFICES ASSUME TypeInv, OneConfig, Run4Inv, [Next]_vars PROVE Run4Inv'
  OBVIOUS
<1> USE DEF disk, proc, loop
<1>1. Memory4'
  BY Memory4Step
<1>2. ASSUME NEW m \in Keys, run4'[m] \notin {Missing, Torn}
      PROVE  Whole4(m)'
  <2>1. CASE run4'[m] = run4[m]
    <3>1. graded \subseteq graded' /\ (snapshot # Missing => snapshot' = snapshot)
      BY EvidenceGrows DEF vars
    <3>2. Whole4(m)
      BY <1>2, <2>1 DEF Run4Inv
    <3> QED
      BY <2>1, <3>1, <3>2 DEF Whole4, Backed
  <2>2. CASE OpenRunJson
    <3>1. run4'[m] \in {Torn, run4[m]}
      BY <2>2 DEF OpenRunJson, TypeInv, TypeOK
    <3> QED
      BY <1>2, <2>1, <3>1
  <2>3. CASE DumpRunJson /\ run4'[m] # run4[m]
    <3> DEFINE p == [tasks |-> R4Tasks, attempts |-> cfg.repetitions,
                     grades |-> r4.grades, errors |-> r4.errors]
    <3>1. /\ pc = "dump" /\ m = Model.key /\ run4'[m] = p /\ UNCHANGED <<snapshot, graded>>
      BY <2>3 DEF DumpRunJson, TypeInv, TypeOK
    <3>2. snapshot = cfg /\ cfg \in Configs /\ mi \in 1..Len(cfg.models) /\ cfg # Missing
      BY <3>1, SentinelAssumption DEF OneConfig, TypeInv, TypeOK, LoopInv
    <3>3. Settled(r4, Range(R4Tasks) \X (1..cfg.repetitions)) /\ Backed(m, r4)
      BY <3>1 DEF Run4Inv, Memory4
    <3>4. Settled(p, Range(R4Tasks) \X (1..cfg.repetitions)) /\ Backed(m, p)
      BY <3>3 DEF Settled, Named4, Backed
    <3>5. p.tasks = R4Tasks /\ p.attempts = cfg.repetitions
      OBVIOUS
    <3>6. R4Tasks = Round4Tasks(snapshot, snapshot.models[mi]) /\ snapshot.models[mi].key = m
      BY <3>1, <3>2 DEF R4Tasks, Model
    <3>7. Backed(m, run4[m])'
      <4>1. \A i \in 1..Len(p.grades) :
               <<m, p.grades[i].task, p.grades[i].attempt>> \in graded' /\ ~p.grades[i].model_timed_out
        BY <3>1, <3>4 DEF Backed
      <4> HIDE DEF p
      <4> QED
        BY <3>1, <4>1 DEF Backed
    <3> HIDE DEF p
    <3> QED
      BY <3>1, <3>2, <3>4, <3>5, <3>6, <3>7 DEF Whole4
  <2> QED
    BY <2>1, <2>2, <2>3, Run4Writes DEF vars
<1> QED
  BY <1>1, <1>2 DEF Run4Inv

\* Round 4 of a bundle: what build_public_result returns validates.
LEMMA Round4Exports ==
    ASSUME NEW p \in Payload4, NEW m, NEW W, Settled(p, W), Backed(m, p)
    PROVE  /\ PublicRound4Validates(p)
           /\ {<<x.item, x.attempt>> : x \in PublicItems4(p)} = W
           /\ {<<m, x.item, x.attempt>> : x \in {y \in PublicItems4(p) : y.status # "INVALID"}}
                \subseteq graded
<1> DEFINE gs == p.grades
           es == p.errors
           G == 1..Len(gs)
           E == 1..Len(es)
           items == PublicItems4(p)
           FromGrade(i) == [item |-> gs[i].task, attempt |-> gs[i].attempt, position |-> i,
                            status |-> IF gs[i].attempt_pass THEN "PASS" ELSE "FAIL"]
           FromError(i) == [item |-> es[i].task, attempt |-> es[i].attempt,
                            position |-> Len(gs) + i, status |-> "INVALID"]
<1>1. gs \in Seq(Grade) /\ es \in Seq(Error) /\ Len(gs) \in Nat
  BY DEF Payload4
<1>2. /\ \A i \in G : <<gs[i].task, gs[i].attempt>> \in W
      /\ \A i \in E : <<es[i].task, es[i].attempt>> \in W
      /\ \A w \in W : \/ \E i \in G : w = <<gs[i].task, gs[i].attempt>>
                      \/ \E i \in E : w = <<es[i].task, es[i].attempt>>
      /\ \A i, k \in G : <<gs[i].task, gs[i].attempt>> = <<gs[k].task, gs[k].attempt>> => i = k
      /\ \A i, k \in E : <<es[i].task, es[i].attempt>> = <<es[k].task, es[k].attempt>> => i = k
      /\ \A i \in G, k \in E :
            <<gs[i].task, gs[i].attempt>> # <<es[k].task, es[k].attempt>>
  BY DEF Settled, Named4, Named
<1>3. \A i \in G : <<m, gs[i].task, gs[i].attempt>> \in graded /\ ~gs[i].model_timed_out
  BY DEF Backed
<1>4. items = {FromGrade(i) : i \in G} \cup {FromError(i) : i \in E}
  <2> DEFINE Status(g) == IF g.model_timed_out THEN "INVALID"
                          ELSE IF g.attempt_pass THEN "PASS" ELSE "FAIL"
             known == {<<g.task, g.attempt>> : g \in Range(gs)}
             lost == {i \in 1..Len(es) : <<es[i].task, es[i].attempt>> \notin known}
             A == {[item |-> gs[i].task, attempt |-> gs[i].attempt,
                    position |-> i, status |-> Status(gs[i])] : i \in 1..Len(gs)}
             B == {[item |-> es[i].task, attempt |-> es[i].attempt,
                    position |-> Len(gs) + i, status |-> "INVALID"] : i \in lost}
  <2>1. items = A \cup B
    BY DEF PublicItems4
  <2>2. Range(gs) = {gs[i] : i \in G}
    BY <1>1 DEF Range
  <2>3. \A i \in E : <<es[i].task, es[i].attempt>> \notin known
    BY <1>2, <2>2
  <2>4. lost = E
    BY <2>3
  <2>5. B = {FromError(i) : i \in E}
    BY <2>4
  <2>6. \A i \in G : Status(gs[i]) = IF gs[i].attempt_pass THEN "PASS" ELSE "FAIL"
    BY <1>3
  <2>7. A = {FromGrade(i) : i \in G}
    <3> HIDE DEF Status
    <3> QED
      BY <2>6
  <2> QED
    BY <2>1, <2>5, <2>7
<1>5. \A x \in items : \/ \E i \in G : x = FromGrade(i)
                       \/ \E i \in E : x = FromError(i)
  BY <1>4
<1>6. (\A i \in G : FromGrade(i) \in items) /\ (\A i \in E : FromError(i) \in items)
  BY <1>4
<1>7. /\ \A i \in G : /\ FromGrade(i).item = gs[i].task /\ FromGrade(i).attempt = gs[i].attempt
                      /\ FromGrade(i).position = i
                      /\ FromGrade(i).status = (IF gs[i].attempt_pass THEN "PASS" ELSE "FAIL")
      /\ \A i \in E : /\ FromError(i).item = es[i].task /\ FromError(i).attempt = es[i].attempt
                      /\ FromError(i).position = Len(gs) + i /\ FromError(i).status = "INVALID"
  OBVIOUS
<1> HIDE DEF items, FromGrade, FromError, gs, es, G, E
<1>8. ItemsAreUnique(items)
  <2> SUFFICES ASSUME NEW x \in items, NEW y \in items, x.item = y.item, x.attempt = y.attempt
               PROVE  x.position = y.position
    BY DEF ItemsAreUnique
  <2>1. CASE \E i \in G : x = FromGrade(i)
    <3>1. PICK i \in G : x = FromGrade(i)
      BY <2>1
    <3>2. \A k \in E : y # FromError(k)
      BY <1>2, <1>7, <3>1
    <3>3. PICK k \in G : y = FromGrade(k)
      BY <1>5, <3>2
    <3> QED
      BY <1>2, <1>7, <3>1, <3>3
  <2>2. CASE \E i \in E : x = FromError(i)
    <3>1. PICK i \in E : x = FromError(i)
      BY <2>2
    <3>2. \A k \in G : y # FromGrade(k)
      BY <1>2, <1>7, <3>1
    <3>3. PICK k \in E : y = FromError(k)
      BY <1>5, <3>2
    <3> QED
      BY <1>2, <1>7, <3>1, <3>3
  <2> QED
    BY <1>5, <2>1, <2>2
<1>9. {<<x.item, x.attempt>> : x \in items} = W
  <2>1. ASSUME NEW x \in items PROVE <<x.item, x.attempt>> \in W
    BY <1>2, <1>5, <1>7
  <2>2. ASSUME NEW w \in W PROVE \E x \in items : w = <<x.item, x.attempt>>
    BY <1>2, <1>6, <1>7
  <2> QED
    BY <2>1, <2>2
<1>10. {<<m, x.item, x.attempt>> : x \in {y \in items : y.status # "INVALID"}} \subseteq graded
  <2> SUFFICES ASSUME NEW x \in items, x.status # "INVALID" PROVE <<m, x.item, x.attempt>> \in graded
    OBVIOUS
  <2>1. PICK i \in G : x = FromGrade(i)
    BY <1>5, <1>7
  <2> QED
    BY <1>3, <1>7, <2>1
<1>11. CollectRound4(p).release_ready = Cardinality({x \in items : x.status = "PASS"})
  <2> DEFINE K == {i \in G : gs[i].attempt_pass}
             X == {x \in items : x.status = "PASS"}
             f == [i \in K |-> FromGrade(i)]
  <2>1. CollectRound4(p).release_ready = Cardinality(K)
    BY DEF CollectRound4, CountRows, G, gs
  <2>2. f \in [K -> X]
    BY <1>6, <1>7
  <2>3. \A i, k \in K : f[i] = f[k] => i = k
    BY <1>7
  <2>4. \A x \in X : \E i \in K : f[i] = x
    <3> SUFFICES ASSUME NEW x \in X PROVE \E i \in K : f[i] = x
      OBVIOUS
    <3>1. PICK i \in G : x = FromGrade(i)
      BY <1>5, <1>7
    <3>2. i \in K
      BY <1>7, <3>1
    <3> QED
      BY <3>1, <3>2
  <2>5. IsFiniteSet(K)
    <3>1. IsFiniteSet(G)
      BY <1>1, UpTo DEF G
    <3> QED
      BY <3>1, FS_Subset
  <2> HIDE DEF K, X, f
  <2>6. f \in Bijection(K, X)
    BY <2>2, <2>3, <2>4 DEF Bijection, Injection, Surjection, IsInjective
  <2>7. Cardinality(X) = Cardinality(K)
    BY <2>5, <2>6, FS_Bijection DEF ExistsBijection
  <2> QED
    BY <2>1, <2>7 DEF X
<1>12. PublicRound4Validates(p)
  BY <1>8, <1>11 DEF PublicRound4Validates, items
<1> QED
  BY <1>9, <1>10, <1>12 DEF items

\* What ExportValidates says of one model.
ExportsOf(m) ==
    /\ \A r \in 1..3 : (r = 3 /\ CutButCorrect(m)) \/
         /\ PublicRoundValidates(result, m, r)
         /\ \A a \in SavedAttempts(result, m, r) :
              {x.item : x \in {y \in PublicItems(result, m, r) : y.attempt = a}}
                = Range(Questions(ModelOf(snapshot, m), r))
    /\ run4[m] # Missing =>
         /\ PublicRound4Validates(run4[m])
         /\ {<<x.item, x.attempt>> : x \in PublicItems4(run4[m])}
              = Range(Round4Tasks(snapshot, ModelOf(snapshot, m)))
                  \X (1..snapshot.repetitions)
         /\ {<<m, x.item, x.attempt>> :
               x \in {y \in PublicItems4(run4[m]) : y.status # "INVALID"}} \subseteq graded

\* There is no summary of a directory without a configuration.
SummaryInv == summary # Missing => snapshot # Missing

\* A summary is only written by a process, and a process has saved its configuration.
LEMMA SummaryStep == TypeInv /\ OneConfig /\ SummaryInv /\ [Next]_vars => SummaryInv'
<1> SUFFICES ASSUME TypeInv, OneConfig, SummaryInv, [Next]_vars PROVE SummaryInv'
  OBVIOUS
<1> USE DEF disk
<1>1. CASE UNCHANGED vars
  BY <1>1 DEF vars, SummaryInv
<1>2. CASE Next
  <2>1. snapshot # Missing => snapshot' = snapshot
    BY <1>2, EvidenceGrows
  <2>2. CASE SaveSummary
    BY <2>1, <2>2, SentinelAssumption DEF SaveSummary, OneConfig, SummaryInv, TypeInv, TypeOK
  <2>3. CASE summary' = summary
    BY <2>1, <2>3 DEF SummaryInv
  <2>4. summary' = summary \/ SaveSummary
    BY <1>2 DEF Next, Step, Invoke, Refuse, InvokeReport, SkipUnit, StartUnit, Ask, SkipRound4,
         RejectRound4, StartRound4, FailPreflight, Attempt, OpenRunJson, DumpRunJson, SaveResult,
         RejectCollect, OpenReport, WriteReport, Finish, Kill
  <2> QED
    BY <2>2, <2>3, <2>4
<1> QED
  BY <1>1, <1>2

\* Whatever was killed, resumed or retried before, the evidence of a directory with
\* a summary makes a bundle that validates: the sums of collect are the counts of the
\* item outcomes, each outcome is there once, and the outcomes are those of the plan.
THEOREM ExportAlwaysValidates == Spec => []ExportValidates
<1>1. Init => ResultsInv /\ RetryInv /\ Run4Inv /\ SummaryInv
  BY DEF Init, ResultsInv, OneConfig, RowsInv, ResultsComplete, RetryInv, AskedInv, CountersInv,
         Run4Inv, Memory4, SummaryInv
<1>2. ResultsInv => OneConfig
  BY DEF ResultsInv
<1>3. TypeInv /\ ResultsInv /\ RetryInv /\ Run4Inv /\ SummaryInv => ExportValidates
  <2> SUFFICES ASSUME TypeInv, ResultsInv, RetryInv, Run4Inv, SummaryInv, summary # Missing,
                      Collectable(run4, ConfigKeys(snapshot)), NEW k \in ConfigKeys(snapshot)
               PROVE  ExportsOf(k)
    BY DEF ExportValidates, ExportsOf
  <2>0. PICK j \in 1..Len(snapshot.models) : k = snapshot.models[j].key
    BY DEF ConfigKeys
  <2> DEFINE m == snapshot.models[j].key
  <2>1. snapshot # Missing /\ snapshot \in Configs
    BY DEF SummaryInv, TypeInv, TypeOK
  <2>2. ModelOf(snapshot, m) = snapshot.models[j] /\ m \in Keys
    BY <2>1, ModelOfKey, PlanFacts
  <2>3. ASSUME NEW r \in 1..3, ~(r = 3 /\ CutButCorrect(m))
        PROVE  /\ PublicRoundValidates(result, m, r)
               /\ \A a \in SavedAttempts(result, m, r) :
                    {x.item : x \in {y \in PublicItems(result, m, r) : y.attempt = a}}
                      = Range(Questions(ModelOf(snapshot, m), r))
    BY <2>1, <2>2, <2>3, RoundExports
  <2>4. ASSUME run4[m] # Missing
        PROVE  /\ PublicRound4Validates(run4[m])
               /\ {<<x.item, x.attempt>> : x \in PublicItems4(run4[m])}
                    = Range(Round4Tasks(snapshot, ModelOf(snapshot, m))) \X (1..snapshot.repetitions)
               /\ {<<m, x.item, x.attempt>> :
                     x \in {y \in PublicItems4(run4[m]) : y.status # "INVALID"}} \subseteq graded
    <3> DEFINE p == run4[m]
               W == Range(Round4Tasks(snapshot, snapshot.models[j])) \X (1..snapshot.repetitions)
    <3>1. p # Torn
      BY DEF Collectable, ConfigKeys
    <3>2. p \in Payload4 /\ Whole4(m)
      BY <2>2, <2>4, <3>1 DEF TypeInv, TypeOK, Run4Inv
    <3>3. PICK i \in 1..Len(snapshot.models) :
             /\ snapshot.models[i].key = m
             /\ Settled(p, Range(Round4Tasks(snapshot, snapshot.models[i])) \X (1..snapshot.repetitions))
      BY <3>2 DEF Whole4
    <3>4. snapshot.models[i] = snapshot.models[j]
      BY <2>1, <2>2, <3>3, ModelOfKey
    <3>5. Settled(p, W) /\ Backed(m, p)
      BY <3>2, <3>3, <3>4 DEF Whole4
    <3> HIDE DEF p, W, m
    <3>6. /\ PublicRound4Validates(p)
          /\ {<<x.item, x.attempt>> : x \in PublicItems4(p)} = W
          /\ {<<m, x.item, x.attempt>> : x \in {y \in PublicItems4(p) : y.status # "INVALID"}}
                \subseteq graded
      BY <3>2, <3>5, Round4Exports
    <3> QED
      BY <2>2, <3>6 DEF p, W
  <2> HIDE DEF m
  <2>5. ExportsOf(m)
    BY <2>3, <2>4 DEF ExportsOf
  <2> QED
    BY <2>0, <2>5 DEF m
<1> QED
  BY <1>1, <1>2, <1>3, ResultsStep, RetryStep, Run4Step, SummaryStep, TypeInvariant, PTL DEF Spec

-----------------------------------------------------------------------------
(***************************************************************************)
(* The progress bar.  `completed` is the number of the units of the plan   *)
(* that the loops have passed: Done, a set of elements of Work, described  *)
(* by the place of the process.                                            *)
(***************************************************************************)
At(i, r, a, k) == <<<<i, r>>, <<a, k>>>>

\* The units of the models before the i-th, of the reasoning rounds of the i-th
\* one, of those the loops over its rounds and attempts have passed with n
\* questions asked in the current unit, and those passed in its round 4.
Before(c, i) == {w \in Work(c) : w[1][1] < i}

Reasoned(c, i) == {w \in Work(c) : w[1][1] = i /\ w[1][2] # 4}

Asked(c, i, k, a, n) ==
    LET order == ReasoningRounds(c.models[i])
    IN {w \in Work(c) : /\ w[1][1] = i
                        /\ \E p \in 1..Len(order) :
                             /\ w[1][2] = order[p]
                             /\ \/ p < k
                                \/ p = k /\ (w[2][1] < a \/ (w[2][1] = a /\ w[2][2] <= n))}

Attempted(c, i, k, a) ==
    {w \in Work(c) : /\ w[1][1] = i /\ w[1][2] = 4
                     /\ w[2][2] < k \/ (w[2][2] = k /\ w[2][1] < a)}

\* All the questions of one unit.
UnitWork(c, i, k, a) ==
    LET r == ReasoningRounds(c.models[i])[k]
    IN {At(i, r, a, n) : n \in 1..Len(Questions(c.models[i], r))}

\* The elements of a plan.
LEMMA WorkElement ==
    ASSUME NEW c \in Configs
    PROVE  /\ \A w \in Work(c) :
                /\ w = At(w[1][1], w[1][2], w[2][1], w[2][2])
                /\ w[1][1] \in 1..Len(c.models) /\ w[1][2] \in 1..4
                /\ w[1][2] \in Range(c.models[w[1][1]].rounds)
                /\ w[2][1] \in 1..c.repetitions
                /\ w[2][2] \in 1..ModelRoundUnits(c, c.models[w[1][1]], w[1][2])
           /\ \A i \in 1..Len(c.models) : \A r \in 1..4 : \A a \in 1..c.repetitions :
                r \in Range(c.models[i].rounds) =>
                  \A k \in 1..ModelRoundUnits(c, c.models[i], r) : At(i, r, a, k) \in Work(c)
<1>1. ASSUME NEW w \in Work(c)
      PROVE  /\ w = At(w[1][1], w[1][2], w[2][1], w[2][2])
             /\ w[1][1] \in 1..Len(c.models) /\ w[1][2] \in 1..4
             /\ w[1][2] \in Range(c.models[w[1][1]].rounds)
             /\ w[2][1] \in 1..c.repetitions
             /\ w[2][2] \in 1..ModelRoundUnits(c, c.models[w[1][1]], w[1][2])
  <2>1. PICK x \in Rounds(c) : w \in Share(c, x)
    BY DEF Work
  <2>2. PICK y \in (1..c.repetitions) \X (1..ModelRoundUnits(c, c.models[x[1]], x[2])) : w = <<x, y>>
    BY <2>1 DEF Share
  <2>3. /\ x \in (1..Len(c.models)) \X (1..4) /\ x[2] \in Range(c.models[x[1]].rounds)
        /\ x = <<x[1], x[2]>>
    BY DEF Rounds
  <2>4. y = <<y[1], y[2]>> /\ y[1] \in 1..c.repetitions /\ y[2] \in 1..ModelRoundUnits(c, c.models[x[1]], x[2])
    OBVIOUS
  <2>5. w[1] = x /\ w[2] = y
    BY <2>2
  <2> QED
    BY <2>2, <2>3, <2>4, <2>5 DEF At
<1>2. ASSUME NEW i \in 1..Len(c.models), NEW r \in 1..4, NEW a \in 1..c.repetitions,
             r \in Range(c.models[i].rounds), NEW k \in 1..ModelRoundUnits(c, c.models[i], r)
      PROVE  At(i, r, a, k) \in Work(c)
  <2> DEFINE x == <<i, r>>
  <2>1. x \in Rounds(c) /\ x[1] = i /\ x[2] = r
    BY <1>2 DEF Rounds
  <2>2. <<a, k>> \in (1..c.repetitions) \X (1..ModelRoundUnits(c, c.models[i], r))
    BY <1>2
  <2> HIDE DEF x
  <2>3. <<x, <<a, k>>>> \in Share(c, x)
    BY <2>1, <2>2 DEF Share
  <2>4. <<x, <<a, k>>>> \in Work(c)
    BY <2>1, <2>3 DEF Work
  <2> QED
    BY <2>4 DEF At, x
<1> QED
  BY <1>1, <1>2

\* The order of the reasoning rounds of a model.
LEMMA RoundOrder ==
    ASSUME NEW c \in Configs, NEW i \in 1..Len(c.models)
    PROVE  /\ ReasoningRounds(c.models[i]) \in Seq(1..3)
           /\ Len(ReasoningRounds(c.models[i])) \in Nat
           /\ \A p, q \in 1..Len(ReasoningRounds(c.models[i])) :
                ReasoningRounds(c.models[i])[p] = ReasoningRounds(c.models[i])[q] => p = q
           /\ \A p \in 1..Len(ReasoningRounds(c.models[i])) :
                /\ ReasoningRounds(c.models[i])[p] \in 1..3
                /\ ReasoningRounds(c.models[i])[p] \in Range(c.models[i].rounds)
           /\ \A r \in Range(c.models[i].rounds) \cap (1..4) : r # 4 =>
                \E p \in 1..Len(ReasoningRounds(c.models[i])) : ReasoningRounds(c.models[i])[p] = r
<1> DEFINE order == ReasoningRounds(c.models[i])
           own == Range(c.models[i].rounds)
<1>1. order \in Seq(1..3) /\ Range(order) = own \cap (1..3) /\ IsInjective(order)
  BY PlanAssumption DEF Selected
<1>2. DOMAIN order = 1..Len(order) /\ Range(order) = {order[p] : p \in 1..Len(order)}
  BY <1>1 DEF Range
<1> HIDE DEF order, own
<1>3. \A p, q \in 1..Len(order) : order[p] = order[q] => p = q
  BY <1>1, <1>2 DEF IsInjective
<1>4. \A p \in 1..Len(order) : order[p] \in 1..3 /\ order[p] \in own
  BY <1>1, <1>2
<1>5. \A r \in own \cap (1..4) : r # 4 => \E p \in 1..Len(order) : order[p] = r
  <2>1. \A r \in own \cap (1..4) : r # 4 => r \in own \cap (1..3)
    OBVIOUS
  <2> QED
    BY <1>1, <1>2, <2>1
<1>6. Len(order) \in Nat
  BY <1>1
<1> QED
  BY <1>1, <1>3, <1>4, <1>5, <1>6 DEF order, own

\* One more question of a unit.
LEMMA AskOne ==
    ASSUME NEW c \in Configs, NEW i \in 1..Len(c.models),
           NEW k \in 1..Len(ReasoningRounds(c.models[i])), NEW a \in 1..c.repetitions, NEW n \in Nat,
           n < Len(Questions(c.models[i], ReasoningRounds(c.models[i])[k]))
    PROVE  LET w == At(i, ReasoningRounds(c.models[i])[k], a, n + 1)
           IN /\ w \in Work(c) /\ w \notin Before(c, i) \cup Asked(c, i, k, a, n)
              /\ Asked(c, i, k, a, n + 1) = Asked(c, i, k, a, n) \cup {w}
<1> DEFINE order == ReasoningRounds(c.models[i])
           r == order[k]
           x == At(i, r, a, n + 1)
           W == Work(c)
<1>1. /\ Len(order) \in Nat /\ \A p, q \in 1..Len(order) : order[p] = order[q] => p = q
      /\ r \in 1..3 /\ r \in Range(c.models[i].rounds)
  BY RoundOrder
<1>2. n + 1 \in 1..ModelRoundUnits(c, c.models[i], r)
  <2>1. ModelRoundUnits(c, c.models[i], r) = Len(Questions(c.models[i], r))
    BY <1>1, UnitsOfRound
  <2>2. Questions(c.models[i], r) \in Seq(Items)
    BY <1>1, PlanFacts
  <2> HIDE DEF r
  <2>3. n < Len(Questions(c.models[i], r))
    BY DEF r
  <2> QED
    BY <2>1, <2>2, <2>3
<1>3. x \in W
  <2>1. r \in 1..4
    BY <1>1
  <2> HIDE DEF r
  <2> QED
    BY <1>1, <1>2, <2>1, WorkElement
<1>4. x[1][1] = i /\ x[1][2] = r /\ x[2][1] = a /\ x[2][2] = n + 1
  BY DEF At
<1>5. ASSUME NEW w \in W
      PROVE  /\ w = At(w[1][1], w[1][2], w[2][1], w[2][2])
             /\ w[1][1] \in Nat /\ w[2][1] \in Nat /\ w[2][2] \in Nat
  <2>1. /\ w = At(w[1][1], w[1][2], w[2][1], w[2][2])
        /\ w[1][1] \in 1..Len(c.models) /\ w[2][1] \in 1..c.repetitions
        /\ w[2][2] \in 1..ModelRoundUnits(c, c.models[w[1][1]], w[1][2])
    BY WorkElement
  <2> QED
    BY <2>1, SMTT(40)
<1>6. ASSUME NEW n1 \in Nat
      PROVE  Asked(c, i, k, a, n1) =
               {w \in W : /\ w[1][1] = i
                          /\ \E p \in 1..Len(order) :
                               /\ w[1][2] = order[p]
                               /\ \/ p < k
                                  \/ p = k /\ (w[2][1] < a \/ (w[2][1] = a /\ w[2][2] <= n1))}
  BY DEF Asked
<1>7. Before(c, i) = {w \in W : w[1][1] < i}
  BY DEF Before
<1>8. i \in Nat /\ k \in Nat /\ a \in Nat /\ k \in 1..Len(order) /\ order[k] = r /\ 1..Len(order) \subseteq Nat
  BY <1>1
<1> HIDE DEF order, r, x, W
<1>9. x \notin Before(c, i) \cup Asked(c, i, k, a, n)
  <2>1. x \notin Before(c, i)
    BY <1>4, <1>7, <1>8
  <2>2. x \notin Asked(c, i, k, a, n)
    <3> SUFFICES ASSUME x \in Asked(c, i, k, a, n) PROVE FALSE
      OBVIOUS
    <3>1. PICK p \in 1..Len(order) :
               /\ x[1][2] = order[p]
               /\ \/ p < k
                  \/ p = k /\ (x[2][1] < a \/ (x[2][1] = a /\ x[2][2] <= n))
      BY <1>6
    <3>2. p = k
      BY <1>1, <1>4, <1>8, <3>1
    <3> QED
      BY <1>4, <1>8, <3>1, <3>2
  <2> QED
    BY <2>1, <2>2
<1>10. Asked(c, i, k, a, n + 1) = Asked(c, i, k, a, n) \cup {x}
  <2>1. ASSUME NEW w \in Asked(c, i, k, a, n + 1), w \notin Asked(c, i, k, a, n)
        PROVE  w = x
    <3>1. w \in W /\ w[1][1] = i
      BY <1>6
    <3>2. PICK p \in 1..Len(order) :
               /\ w[1][2] = order[p]
               /\ \/ p < k
                  \/ p = k /\ (w[2][1] < a \/ (w[2][1] = a /\ w[2][2] <= n + 1))
      BY <1>6
    <3>3. p = k /\ w[2][1] = a /\ ~(w[2][2] <= n)
      BY <1>6, <2>1, <3>1, <3>2
    <3>4. w[2][2] = n + 1
      BY <1>5, <3>1, <3>2, <3>3
    <3> QED
      BY <1>5, <1>8, <3>1, <3>2, <3>3, <3>4 DEF x
  <2>2. x \in Asked(c, i, k, a, n + 1)
    BY <1>3, <1>4, <1>6, <1>8
  <2>3. Asked(c, i, k, a, n) \subseteq Asked(c, i, k, a, n + 1)
    <3> SUFFICES ASSUME NEW w \in Asked(c, i, k, a, n) PROVE w \in Asked(c, i, k, a, n + 1)
      OBVIOUS
    <3>1. w \in W /\ w[1][1] = i
      BY <1>6
    <3>2. PICK p \in 1..Len(order) :
               /\ w[1][2] = order[p]
               /\ \/ p < k
                  \/ p = k /\ (w[2][1] < a \/ (w[2][1] = a /\ w[2][2] <= n))
      BY <1>6
    <3>3. w[2][2] <= n => w[2][2] <= n + 1
      BY <1>5, <3>1
    <3> QED
      BY <1>6, <3>1, <3>2, <3>3
  <2> QED
    BY <2>1, <2>2, <2>3
<1> QED
  BY <1>3, <1>9, <1>10 DEF x, r, order, W

\* When all questions of a unit are asked the loops move on.
LEMMA UnitOver ==
    ASSUME NEW c \in Configs, NEW i \in 1..Len(c.models),
           NEW k \in 1..Len(ReasoningRounds(c.models[i])), NEW a \in 1..c.repetitions
    PROVE  LET qs == Questions(c.models[i], ReasoningRounds(c.models[i])[k])
           IN /\ a < c.repetitions => Asked(c, i, k, a + 1, 0) = Asked(c, i, k, a, Len(qs))
              /\ a >= c.repetitions /\ k < Len(ReasoningRounds(c.models[i])) =>
                   Asked(c, i, k + 1, 1, 0) = Asked(c, i, k, a, Len(qs))
              /\ a >= c.repetitions /\ k >= Len(ReasoningRounds(c.models[i])) =>
                   Reasoned(c, i) = Asked(c, i, k, a, Len(qs))
<1> DEFINE order == ReasoningRounds(c.models[i])
           qs == Questions(c.models[i], order[k])
           W == Work(c)
           n == c.repetitions
<1>1. /\ Len(order) \in Nat /\ \A p, q \in 1..Len(order) : order[p] = order[q] => p = q
      /\ \A p \in 1..Len(order) : order[p] \in 1..3
      /\ \A r \in Range(c.models[i].rounds) \cap (1..4) : r # 4 => \E p \in 1..Len(order) : order[p] = r
  BY RoundOrder
<1>2. \A r \in 1..3 : ModelRoundUnits(c, c.models[i], r) = Len(Questions(c.models[i], r))
  BY UnitsOfRound
<1>3. ASSUME NEW w \in W, w[1][1] = i
      PROVE  /\ w[2][1] \in 1..n /\ w[2][2] \in Nat /\ w[2][2] >= 1
             /\ w[1][2] \in Range(c.models[i].rounds) \cap (1..4)
             /\ w[1][2] = order[k] => w[2][2] <= Len(qs)
  <2>1. /\ w[2][1] \in 1..n /\ w[1][2] \in 1..4 /\ w[1][2] \in Range(c.models[i].rounds)
        /\ w[2][2] \in 1..ModelRoundUnits(c, c.models[i], w[1][2])
    BY <1>3, WorkElement
  <2>2. ModelRoundUnits(c, c.models[i], w[1][2]) \in Nat
    BY <2>1, UnitsOfRound
  <2>3. w[1][2] = order[k] => w[2][2] <= Len(qs)
    <3> HIDE DEF order
    <3>1. order[k] \in 1..3
      BY <1>1 DEF order
    <3> QED
      BY <1>2, <2>1, <2>2, <3>1
  <2> QED
    BY <2>1, <2>2, <2>3
<1>4. ASSUME NEW k1, NEW a1, NEW n1, NEW w
      PROVE  w \in Asked(c, i, k1, a1, n1) <=>
               /\ w \in W /\ w[1][1] = i
               /\ \E p \in 1..Len(order) :
                    /\ w[1][2] = order[p]
                    /\ \/ p < k1
                       \/ p = k1 /\ (w[2][1] < a1 \/ (w[2][1] = a1 /\ w[2][2] <= n1))
  BY DEF Asked
<1>5. Reasoned(c, i) = {w \in W : w[1][1] = i /\ w[1][2] # 4}
  BY DEF Reasoned
<1>6. /\ n \in Nat /\ n >= 1 /\ a \in 1..n /\ k \in 1..Len(order) /\ Len(qs) \in Nat
  <2>1. n \in Nat /\ n >= 1 /\ a \in 1..n /\ k \in 1..Len(order)
    BY PlanFacts
  <2>2. qs \in Seq(Items)
    <3>1. order[k] \in 1..3
      BY <1>1
    <3> HIDE DEF order
    <3> QED
      BY <3>1, PlanFacts
  <2> HIDE DEF qs, n, order
  <2> QED
    BY <2>1, <2>2
<1> HIDE DEF order, qs, W, n
<1>7. ASSUME NEW w \in W, w[1][1] = i, NEW p \in 1..Len(order), w[1][2] = order[p]
      PROVE  /\ p = k => w[2][2] <= Len(qs) /\ ~(w[2][2] <= 0) /\ w[2][1] \in Nat
             /\ a >= n => w[2][1] <= a /\ (w[2][1] < a \/ w[2][1] = a)
             /\ w[2][1] < a + 1 <=> (w[2][1] < a \/ w[2][1] = a)
             /\ ~(w[2][2] <= 0) /\ ~(w[2][1] < 1)
  <2>1. w[2][1] \in 1..n /\ w[2][2] \in Nat /\ w[2][2] >= 1
    BY <1>3, <1>7
  <2>2. p = k => w[2][2] <= Len(qs)
    BY <1>3, <1>7
  <2>3. /\ w[2][1] \in Nat /\ a \in Nat /\ n \in Nat /\ w[2][1] >= 1 /\ w[2][1] <= n
    BY <1>6, <2>1
  <2> DEFINE y == w[2][1]
             z == w[2][2]
  <2>a. y \in Nat /\ z \in Nat /\ a \in Nat /\ n \in Nat /\ y >= 1 /\ y <= n /\ z >= 1
    BY <2>1, <2>3
  <2> HIDE DEF y, z
  <2>4. /\ a >= n => y <= a /\ (y < a \/ y = a)
        /\ y < a + 1 <=> (y < a \/ y = a)
        /\ ~(z <= 0) /\ ~(y < 1)
    BY <2>a
  <2> QED
    BY <2>2, <2>3, <2>4 DEF y, z
<1>8. ASSUME a < n PROVE Asked(c, i, k, a + 1, 0) = Asked(c, i, k, a, Len(qs))
  <2>1. ASSUME NEW w \in W, w[1][1] = i, NEW p \in 1..Len(order), w[1][2] = order[p]
        PROVE  (\/ p < k
                \/ p = k /\ (w[2][1] < a + 1 \/ (w[2][1] = a + 1 /\ w[2][2] <= 0)))
               <=>
               (\/ p < k
                \/ p = k /\ (w[2][1] < a \/ (w[2][1] = a /\ w[2][2] <= Len(qs))))
    BY <1>7, <2>1
  <2>3. ASSUME NEW w \in W, w[1][1] = i
        PROVE  w \in Asked(c, i, k, a + 1, 0) <=> w \in Asked(c, i, k, a, Len(qs))
    BY <1>4, <2>1, <2>3
  <2>4. ASSUME NEW w \in Asked(c, i, k, a + 1, 0) \cup Asked(c, i, k, a, Len(qs))
        PROVE  w \in W /\ w[1][1] = i
    BY <1>4
  <2>5. \A w : w \in Asked(c, i, k, a + 1, 0) <=> w \in Asked(c, i, k, a, Len(qs))
    BY <2>3, <2>4
  <2> QED
    BY <2>5
<1>9. ASSUME a >= n, k < Len(order) PROVE Asked(c, i, k + 1, 1, 0) = Asked(c, i, k, a, Len(qs))
  <2>1. ASSUME NEW w \in W, w[1][1] = i, NEW p \in 1..Len(order), w[1][2] = order[p]
        PROVE  (\/ p < k + 1
                \/ p = k + 1 /\ (w[2][1] < 1 \/ (w[2][1] = 1 /\ w[2][2] <= 0)))
               <=>
               (\/ p < k
                \/ p = k /\ (w[2][1] < a \/ (w[2][1] = a /\ w[2][2] <= Len(qs))))
    <3>1. p < k + 1 <=> (p < k \/ p = k)
      BY <1>1, <1>6
    <3> QED
      BY <1>7, <1>9, <2>1, <3>1
  <2>3. ASSUME NEW w \in W, w[1][1] = i
        PROVE  w \in Asked(c, i, k + 1, 1, 0) <=> w \in Asked(c, i, k, a, Len(qs))
    BY <1>4, <2>1, <2>3
  <2>4. ASSUME NEW w \in Asked(c, i, k + 1, 1, 0) \cup Asked(c, i, k, a, Len(qs))
        PROVE  w \in W /\ w[1][1] = i
    BY <1>4
  <2>5. \A w : w \in Asked(c, i, k + 1, 1, 0) <=> w \in Asked(c, i, k, a, Len(qs))
    BY <2>3, <2>4
  <2> QED
    BY <2>5
<1>10. ASSUME a >= n, k >= Len(order) PROVE Reasoned(c, i) = Asked(c, i, k, a, Len(qs))
  <2>1. ASSUME NEW w \in W, w[1][1] = i
        PROVE  w[1][2] # 4 <=>
               \E p \in 1..Len(order) :
                 /\ w[1][2] = order[p]
                 /\ \/ p < k
                    \/ p = k /\ (w[2][1] < a \/ (w[2][1] = a /\ w[2][2] <= Len(qs)))
    <3>1. CASE w[1][2] # 4
      <4>1. PICK p \in 1..Len(order) : order[p] = w[1][2]
        BY <1>1, <1>3, <2>1, <3>1
      <4>2. p < k \/ p = k
        BY <1>1, <1>6, <1>10
      <4> QED
        BY <1>7, <1>10, <2>1, <3>1, <4>1, <4>2
    <3>2. CASE w[1][2] = 4
      <4>1. \A p \in 1..Len(order) : order[p] # 4
        BY <1>1
      <4> QED
        BY <3>2, <4>1
    <3> QED
      BY <3>1, <3>2
  <2>2. \A w : w \in Asked(c, i, k, a, Len(qs)) <=> w \in Reasoned(c, i)
    BY <1>4, <1>5, <2>1
  <2> QED
    BY <2>2
<1> QED
  BY <1>8, <1>9, <1>10 DEF order, qs, n

\* The questions of one unit that is skipped or worked through.
LEMMA UnitWorkIsNew ==
    ASSUME NEW c \in Configs, NEW i \in 1..Len(c.models),
           NEW k \in 1..Len(ReasoningRounds(c.models[i])), NEW a \in 1..c.repetitions
    PROVE  LET qs == Questions(c.models[i], ReasoningRounds(c.models[i])[k])
           IN /\ Asked(c, i, k, a, Len(qs)) = Asked(c, i, k, a, 0) \cup UnitWork(c, i, k, a)
              /\ UnitWork(c, i, k, a) \cap (Before(c, i) \cup Asked(c, i, k, a, 0)) = {}
              /\ IsFiniteSet(UnitWork(c, i, k, a)) /\ Cardinality(UnitWork(c, i, k, a)) = Len(qs)
<1> DEFINE order == ReasoningRounds(c.models[i])
           r == order[k]
           qs == Questions(c.models[i], r)
           U == UnitWork(c, i, k, a)
           N == 1..Len(qs)
<1>1. /\ Len(order) \in Nat /\ \A p, q \in 1..Len(order) : order[p] = order[q] => p = q
      /\ r \in 1..3 /\ r \in Range(c.models[i].rounds) /\ k \in 1..Len(order)
  BY RoundOrder
<1>2. Len(qs) \in Nat /\ ModelRoundUnits(c, c.models[i], r) = Len(qs)
  <2>1. ModelRoundUnits(c, c.models[i], r) = Len(qs)
    BY <1>1, UnitsOfRound
  <2>2. qs \in Seq(Items)
    BY <1>1, PlanFacts
  <2> QED
    BY <2>1, <2>2
<1>3. U = {At(i, r, a, n) : n \in N}
  BY DEF UnitWork
<1>4. \A n : At(i, r, a, n)[1][1] = i /\ At(i, r, a, n)[1][2] = r
             /\ At(i, r, a, n)[2][1] = a /\ At(i, r, a, n)[2][2] = n
  BY DEF At
<1>5. ASSUME NEW n1, NEW w
      PROVE  w \in Asked(c, i, k, a, n1) <=>
               /\ w \in Work(c) /\ w[1][1] = i
               /\ \E p \in 1..Len(order) :
                    /\ w[1][2] = order[p]
                    /\ \/ p < k
                       \/ p = k /\ (w[2][1] < a \/ (w[2][1] = a /\ w[2][2] <= n1))
  BY DEF Asked
<1>6. a \in Nat /\ k \in Nat /\ i \in Nat
  BY <1>1
<1>7. ASSUME NEW w \in Work(c), w[1][1] = i
      PROVE  /\ w = At(i, w[1][2], w[2][1], w[2][2]) /\ w[2][2] \in Nat /\ w[2][2] >= 1
             /\ w[1][2] = r => w[2][2] <= Len(qs)
  <2>1. /\ w = At(w[1][1], w[1][2], w[2][1], w[2][2]) /\ w[1][2] \in 1..4
        /\ w[2][2] \in 1..ModelRoundUnits(c, c.models[i], w[1][2])
    BY <1>7, WorkElement
  <2>2. ModelRoundUnits(c, c.models[i], w[1][2]) \in Nat
    BY <2>1, UnitsOfRound
  <2> HIDE DEF r, qs
  <2>3. w[1][2] = r => w[2][2] <= Len(qs)
    BY <1>2, <2>1, <2>2
  <2> QED
    BY <1>7, <2>1, <2>2, <2>3
<1>8. ASSUME NEW n \in N
      PROVE  /\ At(i, r, a, n) \in Work(c)
             /\ At(i, r, a, n) \notin Before(c, i) /\ At(i, r, a, n) \notin Asked(c, i, k, a, 0)
             /\ At(i, r, a, n) \in Asked(c, i, k, a, Len(qs))
  <2> DEFINE x == At(i, r, a, n)
  <2>1. x \in Work(c)
    <3>1. r \in 1..4 /\ n \in 1..ModelRoundUnits(c, c.models[i], r)
      BY <1>1, <1>2
    <3> HIDE DEF r
    <3> QED
      BY <1>1, <3>1, WorkElement
  <2>2. x[1][1] = i /\ x[1][2] = r /\ x[2][1] = a /\ x[2][2] = n
    BY <1>4
  <2>3. n \in Nat /\ n >= 1 /\ n <= Len(qs)
    BY <1>2
  <2> HIDE DEF x, r, qs, order, N
  <2>4. x \notin Before(c, i)
    BY <1>6, <2>2 DEF Before
  <2>5. ASSUME NEW p \in 1..Len(order), r = order[p] PROVE p = k
    BY <1>1, <2>5 DEF r
  <2>6. x \notin Asked(c, i, k, a, 0)
    <3>1. ~(n <= 0) /\ ~(a < a) /\ ~(k < k)
      BY <1>6, <2>3
    <3> QED
      BY <1>5, <2>2, <2>5, <3>1
  <2>7. x \in Asked(c, i, k, a, Len(qs))
    BY <1>1, <1>5, <2>1, <2>2, <2>3 DEF r
  <2> QED
    BY <2>1, <2>4, <2>6, <2>7 DEF x
<1>9. \A w : w \in Asked(c, i, k, a, Len(qs)) <=> w \in Asked(c, i, k, a, 0) \cup U
  <2>1. ASSUME NEW w \in Asked(c, i, k, a, 0) PROVE w \in Asked(c, i, k, a, Len(qs))
    <3>1. w \in Work(c) /\ w[1][1] = i
      BY <1>5
    <3>2. w[2][2] \in Nat /\ w[2][2] >= 1
      BY <1>7, <3>1
    <3>3. ~(w[2][2] <= 0)
      BY <3>2
    <3> QED
      BY <1>5, <3>1, <3>3
  <2>2. ASSUME NEW w \in Asked(c, i, k, a, Len(qs)), w \notin Asked(c, i, k, a, 0)
        PROVE  w \in U
    <3>1. w \in Work(c) /\ w[1][1] = i
      BY <1>5
    <3>2. PICK p \in 1..Len(order) :
                    /\ w[1][2] = order[p]
                    /\ \/ p < k
                       \/ p = k /\ (w[2][1] < a \/ (w[2][1] = a /\ w[2][2] <= Len(qs)))
      BY <1>5
    <3>3. p = k /\ w[2][1] = a
      BY <1>5, <2>2, <3>1, <3>2
    <3>4. w = At(i, r, a, w[2][2]) /\ w[2][2] \in Nat /\ w[2][2] >= 1 /\ w[2][2] <= Len(qs)
      BY <1>7, <3>1, <3>2, <3>3
    <3> HIDE DEF qs, r, order, U
    <3>5. w[2][2] \in N
      BY <1>2, <3>4
    <3> QED
      BY <1>3, <3>4, <3>5
  <2>3. U \subseteq Asked(c, i, k, a, Len(qs))
    BY <1>3, <1>8
  <2> QED
    BY <2>1, <2>2, <2>3
<1>10. U \cap (Before(c, i) \cup Asked(c, i, k, a, 0)) = {}
  BY <1>3, <1>8
<1>11. IsFiniteSet(U) /\ Cardinality(U) = Len(qs)
  <2> DEFINE f == [n \in N |-> At(i, r, a, n)]
  <2>1. IsFiniteSet(N) /\ Cardinality(N) = Len(qs)
    BY <1>2, UpTo
  <2>2. \A n1, n2 \in N : f[n1] = f[n2] => n1 = n2
    BY <1>4
  <2>3. f \in [N -> U] /\ U = {f[n] : n \in N}
    BY <1>3
  <2> HIDE DEF f, N, U
  <2>4. f \in Bijection(N, U)
    BY <2>2, <2>3 DEF Bijection, Injection, Surjection, IsInjective
  <2>5. IsFiniteSet(U) /\ Cardinality(U) = Cardinality(N)
    BY <2>1, <2>4, FS_Bijection DEF ExistsBijection
  <2> QED
    BY <2>1, <2>5
<1>12. Asked(c, i, k, a, Len(qs)) = Asked(c, i, k, a, 0) \cup U
  BY <1>9
<1> QED
  BY <1>10, <1>11, <1>12

\* The end of a model, and the start of the next one.
LEMMA ModelOver ==
    ASSUME NEW c \in Configs, NEW i \in 1..Len(c.models)
    PROVE  /\ 4 \notin Range(c.models[i].rounds) =>
                Before(c, i + 1) = Before(c, i) \cup Reasoned(c, i)
           /\ 4 \in Range(c.models[i].rounds) =>
                /\ Before(c, i + 1) = (Before(c, i) \cup Reasoned(c, i)) \cup Share(c, <<i, 4>>)
                /\ (Before(c, i) \cup Reasoned(c, i)) \cap Share(c, <<i, 4>>) = {}
           /\ ReasoningRounds(c.models[i]) # <<>> => Asked(c, i, 1, 1, 0) = {}
           /\ ReasoningRounds(c.models[i]) = <<>> => Reasoned(c, i) = {}
           /\ Before(c, 1) = {} /\ Before(c, Len(c.models) + 1) = Work(c)
<1> DEFINE W == Work(c)
           own == Range(c.models[i].rounds)
           order == ReasoningRounds(c.models[i])
           S == Share(c, <<i, 4>>)
<1>1. ASSUME NEW w \in W
      PROVE  /\ w = At(w[1][1], w[1][2], w[2][1], w[2][2])
             /\ w[1][1] \in 1..Len(c.models) /\ w[1][2] \in 1..4
             /\ w[1][2] \in Range(c.models[w[1][1]].rounds)
             /\ w[2][1] \in 1..c.repetitions
             /\ w[2][2] \in 1..ModelRoundUnits(c, c.models[w[1][1]], w[1][2])
  BY WorkElement
<1>2. /\ Before(c, i) = {w \in W : w[1][1] < i}
      /\ Before(c, i + 1) = {w \in W : w[1][1] < i + 1}
      /\ Reasoned(c, i) = {w \in W : w[1][1] = i /\ w[1][2] # 4}
      /\ Before(c, 1) = {w \in W : w[1][1] < 1}
      /\ Before(c, Len(c.models) + 1) = {w \in W : w[1][1] < Len(c.models) + 1}
  BY DEF Before, Reasoned
<1>3. i \in Nat /\ Len(c.models) \in Nat /\ 1..Len(c.models) \subseteq Nat
  BY PlanFacts
<1> HIDE DEF W, own, order, S
<1>4. \A w \in W : w[1][1] < i + 1 <=> (w[1][1] < i \/ w[1][1] = i)
  <2> SUFFICES ASSUME NEW w \in W PROVE w[1][1] < i + 1 <=> (w[1][1] < i \/ w[1][1] = i)
    OBVIOUS
  <2>1. w[1][1] \in Nat
    BY <1>1, <1>3
  <2> QED
    BY <1>3, <2>1
<1>5. ASSUME 4 \notin own PROVE Before(c, i + 1) = Before(c, i) \cup Reasoned(c, i)
  <2>1. \A w \in W : w[1][1] = i => w[1][2] # 4
    BY <1>1, <1>5 DEF own
  <2> QED
    BY <1>2, <1>4, <2>1
<1>6. ASSUME 4 \in own
      PROVE  /\ Before(c, i + 1) = (Before(c, i) \cup Reasoned(c, i)) \cup S
             /\ (Before(c, i) \cup Reasoned(c, i)) \cap S = {}
  <2>1. \A w : w \in S <=> w \in W /\ w[1][1] = i /\ w[1][2] = 4
    <3>1. ASSUME NEW w \in S PROVE w \in W /\ w[1][1] = i /\ w[1][2] = 4
      <4>1. <<i, 4>> \in Rounds(c)
        BY <1>6 DEF Rounds, own
      <4>2. w \in W
        BY <4>1 DEF S, W, Work
      <4>3. w[1] = <<i, 4>>
        BY DEF S, Share
      <4> QED
        BY <4>2, <4>3
    <3>2. ASSUME NEW w \in W, w[1][1] = i, w[1][2] = 4 PROVE w \in S
      <4>1. /\ w = <<<<i, 4>>, <<w[2][1], w[2][2]>>>> /\ w[2][1] \in 1..c.repetitions
            /\ w[2][2] \in 1..ModelRoundUnits(c, c.models[i], 4)
        BY <1>1, <3>2 DEF At
      <4> QED
        BY <4>1 DEF S, Share
    <3> QED
      BY <3>1, <3>2
  <2>2. \A w \in W : w[1][1] = i => ~(w[1][1] < i)
    BY <1>3
  <2>3. \A w : w \in Before(c, i + 1) <=> w \in (Before(c, i) \cup Reasoned(c, i)) \cup S
    BY <1>2, <1>4, <2>1
  <2>4. (Before(c, i) \cup Reasoned(c, i)) \cap S = {}
    BY <1>2, <2>1, <2>2
  <2> QED
    BY <2>3, <2>4
<1>7. ASSUME order # <<>> PROVE Asked(c, i, 1, 1, 0) = {}
  <2>1. ASSUME NEW w \in Asked(c, i, 1, 1, 0) PROVE FALSE
    <3>1. /\ w \in W /\ \E p \in 1..Len(order) :
                     p < 1 \/ (p = 1 /\ (w[2][1] < 1 \/ (w[2][1] = 1 /\ w[2][2] <= 0)))
      BY DEF Asked, W, order
    <3>2. w[2][1] \in 1..c.repetitions /\ w[2][2] \in 1..ModelRoundUnits(c, c.models[w[1][1]], w[1][2])
      BY <1>1, <3>1
    <3>3. ~(w[2][1] < 1) /\ ~(w[2][2] <= 0)
      <4>1. c.repetitions \in Nat /\ ModelRoundUnits(c, c.models[w[1][1]], w[1][2]) \in Nat
        BY <1>1, <3>1, PlanFacts, UnitsOfRound
      <4> QED
        BY <3>2, <4>1
    <3> QED
      BY <3>1, <3>3
  <2> QED
    BY <2>1
<1>8. ASSUME order = <<>> PROVE Reasoned(c, i) = {}
  <2>1. ASSUME NEW w \in Reasoned(c, i) PROVE FALSE
    <3>1. w \in W /\ w[1][1] = i /\ w[1][2] # 4
      BY <1>2
    <3>2. w[1][2] \in own \cap (1..4)
      BY <1>1, <3>1 DEF own
    <3>3. \A r \in own \cap (1..4) : r # 4 => \E p \in 1..Len(order) : order[p] = r
      BY RoundOrder DEF order, own
    <3>4. \E p \in 1..Len(order) : order[p] = w[1][2]
      BY <3>1, <3>2, <3>3
    <3> QED
      BY <1>8, <3>4
  <2> QED
    BY <2>1
<1>9. Before(c, 1) = {} /\ Before(c, Len(c.models) + 1) = W
  <2>1. ASSUME NEW w \in W PROVE ~(w[1][1] < 1) /\ w[1][1] < Len(c.models) + 1
    <3>1. w[1][1] \in 1..Len(c.models)
      BY <1>1
    <3> QED
      BY <1>3, <3>1
  <2> QED
    BY <1>2, <2>1
<1> QED
  BY <1>5, <1>6, <1>7, <1>8, <1>9 DEF own, order, S, W

\* One more attempt at a task.
LEMMA AttemptOne ==
    ASSUME NEW c \in Configs, NEW i \in 1..Len(c.models), 4 \in Range(c.models[i].rounds),
           NEW k \in 1..Len(Round4Tasks(c, c.models[i])), NEW a \in 1..c.repetitions
    PROVE  LET w == At(i, 4, a, k)
               D == Before(c, i) \cup Reasoned(c, i)
           IN /\ w \in Work(c) /\ w \notin D \cup Attempted(c, i, k, a)
              /\ Attempted(c, i, 1, 1) = {}
              /\ a < c.repetitions => Attempted(c, i, k, a + 1) = Attempted(c, i, k, a) \cup {w}
              /\ a >= c.repetitions =>
                   Attempted(c, i, k + 1, 1) = Attempted(c, i, k, a) \cup {w}
              /\ a >= c.repetitions /\ k >= Len(Round4Tasks(c, c.models[i])) =>
                   Before(c, i + 1) = D \cup (Attempted(c, i, k, a) \cup {w})
<1> DEFINE W == Work(c)
           n == c.repetitions
           m == Len(Round4Tasks(c, c.models[i]))
           x == At(i, 4, a, k)
           D == Before(c, i) \cup Reasoned(c, i)
<1>1. /\ n \in Nat /\ n >= 1 /\ m \in Nat /\ ModelRoundUnits(c, c.models[i], 4) = m
      /\ a \in 1..n /\ k \in 1..m /\ i \in Nat
  <2>1. Round4Tasks(c, c.models[i]) \in Seq(Tasks)
    BY PlanFacts
  <2>2. m \in Nat
    BY <2>1
  <2>3. n \in Nat /\ n >= 1 /\ ModelRoundUnits(c, c.models[i], 4) = m
    BY PlanFacts, UnitsOfRound
  <2>4. a \in 1..n /\ k \in 1..m /\ i \in Nat
    OBVIOUS
  <2> QED
    BY <2>2, <2>3, <2>4
<1>2. x \in W
  BY <1>1, WorkElement
<1>3. x[1][1] = i /\ x[1][2] = 4 /\ x[2][1] = a /\ x[2][2] = k
  BY DEF At
<1>4. ASSUME NEW w \in W, w[1][1] = i, w[1][2] = 4
      PROVE  /\ w = At(i, 4, w[2][1], w[2][2]) /\ w[2][1] \in Nat /\ w[2][2] \in Nat
             /\ w[2][1] >= 1 /\ w[2][1] <= n /\ w[2][2] >= 1 /\ w[2][2] <= m
  <2>1. /\ w = At(w[1][1], w[1][2], w[2][1], w[2][2]) /\ w[2][1] \in 1..n
        /\ w[2][2] \in 1..ModelRoundUnits(c, c.models[i], 4)
    BY <1>4, WorkElement
  <2>2. w[2][2] \in 1..m
    BY <1>1, <2>1
  <2> HIDE DEF n, m
  <2> QED
    BY <1>1, <1>4, <2>1, <2>2
<1>5. ASSUME NEW k1, NEW a1, NEW w
      PROVE  w \in Attempted(c, i, k1, a1) <=>
               /\ w \in W /\ w[1][1] = i /\ w[1][2] = 4
               /\ w[2][2] < k1 \/ (w[2][2] = k1 /\ w[2][1] < a1)
  BY DEF Attempted
<1>6. \A w : w \in D <=> w \in W /\ (w[1][1] < i \/ (w[1][1] = i /\ w[1][2] # 4))
  BY DEF Before, Reasoned
<1>7. \A w : w \in Before(c, i + 1) <=> w \in W /\ w[1][1] < i + 1
  BY DEF Before
<1> HIDE DEF W, n, m, x, D
<1>8. x \notin D /\ x \notin Attempted(c, i, k, a)
  BY <1>1, <1>3, <1>5, <1>6
<1>9. Attempted(c, i, 1, 1) = {}
  <2>1. ASSUME NEW w \in Attempted(c, i, 1, 1) PROVE FALSE
    <3>1. w \in W /\ w[1][1] = i /\ w[1][2] = 4 /\ (w[2][2] < 1 \/ (w[2][2] = 1 /\ w[2][1] < 1))
      BY <1>5
    <3> QED
      BY <1>4, <3>1
  <2> QED
    BY <2>1
<1>a. \A w : (w \in W /\ w[1][1] = i /\ w[1][2] = 4 /\ w[2][2] = k /\ w[2][1] = a) <=> w = x
  BY <1>2, <1>3, <1>4 DEF x
<1>10. ASSUME a < n PROVE Attempted(c, i, k, a + 1) = Attempted(c, i, k, a) \cup {x}
  <2>1. \A w \in W : w[1][1] = i /\ w[1][2] = 4 => (w[2][1] < a + 1 <=> (w[2][1] < a \/ w[2][1] = a))
    BY <1>1, <1>4, SMTT(40)
  <2>2. \A w : w \in Attempted(c, i, k, a + 1) <=> w \in Attempted(c, i, k, a) \cup {x}
    BY <1>5, <1>a, <2>1
  <2> QED
    BY <2>2
<1>11. ASSUME a >= n PROVE Attempted(c, i, k + 1, 1) = Attempted(c, i, k, a) \cup {x}
  <2>1. ASSUME NEW w \in W, w[1][1] = i, w[1][2] = 4
        PROVE  /\ w[2][2] < k + 1 <=> (w[2][2] < k \/ w[2][2] = k)
               /\ w[2][1] < a \/ w[2][1] = a
               /\ ~(w[2][1] < 1)
    <3>1. /\ w[2][1] \in Nat /\ w[2][2] \in Nat /\ w[2][1] >= 1 /\ w[2][1] <= n
      BY <1>4, <2>1
    <3> QED
      BY <1>1, <1>11, <3>1, SMTT(40)
  <2>2. \A w : w \in Attempted(c, i, k + 1, 1) <=> w \in Attempted(c, i, k, a) \cup {x}
    BY <1>5, <1>a, <2>1
  <2> QED
    BY <2>2
<1>12. ASSUME a >= n, k >= m PROVE Before(c, i + 1) = D \cup (Attempted(c, i, k, a) \cup {x})
  <2>1. ASSUME NEW w \in W, w[1][1] = i, w[1][2] = 4
        PROVE  w[2][2] < k + 1
    <3>1. w[2][2] \in Nat /\ w[2][2] <= m
      BY <1>4, <2>1
    <3> QED
      BY <1>1, <1>12, <3>1
  <2>2. \A w \in W : w[1][1] < i + 1 <=> (w[1][1] < i \/ w[1][1] = i)
    <3> SUFFICES ASSUME NEW w \in W PROVE w[1][1] < i + 1 <=> (w[1][1] < i \/ w[1][1] = i)
      OBVIOUS
    <3>1. w[1][1] \in 1..Len(c.models) /\ Len(c.models) \in Nat
      BY WorkElement, PlanFacts DEF W
    <3>2. w[1][1] \in Nat
      BY <3>1
    <3> QED
      BY <1>1, <3>2
  <2>3. \A w : w \in Attempted(c, i, k + 1, 1) <=> w \in W /\ w[1][1] = i /\ w[1][2] = 4
    BY <1>5, <2>1
  <2>4. \A w : w \in Before(c, i + 1) <=> w \in D \cup Attempted(c, i, k + 1, 1)
    BY <1>6, <1>7, <2>2, <2>3
  <2>5. Before(c, i + 1) = D \cup Attempted(c, i, k + 1, 1)
    BY <2>4
  <2> QED
    BY <1>11, <1>12, <2>5
<1> QED
  BY <1>2, <1>8, <1>9, <1>10, <1>11, <1>12 DEF x, D, n, m, W

\* What the loops have passed.
Done ==
    CASE pc \in {"unit", "ask"} -> Before(cfg, mi) \cup Asked(cfg, mi, ri, at, Len(rows))
      [] pc = "round4"  -> Before(cfg, mi) \cup Reasoned(cfg, mi)
      [] pc = "attempt" -> (Before(cfg, mi) \cup Reasoned(cfg, mi)) \cup Attempted(cfg, mi, ri, at)
      [] pc \in {"run.json", "dump"} -> Before(cfg, mi + 1)
      [] OTHER -> Work(cfg)

\* A part of the plan has at most CampaignUnits elements.
LEMMA DoneInWork ==
    ASSUME NEW c \in Configs, NEW D, D \subseteq Work(c)
    PROVE  IsFiniteSet(D) /\ Cardinality(D) \in Nat /\ Cardinality(D) <= CampaignUnits(c)
<1>1. IsFiniteSet(Work(c)) /\ Cardinality(Work(c)) = CampaignUnits(c)
  BY PlanSize
<1>2. IsFiniteSet(D) /\ Cardinality(D) <= Cardinality(Work(c))
  BY <1>1, FS_Subset
<1> QED
  BY <1>1, <1>2, FS_CardinalityType

\* A model is entered.
LEMMA DoneStart ==
    ASSUME NEW c \in Configs, NEW i \in 1..Len(c.models), StartModel(c, i), cfg' = c, rows' = <<>>
    PROVE  Done' = Before(c, i)
<1>1. /\ mi' = i /\ ri' = 1 /\ at' = 1 /\ Len(rows') = 0
      /\ pc' = IF ReasoningRounds(c.models[i]) # <<>> THEN "unit" ELSE "round4"
  BY DEF StartModel
<1>2. /\ ReasoningRounds(c.models[i]) # <<>> => Asked(c, i, 1, 1, 0) = {}
      /\ ReasoningRounds(c.models[i]) = <<>> => Reasoned(c, i) = {}
  BY ModelOver
<1>3. CASE ReasoningRounds(c.models[i]) # <<>>
  <2>1. Done' = Before(c, i) \cup Asked(c, i, 1, 1, 0)
    BY <1>1, <1>3 DEF Done
  <2> QED
    BY <1>2, <1>3, <2>1
<1>4. CASE ReasoningRounds(c.models[i]) = <<>>
  <2>1. Done' = Before(c, i) \cup Reasoned(c, i)
    BY <1>1, <1>4 DEF Done
  <2> QED
    BY <1>2, <1>4, <2>1
<1> QED
  BY <1>3, <1>4

\* A model is left.
LEMMA DoneNextModel ==
    ASSUME TypeInv, mi \in 1..Len(cfg.models), NextModel, cfg' = cfg, rows' = <<>>
    PROVE  Done' = Before(cfg, mi + 1)
<1>0. cfg \in Configs /\ Len(cfg.models) \in Nat /\ mi \in Nat
  <2>1. cfg \in Configs
    BY DEF TypeInv, TypeOK
  <2>2. cfg.models \in Seq(ModelConfig)
    BY <2>1, PlanFacts
  <2> QED
    BY <2>1, <2>2
<1>1. CASE mi < Len(cfg.models) /\ StartModel(cfg, mi + 1)
  <2>1. mi + 1 \in 1..Len(cfg.models)
    BY <1>0, <1>1
  <2> QED
    BY <1>0, <1>1, <2>1, DoneStart
<1>2. CASE mi >= Len(cfg.models) /\ pc' \in {"finish", "collect"} /\ UNCHANGED loop
  <2>1. mi + 1 = Len(cfg.models) + 1
    BY <1>0, <1>2
  <2>2. Before(cfg, Len(cfg.models) + 1) = Work(cfg)
    BY <1>0, ModelOver
  <2>3. Done' = Work(cfg)
    BY <1>2 DEF Done
  <2> QED
    BY <2>1, <2>2, <2>3
<1> QED
  BY <1>1, <1>2 DEF NextModel

\* A unit is left, skipped or saved.
LEMMA DoneNextUnit ==
    ASSUME TypeInv, InReasoning, NextUnit, cfg' = cfg, rows' = <<>>
    PROVE  /\ Done' = Before(cfg, mi) \cup Asked(cfg, mi, ri, at, Len(Qs))
           /\ pc = "ask" /\ Len(rows) = Len(Qs) => Done' = Done
           /\ pc = "unit" => /\ Done' = Done \cup UnitWork(cfg, mi, ri, at)
                             /\ Done \cap UnitWork(cfg, mi, ri, at) = {}
                             /\ IsFiniteSet(UnitWork(cfg, mi, ri, at))
                             /\ Cardinality(UnitWork(cfg, mi, ri, at)) = Len(Qs)
<1> DEFINE order == ReasoningRounds(cfg.models[mi])
           qs == Questions(cfg.models[mi], order[ri])
           A(k, a, n) == Asked(cfg, mi, k, a, n)
           U == UnitWork(cfg, mi, ri, at)
<1>1. /\ cfg \in Configs /\ mi \in 1..Len(cfg.models) /\ mi \in Nat
      /\ ri \in 1..Len(order) /\ at \in 1..cfg.repetitions
      /\ Qs = qs /\ order = ReasoningRounds(Model)
  BY DEF TypeInv, TypeOK, LoopInv, Model, Qs, Round
<1>2. cfg.repetitions \in Nat /\ Len(order) \in Nat
  BY <1>1, PlanFacts, RoundOrder
<1>3. /\ at < cfg.repetitions => A(ri, at + 1, 0) = A(ri, at, Len(qs))
      /\ at >= cfg.repetitions /\ ri < Len(order) => A(ri + 1, 1, 0) = A(ri, at, Len(qs))
      /\ at >= cfg.repetitions /\ ri >= Len(order) => Reasoned(cfg, mi) = A(ri, at, Len(qs))
  BY <1>1, UnitOver
<1>4. /\ A(ri, at, Len(qs)) = A(ri, at, 0) \cup U
      /\ U \cap (Before(cfg, mi) \cup A(ri, at, 0)) = {}
      /\ IsFiniteSet(U) /\ Cardinality(U) = Len(qs)
  BY <1>1, UnitWorkIsNew
<1> HIDE DEF order, qs, A, U
<1>5. Done' = Before(cfg, mi) \cup A(ri, at, Len(qs))
  <2>1. CASE at < cfg.repetitions /\ at' = at + 1 /\ pc' = "unit" /\ UNCHANGED <<mi, ri>>
    <3>1. Done' = Before(cfg, mi) \cup A(ri, at + 1, 0)
      BY <2>1 DEF Done, A
    <3> QED
      BY <1>3, <2>1, <3>1
  <2>2. CASE /\ at >= cfg.repetitions /\ ri < Len(order) /\ ri' = ri + 1 /\ at' = 1
             /\ pc' = "unit" /\ UNCHANGED mi
    <3>1. Done' = Before(cfg, mi) \cup A(ri + 1, 1, 0)
      BY <2>2 DEF Done, A
    <3> QED
      BY <1>3, <2>2, <3>1
  <2>3. CASE /\ at >= cfg.repetitions /\ ri >= Len(order) /\ pc' = "round4" /\ UNCHANGED loop
    <3>1. Done' = Before(cfg, mi) \cup Reasoned(cfg, mi)
      BY <2>3 DEF Done, loop
    <3> QED
      BY <1>3, <2>3, <3>1
  <2> QED
    BY <1>1, <2>1, <2>2, <2>3 DEF NextUnit
<1>6. pc = "ask" /\ Len(rows) = Len(Qs) => Done' = Done
  BY <1>1, <1>5 DEF Done, A
<1>7. ASSUME pc = "unit" PROVE Done = Before(cfg, mi) \cup A(ri, at, 0)
  <2>1. rows = <<>>
    BY <1>7 DEF TypeInv, LoopInv
  <2> QED
    BY <1>7, <2>1 DEF Done, A
<1>8. ASSUME pc = "unit" PROVE Done' = Done \cup U /\ Done \cap U = {}
  BY <1>4, <1>5, <1>7, <1>8
<1> QED
  BY <1>1, <1>4, <1>5, <1>6, <1>8 DEF A, U

\* One question, one attempt.
LEMMA DoneAsk ==
    ASSUME TypeInv, NEW resp \in Responses, Ask(resp)
    PROVE  LET w == At(mi, Round, at, Len(rows) + 1)
           IN w \in Work(cfg) /\ w \notin Done /\ Done' = Done \cup {w}
<1> DEFINE order == ReasoningRounds(cfg.models[mi])
           n == Len(rows)
           x == At(mi, order[ri], at, n + 1)
<1>1. /\ pc = "ask" /\ pc' = "ask" /\ n < Len(Qs) /\ UNCHANGED <<cfg, mi, ri, at>>
      /\ \E row : rows' = Append(rows, row)
  BY DEF Ask, loop
<1>2. /\ cfg \in Configs /\ mi \in 1..Len(cfg.models) /\ rows \in Seq(Row(Items))
      /\ ri \in 1..Len(order) /\ at \in 1..cfg.repetitions
      /\ Qs = Questions(cfg.models[mi], order[ri]) /\ Round = order[ri]
  BY <1>1 DEF TypeInv, TypeOK, LoopInv, Model, Qs, Round
<1>3. n \in Nat /\ Len(rows') = n + 1
  BY <1>1, <1>2
<1> HIDE DEF order, n, x
<1>4. /\ x \in Work(cfg) /\ x \notin Before(cfg, mi) \cup Asked(cfg, mi, ri, at, n)
      /\ Asked(cfg, mi, ri, at, n + 1) = Asked(cfg, mi, ri, at, n) \cup {x}
  <2>1. n < Len(Questions(cfg.models[mi], order[ri]))
    BY <1>1, <1>2
  <2> QED
    BY <1>2, <1>3, <2>1, AskOne DEF order, x
<1>5. Done = Before(cfg, mi) \cup Asked(cfg, mi, ri, at, n)
  BY <1>1 DEF Done, n
<1>6. Done' = Before(cfg, mi) \cup Asked(cfg, mi, ri, at, n + 1)
  BY <1>1, <1>3 DEF Done
<1> QED
  BY <1>2, <1>4, <1>5, <1>6 DEF x, n

\* A run_attempt passes the unit it was started for, whether it is graded or raises.
LEMMA DoneAttempt ==
    ASSUME TypeInv, 4 \in Range(Model.rounds),
           NEW how \in {"pass", "fail", "timeout", "error"}, Attempt(how)
    PROVE  LET w == At(mi, 4, at, ri)
           IN w \in Work(cfg) /\ w \notin Done /\ Done' = Done \cup {w}
<1> DEFINE D == Before(cfg, mi) \cup Reasoned(cfg, mi)
           x == At(mi, 4, at, ri)
           m == Len(Round4Tasks(cfg, cfg.models[mi]))
<1>1. /\ pc = "attempt" /\ UNCHANGED <<cfg, mi>> /\ NextAttempt
  BY DEF Attempt
<1>2. /\ cfg \in Configs /\ mi \in 1..Len(cfg.models) /\ ri \in 1..m /\ at \in 1..cfg.repetitions
      /\ 4 \in Range(cfg.models[mi].rounds) /\ Len(R4Tasks) = m
  BY <1>1 DEF TypeInv, TypeOK, LoopInv, Model, R4Tasks
<1>3. cfg.repetitions \in Nat /\ m \in Nat
  <2>1. cfg.repetitions \in Nat /\ Round4Tasks(cfg, cfg.models[mi]) \in Seq(Tasks)
    BY <1>2, PlanFacts
  <2> QED
    BY <2>1
<1>4. /\ x \in Work(cfg) /\ x \notin D \cup Attempted(cfg, mi, ri, at)
      /\ at < cfg.repetitions => Attempted(cfg, mi, ri, at + 1) = Attempted(cfg, mi, ri, at) \cup {x}
      /\ at >= cfg.repetitions =>
           Attempted(cfg, mi, ri + 1, 1) = Attempted(cfg, mi, ri, at) \cup {x}
      /\ at >= cfg.repetitions /\ ri >= m =>
           Before(cfg, mi + 1) = D \cup (Attempted(cfg, mi, ri, at) \cup {x})
  <2> DEFINE y(k, a) == At(mi, 4, a, k)
  <2>1. \A k \in 1..m, a \in 1..cfg.repetitions :
           /\ y(k, a) \in Work(cfg) /\ y(k, a) \notin D \cup Attempted(cfg, mi, k, a)
           /\ a < cfg.repetitions => Attempted(cfg, mi, k, a + 1) = Attempted(cfg, mi, k, a) \cup {y(k, a)}
           /\ a >= cfg.repetitions =>
                Attempted(cfg, mi, k + 1, 1) = Attempted(cfg, mi, k, a) \cup {y(k, a)}
           /\ a >= cfg.repetitions /\ k >= m =>
                Before(cfg, mi + 1) = D \cup (Attempted(cfg, mi, k, a) \cup {y(k, a)})
    BY <1>2, AttemptOne, SMTT(40)
  <2>2. x = y(ri, at)
    OBVIOUS
  <2> HIDE DEF x, y, D, m
  <2> QED
    BY <1>2, <2>1, <2>2
<1>5. Done = D \cup Attempted(cfg, mi, ri, at)
  BY <1>1 DEF Done
<1> HIDE DEF x, m
<1>6. Done' = D \cup (Attempted(cfg, mi, ri, at) \cup {x})
  <2>1. CASE at < cfg.repetitions
    <3>1. at' = at + 1 /\ pc' = "attempt" /\ ri' = ri
      BY <1>1, <1>2, <1>3, <2>1 DEF NextAttempt
    <3>2. Done' = D \cup Attempted(cfg, mi, ri, at + 1)
      BY <1>1, <3>1 DEF Done
    <3> QED
      BY <1>4, <2>1, <3>2
  <2>2. CASE at >= cfg.repetitions
    <3>1. at' = 1 /\ ri' = ri + 1 /\ pc' = IF ri < m THEN "attempt" ELSE "run.json"
      BY <1>1, <1>2, <1>3, <2>2 DEF NextAttempt
    <3>2. CASE ri < m
      <4>1. Done' = D \cup Attempted(cfg, mi, ri + 1, 1)
        BY <1>1, <3>1, <3>2 DEF Done
      <4> QED
        BY <1>4, <2>2, <4>1
    <3>3. CASE ri >= m
      <4>1. Done' = Before(cfg, mi + 1)
        BY <1>1, <1>2, <1>3, <3>1, <3>3 DEF Done
      <4> QED
        BY <1>4, <2>2, <3>3, <4>1
    <3> QED
      BY <1>2, <1>3, <3>2, <3>3
  <2> QED
    BY <1>2, <1>3, <2>1, <2>2
<1>7. x \in Work(cfg) /\ x \notin Done /\ Done' = Done \cup {x}
  BY <1>4, <1>5, <1>6
<1> QED
  BY <1>7 DEF x

\* Round 4 of the current model is skipped.
LEMMA DoneSkip4 ==
    ASSUME TypeInv, SkipRound4
    PROVE  /\ Done \subseteq Done'
           /\ 4 \notin Range(Model.rounds) => Done' = Done
           /\ 4 \in Range(Model.rounds) =>
                /\ Done' = Done \cup Share(cfg, <<mi, 4>>) /\ Done \cap Share(cfg, <<mi, 4>>) = {}
                /\ IsFiniteSet(Share(cfg, <<mi, 4>>))
                /\ Cardinality(Share(cfg, <<mi, 4>>)) = cfg.repetitions * Len(R4Tasks)
<1>1. /\ pc = "round4" /\ NextModel /\ UNCHANGED <<cfg, rows>> /\ cfg \in Configs
      /\ mi \in 1..Len(cfg.models) /\ rows = <<>>
  BY DEF SkipRound4, TypeInv, TypeOK, LoopInv
<1>2. Done' = Before(cfg, mi + 1)
  BY <1>1, DoneNextModel
<1>3. Done = Before(cfg, mi) \cup Reasoned(cfg, mi)
  BY <1>1 DEF Done
<1>4. Model = cfg.models[mi] /\ R4Tasks = Round4Tasks(cfg, cfg.models[mi])
  BY DEF Model, R4Tasks
<1>5. /\ 4 \notin Range(Model.rounds) =>
           Before(cfg, mi + 1) = Before(cfg, mi) \cup Reasoned(cfg, mi)
      /\ 4 \in Range(Model.rounds) =>
           /\ Before(cfg, mi + 1) = (Before(cfg, mi) \cup Reasoned(cfg, mi)) \cup Share(cfg, <<mi, 4>>)
           /\ (Before(cfg, mi) \cup Reasoned(cfg, mi)) \cap Share(cfg, <<mi, 4>>) = {}
  BY <1>1, <1>4, ModelOver
<1>6. ASSUME 4 \in Range(Model.rounds)
      PROVE  /\ IsFiniteSet(Share(cfg, <<mi, 4>>))
             /\ Cardinality(Share(cfg, <<mi, 4>>)) = cfg.repetitions * Len(R4Tasks)
  <2> DEFINE x == <<mi, 4>>
  <2>1. x \in Rounds(cfg) /\ x[1] = mi /\ x[2] = 4
    BY <1>1, <1>4, <1>6 DEF Rounds
  <2>2. ModelRoundUnits(cfg, cfg.models[mi], 4) = Len(R4Tasks)
    BY <1>1, <1>4, UnitsOfRound
  <2> HIDE DEF x
  <2>3. /\ IsFiniteSet(Share(cfg, x))
        /\ Cardinality(Share(cfg, x)) = cfg.repetitions * ModelRoundUnits(cfg, cfg.models[x[1]], x[2])
    BY <1>1, <2>1, ShareSize
  <2> QED
    BY <2>1, <2>2, <2>3 DEF x
<1> QED
  BY <1>2, <1>3, <1>5, <1>6

\* What skip counts for a saved result or run.json is what the plan has for it.
LEMMA SkippedUnit ==
    ASSUME TypeInv, ResultsInv, RetryInv, pc = "unit", result[Unit] # Missing
    PROVE  /\ result[Unit].planned = Len(Qs) /\ Len(result[Unit].results) = Len(Qs)
           /\ Len(Qs) \in Nat
<1> DEFINE p == result[Unit]
<1>1. /\ Unit \in Units /\ Unit[1] = Model.key /\ Unit[2] = Round
      /\ mi \in 1..Len(cfg.models) /\ cfg \in Configs /\ Round \in 1..3
  <2>1. Unit \in Units /\ Unit[1] = Model.key /\ Unit[2] = Round
    BY UnitType DEF TypeInv, Unit
  <2>2. mi \in 1..Len(cfg.models) /\ cfg \in Configs
    BY DEF TypeInv, TypeOK, LoopInv
  <2>3. Round \in 1..3
    BY <2>1 DEF Units
  <2> QED
    BY <2>1, <2>2, <2>3
<1>2. p \in Payload
  BY <1>1 DEF TypeInv, TypeOK
<1>3. snapshot = cfg /\ ModelOf(cfg, Model.key) = Model
  BY <1>1, ModelOfKey DEF ResultsInv, OneConfig, Model
<1>4. Ids(p.results) = Qs
  BY <1>1, <1>3 DEF ResultsInv, ResultsComplete, Qs
<1>5. p = PayloadOf(Unit[2], p.results)
  BY <1>1 DEF RetryInv, CountersInv
<1>6. Qs \in Seq(Items)
  BY <1>1, PlanFacts DEF Qs, Model
<1> HIDE DEF p
<1>7. p.planned = Len(p.results)
  BY <1>5 DEF PayloadOf, Payload3, Payload12
<1>8. Len(p.results) \in Nat /\ Len(Qs) \in Nat
  <2>1. p.results \in Seq(Row(Items))
    BY <1>2 DEF Payload
  <2> QED
    BY <1>6, <2>1
<1>9. 1..Len(p.results) = 1..Len(Qs)
  <2>1. DOMAIN Ids(p.results) = 1..Len(p.results)
    BY DEF Ids
  <2>2. DOMAIN Qs = 1..Len(Qs)
    BY <1>6
  <2> QED
    BY <1>4, <2>1, <2>2
<1>10. Len(p.results) = Len(Qs)
  BY <1>8, <1>9
<1> QED
  BY <1>7, <1>8, <1>10 DEF p

\* The units _execute skips for a finished run.json are those the plan has for round 4
\* of the model, so `attempts * len(tasks)` and _campaign_units agree.
LEMMA SkippedRound4 ==
    ASSUME TypeInv, OneConfig, Run4Inv, pc = "round4", Finished4(run4[Model.key])
    PROVE  /\ run4[Model.key].attempts * Len(run4[Model.key].tasks) = cfg.repetitions * Len(R4Tasks)
           /\ cfg.repetitions * Len(R4Tasks) \in Nat /\ cfg.repetitions * Len(R4Tasks) > 0
<1>1. /\ mi \in 1..Len(cfg.models) /\ cfg \in Configs /\ snapshot = cfg
  BY DEF TypeInv, TypeOK, LoopInv, OneConfig
<1>2. Model.key \in Keys /\ Model = cfg.models[mi]
  BY <1>1, PlanFacts DEF Model
<1>3. PICK i \in 1..Len(snapshot.models) :
         /\ snapshot.models[i].key = Model.key
         /\ run4[Model.key].tasks = Round4Tasks(snapshot, snapshot.models[i])
         /\ run4[Model.key].attempts = snapshot.repetitions
  BY <1>2 DEF Finished4, Run4Inv, Whole4
<1>4. snapshot.models[i] = Model
  <2>1. ModelOf(cfg, cfg.models[i].key) = cfg.models[i] /\ ModelOf(cfg, cfg.models[mi].key) = cfg.models[mi]
    BY <1>1, <1>3, ModelOfKey
  <2> QED
    BY <1>1, <1>2, <1>3, <2>1
<1>5. R4Tasks \in Seq(Tasks) /\ R4Tasks # <<>> /\ cfg.repetitions \in Nat /\ cfg.repetitions >= 1
  BY <1>1, <1>2, PlanFacts DEF R4Tasks
<1>6. cfg.repetitions * Len(R4Tasks) \in Nat /\ cfg.repetitions * Len(R4Tasks) > 0
  <2> DEFINE n == cfg.repetitions
             k == Len(R4Tasks)
  <2>1. n \in Nat /\ n >= 1 /\ k \in Nat /\ k >= 1
    BY <1>5
  <2> HIDE DEF n, k
  <2>2. n * k \in Nat /\ n * k > 0
    BY <2>1
  <2> QED
    BY <2>2 DEF n, k
<1> QED
  BY <1>1, <1>3, <1>4, <1>6 DEF R4Tasks

BarInv ==
    /\ InRound4 => 4 \in Range(Model.rounds)
    /\ snapshot # Missing => cfg = snapshot
    /\ dashboard.completed <= CampaignUnits(cfg)
    /\ pc # "idle" => /\ dashboard.completed <= Cardinality(Done)
                      /\ command = "run" => dashboard.completed = Cardinality(Done)
    /\ outcome = "success" /\ command # "report" => dashboard.completed = CampaignUnits(cfg)

\* A step of a process that is working: the bar and the passed units agree.
LEMMA BarRuns ==
    ASSUME TypeInv', outcome' # "success",
           InRound4' => 4 \in Range(Model'.rounds), snapshot' # Missing => cfg' = snapshot',
           dashboard'.completed <= Cardinality(Done'),
           command' = "run" => dashboard'.completed = Cardinality(Done')
    PROVE  BarInv'
<1>1. cfg' \in Configs /\ dashboard'.completed \in Nat
  BY DEF TypeInv, TypeOK
<1>2. Done' \subseteq Work(cfg')
  BY DEF Done, Before, Asked, Reasoned, Attempted
<1> DEFINE n == Cardinality(Done')
<1>3. n <= CampaignUnits(cfg') /\ n \in Nat
  BY <1>1, <1>2, DoneInWork
<1>4. CampaignUnits(cfg') \in Nat
  BY <1>1, PlanSize, FS_CardinalityType
<1> HIDE DEF n
<1>5. dashboard'.completed <= CampaignUnits(cfg')
  BY <1>1, <1>3, <1>4 DEF n
<1> QED
  BY <1>5 DEF BarInv

\* A process that ends without success leaves its bar as it is.
LEMMA BarEnds ==
    ASSUME BarInv, NEW how, how # "success", End(how), UNCHANGED <<snapshot, dashboard>>
    PROVE  BarInv'
<1>1. pc' = "idle" /\ outcome' # "success" /\ cfg' = cfg
  BY DEF End
<1> QED
  BY <1>1 DEF BarInv

\* The bar moves with the passed units, by none, by one or by a set of them.
LEMMA BarMoves ==
    ASSUME NEW c \in Configs, NEW D, NEW U, D \subseteq Work(c), IsFiniteSet(U), D \cap U = {}
    PROVE  Cardinality(D \cup U) = Cardinality(D) + Cardinality(U)
           /\ Cardinality(D) \in Nat /\ Cardinality(U) \in Nat
<1>1. IsFiniteSet(D) /\ Cardinality(D) \in Nat
  BY DoneInWork
<1> QED
  BY <1>1, DisjointSizes, FS_CardinalityType

BarFacts == TypeInv /\ ResultsInv /\ RetryInv /\ ReportInv /\ Run4Inv /\ WorkInv

\* Every step keeps the bar at the number of units passed.
LEMMA BarStep == BarFacts /\ BarInv /\ [Next]_vars => BarInv'
<1> SUFFICES ASSUME TypeInv, ResultsInv, RetryInv, ReportInv, Run4Inv, WorkInv, BarInv, [Next]_vars
             PROVE  BarInv'
  BY DEF BarFacts
<1> USE DEF disk, proc, loop
<1>a. TypeInv'
  BY TypeStep
<1>b. /\ cfg \in Configs /\ Done \subseteq Work(cfg)
      /\ IsFiniteSet(Done) /\ Cardinality(Done) \in Nat
      /\ dashboard.completed \in Nat /\ OneConfig
  <2>1. cfg \in Configs /\ dashboard.completed \in Nat
    BY DEF TypeInv, TypeOK
  <2>2. Done \subseteq Work(cfg)
    BY DEF Done, Before, Asked, Reasoned, Attempted
  <2> QED
    BY <2>1, <2>2, DoneInWork DEF ResultsInv
<1>c. pc # "idle" => /\ outcome # "success"
                     /\ dashboard.completed <= Cardinality(Done)
                     /\ command = "run" => dashboard.completed = Cardinality(Done)
  BY DEF ReportInv, BarInv
<1>d. /\ InRound4 => 4 \in Range(Model.rounds)
      /\ snapshot # Missing => cfg = snapshot
      /\ dashboard.completed <= CampaignUnits(cfg)
  BY DEF BarInv
<1>w. Cardinality(Work(cfg)) = CampaignUnits(cfg) /\ CampaignUnits(cfg) \in Nat
  BY <1>b, PlanSize, FS_CardinalityType
\* A working process whose bar moves by n with n more units passed.
<1>m. ASSUME NEW n \in Nat, pc # "idle", Cardinality(Done') = Cardinality(Done) + n,
             dashboard'.completed = dashboard.completed + n,
             UNCHANGED <<cfg, command, snapshot, outcome>>,
             InRound4' => 4 \in Range(Model'.rounds)
      PROVE  BarInv'
  <2>1. outcome' # "success" /\ (snapshot' # Missing => cfg' = snapshot')
    BY <1>c, <1>d, <1>m
  <2> DEFINE x == dashboard.completed
             y == Cardinality(Done)
  <2>2. x \in Nat /\ y \in Nat /\ x <= y /\ (command = "run" => x = y)
    BY <1>b, <1>c, <1>m
  <2> HIDE DEF x, y
  <2>3. x + n <= y + n /\ (command = "run" => x + n = y + n)
    BY <2>2
  <2>4. /\ dashboard'.completed <= Cardinality(Done')
        /\ command' = "run" => dashboard'.completed = Cardinality(Done')
    BY <1>m, <2>3 DEF x, y
  <2> QED
    BY <1>a, <1>m, <2>1, <2>4, BarRuns
\* The passed units stay what they were, and so does the bar.
<1>k. ASSUME pc # "idle", Done' = Done, UNCHANGED <<cfg, command, snapshot, outcome, dashboard>>,
             InRound4' => 4 \in Range(Model'.rounds)
      PROVE  BarInv'
  BY <1>b, <1>k, <1>m
<1>1. ASSUME NEW c \in Configs, NEW cmd \in {"run", "dry-run"}, Invoke(c, cmd)
      PROVE  BarInv'
  <2>1. /\ StartModel(c, 1) /\ cfg' = c /\ snapshot' = c /\ outcome' # "success" /\ rows' = <<>>
        /\ dashboard'.completed = 0 /\ pc' \in {"unit", "round4"}
    BY <1>1 DEF Invoke, FreshDashboard, StartModel, TypeInv, LoopInv
  <2>2. 1 \in 1..Len(c.models)
    BY PlanFacts
  <2>3. Done' = {}
    BY <2>1, <2>2, DoneStart, ModelOver
  <2>4. Cardinality(Done') = 0
    BY <2>3, FS_EmptySet
  <2> QED
    BY <1>a, <2>1, <2>4, BarRuns
<1>2. ASSUME NEW c \in Configs, Refuse(c)
      PROVE  BarInv'
  BY <1>2 DEF Refuse, BarInv
<1>3. CASE InvokeReport
  <2>1. /\ cfg' = cfg /\ pc' = "collect" /\ outcome' # "success" /\ command' = "report"
        /\ UNCHANGED <<dashboard, snapshot>>
    BY <1>3, <1>d DEF InvokeReport
  <2>2. Done' = Work(cfg)
    BY <2>1 DEF Done
  <2> QED
    BY <1>a, <1>d, <1>w, <2>1, <2>2, BarRuns
<1>4. CASE SkipUnit
  <2>1. /\ pc = "unit" /\ Finished(result[Unit]) /\ NextUnit /\ rows = <<>> /\ rows' = rows
        /\ UNCHANGED <<cfg, command, snapshot, outcome>>
        /\ dashboard'.completed = dashboard.completed + result[Unit].planned
        /\ pc' \in {"unit", "round4"}
    BY <1>4 DEF SkipUnit, skip, NextUnit, TypeInv, LoopInv
  <2>2. result[Unit].planned = Len(Qs) /\ Len(Qs) \in Nat
    BY <2>1, SkippedUnit DEF Finished
  <2> DEFINE U == UnitWork(cfg, mi, ri, at)
  <2>3. Done' = Done \cup U /\ Done \cap U = {} /\ IsFiniteSet(U) /\ Cardinality(U) = Len(Qs)
    BY <2>1, DoneNextUnit
  <2> HIDE DEF U
  <2>4. Cardinality(Done') = Cardinality(Done) + Len(Qs)
    BY <1>b, <2>3, BarMoves
  <2> QED
    BY <1>m, <2>1, <2>2, <2>4
<1>5. CASE StartUnit
  <2>1. /\ pc = "unit" /\ rows = <<>> /\ rows' = rows
        /\ UNCHANGED <<cfg, command, snapshot, outcome, dashboard>>
    BY <1>5 DEF StartUnit, TypeInv, LoopInv
  <2>2. CASE command = "dry-run" /\ NextUnit
    <3> DEFINE U == UnitWork(cfg, mi, ri, at)
    <3>1. Done' = Done \cup U /\ Done \cap U = {} /\ IsFiniteSet(U)
      BY <2>1, <2>2, DoneNextUnit
    <3>2. pc' \in {"unit", "round4"}
      BY <2>2 DEF NextUnit
    <3> HIDE DEF U
    <3>3. /\ Cardinality(Done') = Cardinality(Done) + Cardinality(U)
          /\ Cardinality(U) \in Nat
      BY <1>b, <3>1, BarMoves, ZenonT(60)
    <3>4. dashboard'.completed <= Cardinality(Done')
      BY <1>b, <1>c, <2>1, <3>3
    <3> QED
      BY <1>a, <1>c, <1>d, <2>1, <2>2, <3>2, <3>4, BarRuns
  <2>3. CASE command = "run" /\ pc' = "ask" /\ UNCHANGED loop
    <3>1. Done' = Done
      BY <2>1, <2>3 DEF Done
    <3> QED
      BY <1>k, <2>1, <2>3, <3>1
  <2> QED
    BY <1>5, <2>2, <2>3 DEF StartUnit
<1>6. ASSUME NEW resp \in Responses, Ask(resp)
      PROVE  BarInv'
  <2> DEFINE w == At(mi, Round, at, Len(rows) + 1)
  <2>1. w \notin Done /\ Done' = Done \cup {w}
    BY <1>6, DoneAsk
  <2> HIDE DEF w
  <2>2. Cardinality(Done') = Cardinality(Done) + 1
    BY <1>b, <2>1, FS_AddElement
  <2>3. /\ pc = "ask" /\ pc' = pc /\ UNCHANGED <<cfg, command, snapshot, outcome>>
        /\ dashboard'.completed = dashboard.completed + 1
    BY <1>6 DEF Ask, record
  <2> QED
    BY <1>m, <2>2, <2>3
<1>7. CASE SaveResult
  <2>1. /\ pc = "ask" /\ Len(rows) = Len(Qs) /\ NextUnit /\ rows' = <<>>
        /\ UNCHANGED <<cfg, command, snapshot, outcome, dashboard>>
        /\ pc' \in {"unit", "round4"}
    BY <1>7 DEF SaveResult, NextUnit
  <2>2. Done' = Done
    BY <2>1, DoneNextUnit
  <2> QED
    BY <1>k, <2>1, <2>2
<1>8. CASE SkipRound4
  <2>1. /\ pc = "round4" /\ UNCHANGED <<cfg, command, snapshot, outcome>>
        /\ ~InRound4'
    BY <1>8 DEF SkipRound4, NextModel, StartModel
  <2>2. CASE 4 \notin Range(Model.rounds)
    <3>1. dashboard' = dashboard /\ Done' = Done
      BY <1>8, <2>2, DoneSkip4 DEF SkipRound4
    <3> QED
      BY <1>k, <2>1, <3>1
  <2>3. CASE 4 \in Range(Model.rounds)
    <3> DEFINE S == Share(cfg, <<mi, 4>>)
               n == cfg.repetitions * Len(R4Tasks)
    <3>1. Done' = Done \cup S /\ Done \cap S = {} /\ IsFiniteSet(S) /\ Cardinality(S) = n
      BY <1>8, <2>3, DoneSkip4
    <3> HIDE DEF S, n
    <3>2. Cardinality(Done') = Cardinality(Done) + n /\ n \in Nat
      BY <1>b, <3>1, BarMoves
    <3>3. CASE Finished4(run4[Model.key])
      <4>1. dashboard'.completed
              = dashboard.completed + run4[Model.key].attempts * Len(run4[Model.key].tasks)
        BY <1>8, <2>3, <3>3 DEF SkipRound4, skip
      <4>2. run4[Model.key].attempts * Len(run4[Model.key].tasks) = n
        BY <1>b, <2>1, <3>3, SkippedRound4 DEF n
      <4> QED
        BY <1>m, <2>1, <3>2, <4>1, <4>2
    <3>4. CASE ~Finished4(run4[Model.key])
      <4>1. command = "dry-run" /\ dashboard' = dashboard
        BY <1>8, <2>3, <3>4 DEF SkipRound4
      <4>2. dashboard'.completed <= Cardinality(Done')
        BY <1>b, <1>c, <2>1, <3>2, <4>1
      <4> QED
        BY <1>a, <1>c, <1>d, <2>1, <4>1, <4>2, BarRuns
    <3> QED
      BY <3>3, <3>4
  <2> QED
    BY <2>2, <2>3
<1>9. CASE StartRound4
  <2>1. /\ pc = "round4" /\ pc' = "attempt" /\ ri' = 1 /\ at' = 1 /\ mi' = mi
        /\ 4 \in Range(Model.rounds) /\ Model' = Model
        /\ UNCHANGED <<cfg, command, snapshot, outcome, dashboard>>
        /\ mi \in 1..Len(cfg.models)
    BY <1>9 DEF StartRound4, Model, TypeInv, LoopInv
  <2>2. Attempted(cfg, mi, 1, 1) = {}
    <3> SUFFICES ASSUME NEW w \in Attempted(cfg, mi, 1, 1) PROVE FALSE
      OBVIOUS
    <3>1. w \in Work(cfg) /\ (w[2][2] < 1 \/ (w[2][2] = 1 /\ w[2][1] < 1))
      BY DEF Attempted
    <3>2. /\ w[2][1] \in 1..cfg.repetitions /\ cfg.repetitions \in Nat
          /\ w[2][2] \in 1..ModelRoundUnits(cfg, cfg.models[w[1][1]], w[1][2])
          /\ ModelRoundUnits(cfg, cfg.models[w[1][1]], w[1][2]) \in Nat
      BY <1>b, <3>1, WorkElement, UnitsOfRound, PlanFacts
    <3> QED
      BY <3>1, <3>2
  <2>3. Done' = Done
    BY <2>1, <2>2 DEF Done
  <2> QED
    BY <1>k, <2>1, <2>3
<1>10. ASSUME NEW how \in {"pass", "fail", "timeout", "error"}, Attempt(how)
       PROVE  BarInv'
  <2>1. /\ pc = "attempt" /\ UNCHANGED <<cfg, command, snapshot, outcome, mi>>
        /\ dashboard'.completed = dashboard.completed + 1 /\ Model' = Model
    BY <1>10 DEF Attempt, record, Model
  <2> DEFINE w == At(mi, 4, at, ri)
  <2>2. w \notin Done /\ Done' = Done \cup {w}
    BY <1>10, <1>d, <2>1, DoneAttempt
  <2> HIDE DEF w
  <2>3. Cardinality(Done') = Cardinality(Done) + 1
    BY <1>b, <2>2, FS_AddElement
  <2> QED
    BY <1>d, <1>m, <2>1, <2>3
<1>11. CASE OpenRunJson
  <2>1. /\ pc = "run.json" /\ pc' = "dump" /\ Model' = Model
        /\ UNCHANGED <<cfg, mi, command, snapshot, outcome, dashboard>>
    BY <1>11 DEF OpenRunJson, Model
  <2>2. Done' = Done
    BY <2>1 DEF Done
  <2> QED
    BY <1>d, <1>k, <2>1, <2>2
<1>12. CASE DumpRunJson
  <2>1. pc = "dump" /\ UNCHANGED <<snapshot, dashboard>>
    BY <1>12 DEF DumpRunJson
  <2>2. CASE End("stopped")
    BY <2>1, <2>2, BarEnds
  <2>3. CASE NextModel /\ UNCHANGED <<command, cfg, rows, outcome>>
    <3>1. rows' = <<>> /\ mi \in 1..Len(cfg.models) /\ ~InRound4'
      BY <2>1, <2>3 DEF TypeInv, LoopInv, NextModel, StartModel
    <3>2. Done' = Done
      BY <2>1, <2>3, <3>1, DoneNextModel DEF Done
    <3> QED
      BY <1>k, <2>1, <2>3, <3>1, <3>2
  <2> QED
    BY <1>12, <2>2, <2>3 DEF DumpRunJson
<1>13. CASE SaveSummary \/ OpenReport \/ WriteReport
  <2>1. /\ pc \in {"collect", "open report", "write report"}
        /\ pc' \in {"open report", "write report", "finish"}
        /\ UNCHANGED <<cfg, command, snapshot, outcome, dashboard>>
    BY <1>13 DEF SaveSummary, OpenReport, WriteReport
  <2>2. Done' = Done
    BY <2>1 DEF Done
  <2> QED
    BY <1>k, <2>1, <2>2
<1>14. CASE RejectRound4 \/ FailPreflight \/ RejectCollect
  BY <1>14, BarEnds DEF RejectRound4, FailPreflight, RejectCollect
<1>15. CASE Finish
  <2>1. /\ pc = "finish" /\ pc' = "idle" /\ UNCHANGED <<cfg, command, snapshot>>
        /\ dashboard' = IF command = "dry-run" THEN complete_plan(dashboard) ELSE dashboard
    BY <1>15 DEF Finish, End
  <2>2. Done = Work(cfg)
    BY <2>1 DEF Done
  <2>3. command \in {"run", "dry-run", "report"}
    BY DEF TypeInv, TypeOK
  <2>4. /\ dashboard'.completed <= CampaignUnits(cfg)
        /\ command # "report" => dashboard'.completed = CampaignUnits(cfg)
    BY <1>c, <1>d, <1>w, <2>1, <2>2, <2>3 DEF complete_plan
  <2> QED
    BY <1>d, <2>1, <2>4 DEF BarInv
<1>16. ASSUME NEW how \in {"killed", "interrupted"}, Kill(how)
       PROVE  BarInv'
  BY <1>16, BarEnds DEF Kill
<1>17. CASE UNCHANGED vars
  <2>1. Done' = Done /\ Model' = Model
    BY <1>17 DEF vars, Done, Model
  <2> QED
    BY <1>17, <2>1 DEF vars, BarInv
<1> QED
  BY <1>1, <1>2, <1>3, <1>4, <1>5, <1>6, <1>7, <1>8, <1>9, <1>10, <1>11, <1>12, <1>13, <1>14,
     <1>15, <1>16, <1>17 DEF Next, Step

-----------------------------------------------------------------------------
(***************************************************************************)
(* The counters on the screen.  With nothing skipped, each of them is the  *)
(* number of rows with that mark in the units the loops have passed, in    *)
(* the rows of the current unit, and of grades and errors in the passed    *)
(* and the current round 4.                                                *)
(***************************************************************************)
\* The model with this key comes before the i-th.
KeyBefore(c, i, key) == \E j \in 1..Len(c.models) : c.models[j].key = key /\ j < i

UnitsBefore(c, i) == {u \in PlannedUnits(c) : KeyBefore(c, i, u[1])}

KeysBefore(c, i) == {m \in Round4Keys(c) : KeyBefore(c, i, m)}

UnitsAsked(c, i, k, a) ==
    {u \in PlannedUnits(c) :
        \/ KeyBefore(c, i, u[1])
        \/ /\ u[1] = c.models[i].key
           /\ \E p \in 1..Len(ReasoningRounds(c.models[i])) :
                /\ u[2] = ReasoningRounds(c.models[i])[p]
                /\ p < k \/ (p = k /\ u[3] < a)}

\* The units of a plan.
LEMMA PlannedUnit ==
    ASSUME NEW c \in Configs
    PROVE  /\ \A u \in PlannedUnits(c) :
                /\ u = <<u[1], u[2], u[3]>> /\ u \in Units
                /\ u[3] \in 1..c.repetitions
                /\ \E i \in 1..Len(c.models) :
                     /\ u[1] = c.models[i].key
                     /\ \E p \in 1..Len(ReasoningRounds(c.models[i])) :
                          u[2] = ReasoningRounds(c.models[i])[p]
           /\ \A i \in 1..Len(c.models) : \A p \in 1..Len(ReasoningRounds(c.models[i])) :
                \A a \in 1..c.repetitions :
                  <<c.models[i].key, ReasoningRounds(c.models[i])[p], a>> \in PlannedUnits(c)
           /\ \A i, j \in 1..Len(c.models) : c.models[i].key = c.models[j].key => i = j
<1>0. \A i, j \in 1..Len(c.models) : c.models[i].key = c.models[j].key => i = j
  BY ConfigAssumption DEF ValidConfig
<1>1. ASSUME NEW u \in PlannedUnits(c)
      PROVE  /\ u = <<u[1], u[2], u[3]>> /\ u \in Units
             /\ u[3] \in 1..c.repetitions
             /\ \E i \in 1..Len(c.models) :
                  /\ u[1] = c.models[i].key
                  /\ \E p \in 1..Len(ReasoningRounds(c.models[i])) :
                       u[2] = ReasoningRounds(c.models[i])[p]
  <2>1. PICK i \in 1..Len(c.models) :
           u \in {c.models[i].key} \X Range(ReasoningRounds(c.models[i])) \X (1..c.repetitions)
    BY DEF PlannedUnits
  <2> DEFINE order == ReasoningRounds(c.models[i])
  <2>2. order \in Seq(1..3)
    BY PlanFacts
  <2>3. u = <<u[1], u[2], u[3]>> /\ u[1] = c.models[i].key /\ u[2] \in Range(order) /\ u[3] \in 1..c.repetitions
    BY <2>1
  <2> HIDE DEF order
  <2>4. PICK p \in 1..Len(order) : u[2] = order[p]
    BY <2>2, <2>3 DEF Range
  <2>5. u[1] \in Keys /\ u[2] \in 1..3 /\ u[3] \in Attempts
    <3>1. /\ u[1] \in Keys /\ c.repetitions \in Nat /\ c.repetitions <= MaxRepetitions
          /\ MaxRepetitions \in Nat
      BY <2>3, PlanFacts, ConfigAssumption
    <3>2. u[2] \in 1..3
      BY <2>2, <2>4
    <3> QED
      BY <2>3, <3>1, <3>2 DEF Attempts
  <2>6. u \in Units
    BY <2>3, <2>5 DEF Units
  <2> QED
    BY <2>3, <2>4, <2>6 DEF order
<1>2. ASSUME NEW i \in 1..Len(c.models), NEW p \in 1..Len(ReasoningRounds(c.models[i])),
             NEW a \in 1..c.repetitions
      PROVE  <<c.models[i].key, ReasoningRounds(c.models[i])[p], a>> \in PlannedUnits(c)
  <2> DEFINE order == ReasoningRounds(c.models[i])
  <2>1. order \in Seq(1..3)
    BY PlanFacts
  <2> HIDE DEF order
  <2>2. p \in 1..Len(order)
    BY DEF order
  <2>3. order[p] \in Range(order)
    BY <2>1, <2>2 DEF Range
  <2>4. <<c.models[i].key, order[p], a>> \in {c.models[i].key} \X Range(order) \X (1..c.repetitions)
    BY <2>3
  <2> QED
    BY <2>4 DEF PlannedUnits, order
<1> QED
  BY <1>0, <1>1, <1>2

\* There are finitely many.
LEMMA PlanIsFinite ==
    ASSUME NEW c \in Configs
    PROVE  IsFiniteSet(PlannedUnits(c)) /\ IsFiniteSet(Round4Keys(c))
<1> DEFINE I == 1..Len(c.models)
           P == I \X ((1..3) \X (1..c.repetitions))
           f == [x \in P |-> <<c.models[x[1]].key, x[2][1], x[2][2]>>]
           g == [i \in I |-> c.models[i].key]
<1>1. c.repetitions \in Nat /\ Len(c.models) \in Nat
  BY PlanFacts
<1>2. IsFiniteSet(I) /\ IsFiniteSet(1..3) /\ IsFiniteSet(1..c.repetitions)
  BY <1>1, UpTo
<1>3. IsFiniteSet(P)
  <2> HIDE DEF I
  <2>1. IsFiniteSet((1..3) \X (1..c.repetitions))
    BY <1>2, FS_Product
  <2> QED
    BY <1>2, <2>1, FS_Product
<1>4. PlannedUnits(c) \subseteq {f[x] : x \in P}
  <2> SUFFICES ASSUME NEW u \in PlannedUnits(c) PROVE \E x \in P : u = f[x]
    OBVIOUS
  <2>1. u = <<u[1], u[2], u[3]>> /\ u \in Units /\ u[3] \in 1..c.repetitions
    BY PlannedUnit
  <2>2. PICK i \in I : u[1] = c.models[i].key
    BY PlannedUnit
  <2>3. u[2] \in 1..3
    BY <2>1 DEF Units
  <2> DEFINE x == <<i, <<u[2], u[3]>>>>
  <2>4. x \in P
    BY <2>1, <2>3
  <2>5. f[x] = <<u[1], u[2], u[3]>>
    BY <2>2, <2>4
  <2> QED
    BY <2>1, <2>4, <2>5
<1>5. Round4Keys(c) \subseteq {g[i] : i \in I}
  BY DEF Round4Keys
<1> HIDE DEF f, g, P, I
<1>6. IsFiniteSet({f[x] : x \in P}) /\ IsFiniteSet({g[i] : i \in I})
  BY <1>2, <1>3, ImageFinite
<1> QED
  BY <1>4, <1>5, <1>6, FS_Subset

\* The loops pass one unit after the other.
LEMMA UnitsGrow ==
    ASSUME NEW c \in Configs, NEW i \in 1..Len(c.models),
           NEW k \in 1..Len(ReasoningRounds(c.models[i])), NEW a \in 1..c.repetitions
    PROVE  LET x == <<c.models[i].key, ReasoningRounds(c.models[i])[k], a>>
               U == UnitsAsked(c, i, k, a)
           IN /\ x \in PlannedUnits(c) /\ x \notin U
              /\ a < c.repetitions => UnitsAsked(c, i, k, a + 1) = U \cup {x}
              /\ a >= c.repetitions /\ k < Len(ReasoningRounds(c.models[i])) =>
                   UnitsAsked(c, i, k + 1, 1) = U \cup {x}
              /\ a >= c.repetitions /\ k >= Len(ReasoningRounds(c.models[i])) =>
                   UnitsBefore(c, i + 1) = U \cup {x}
<1> DEFINE order == ReasoningRounds(c.models[i])
           key == c.models[i].key
           x == <<key, order[k], a>>
           W == PlannedUnits(c)
           n == c.repetitions
           U == UnitsAsked(c, i, k, a)
<1>1. /\ x \in W
      /\ \A u \in W : u = <<u[1], u[2], u[3]>> /\ u[3] \in 1..n
  BY PlannedUnit
<1>2. /\ Len(order) \in Nat /\ n \in Nat /\ a \in 1..n /\ k \in 1..Len(order) /\ i \in Nat
      /\ \A p, q \in 1..Len(order) : order[p] = order[q] => p = q
  BY RoundOrder, PlanFacts
<1>3. ASSUME NEW j \in 1..Len(c.models)
      PROVE  /\ c.models[j].key = key => j = i
             /\ j \in Nat
  BY PlannedUnit
<1>4. ~KeyBefore(c, i, key)
  BY <1>2, <1>3 DEF KeyBefore
<1>5. \A m : KeyBefore(c, i + 1, m) <=> KeyBefore(c, i, m) \/ m = key
  <2>1. \A j \in 1..Len(c.models) : j < i + 1 <=> (j < i \/ j = i)
    BY <1>2, <1>3
  <2> QED
    BY <1>3, <2>1 DEF KeyBefore
<1>6. ASSUME NEW k1, NEW a1, NEW u
      PROVE  u \in UnitsAsked(c, i, k1, a1) <=>
               /\ u \in W
               /\ \/ KeyBefore(c, i, u[1])
                  \/ /\ u[1] = key
                     /\ \E p \in 1..Len(order) : u[2] = order[p] /\ (p < k1 \/ (p = k1 /\ u[3] < a1))
  BY DEF UnitsAsked
<1>7. \A u : u \in UnitsBefore(c, i + 1) <=> u \in W /\ (KeyBefore(c, i, u[1]) \/ u[1] = key)
  BY <1>5 DEF UnitsBefore
<1>8. ASSUME NEW u \in W, u[1] = key
      PROVE  \E p \in 1..Len(order) : u[2] = order[p]
  <2>1. PICK j \in 1..Len(c.models) :
               /\ u[1] = c.models[j].key
               /\ \E p \in 1..Len(ReasoningRounds(c.models[j])) : u[2] = ReasoningRounds(c.models[j])[p]
    BY PlannedUnit
  <2> QED
    BY <1>3, <1>8, <2>1
<1>9. ASSUME NEW u
      PROVE  u \in U \cup {x} <=>
               /\ u \in W
               /\ \/ KeyBefore(c, i, u[1])
                  \/ /\ u[1] = key
                     /\ \E p \in 1..Len(order) :
                          u[2] = order[p] /\ (p < k \/ (p = k /\ (u[3] < a \/ u[3] = a)))
  <2>1. x[1] = key /\ x[2] = order[k] /\ x[3] = a
    OBVIOUS
  <2>2. u = x <=> u \in W /\ u[1] = key /\ u[2] = order[k] /\ u[3] = a
    BY <1>1, <2>1
  <2>3. u[2] = order[k] /\ u[3] = a <=> \E p \in 1..Len(order) : u[2] = order[p] /\ p = k /\ u[3] = a
    BY <1>2
  <2> HIDE DEF x, W, order, key
  <2> QED
    BY <1>6, <2>2, <2>3
<1>10. x \notin U
  <2>1. x[1] = key /\ x[2] = order[k] /\ x[3] = a
    OBVIOUS
  <2> HIDE DEF x, order, key
  <2>2. \A p \in 1..Len(order) : x[2] = order[p] => p = k
    BY <1>2, <2>1
  <2> QED
    BY <1>2, <1>4, <1>6, <2>1, <2>2
<1> HIDE DEF order, key, x, W, n, U
<1>11. ASSUME NEW u \in W PROVE u[3] \in Nat /\ u[3] >= 1 /\ u[3] <= n
  BY <1>1, <1>2
<1>12. ASSUME a < n PROVE UnitsAsked(c, i, k, a + 1) = U \cup {x}
  <2>1. \A u \in W : u[3] < a + 1 <=> (u[3] < a \/ u[3] = a)
    BY <1>2, <1>11
  <2>2. \A u : u \in UnitsAsked(c, i, k, a + 1) <=> u \in U \cup {x}
    BY <1>6, <1>9, <2>1
  <2> QED
    BY <2>2
<1>13. ASSUME a >= n PROVE \A u \in W : ~(u[3] < 1) /\ (u[3] < a \/ u[3] = a)
  <2> SUFFICES ASSUME NEW u \in W PROVE ~(u[3] < 1) /\ (u[3] < a \/ u[3] = a)
    OBVIOUS
  <2>1. u[3] \in Nat /\ u[3] >= 1 /\ u[3] <= n
    BY <1>11
  <2> QED
    BY <1>2, <1>13, <2>1
<1>14. ASSUME a >= n, k < Len(order) PROVE UnitsAsked(c, i, k + 1, 1) = U \cup {x}
  <2>1. \A p \in 1..Len(order) : p < k + 1 <=> (p < k \/ p = k)
    BY <1>2
  <2>2. \A u : u \in UnitsAsked(c, i, k + 1, 1) <=> u \in U \cup {x}
    BY <1>6, <1>9, <1>13, <1>14, <2>1
  <2> QED
    BY <2>2
<1>15. ASSUME a >= n, k >= Len(order) PROVE UnitsBefore(c, i + 1) = U \cup {x}
  <2>1. \A p \in 1..Len(order) : p < k \/ p = k
    BY <1>2, <1>15
  <2>2. \A u : u \in UnitsBefore(c, i + 1) <=> u \in U \cup {x}
    BY <1>7, <1>8, <1>9, <1>13, <1>15, <2>1
  <2> QED
    BY <2>2
<1> QED
  BY <1>1, <1>10, <1>12, <1>14, <1>15 DEF order, key, x, W, n, U

\* And one model after the other.
LEMMA KeysGrow ==
    ASSUME NEW c \in Configs, NEW i \in 1..Len(c.models)
    PROVE  /\ ReasoningRounds(c.models[i]) # <<>> => UnitsAsked(c, i, 1, 1) = UnitsBefore(c, i)
           /\ ReasoningRounds(c.models[i]) = <<>> => UnitsBefore(c, i + 1) = UnitsBefore(c, i)
           /\ UnitsBefore(c, 1) = {} /\ UnitsBefore(c, Len(c.models) + 1) = PlannedUnits(c)
           /\ KeysBefore(c, 1) = {} /\ KeysBefore(c, Len(c.models) + 1) = Round4Keys(c)
           /\ KeysBefore(c, i + 1) = KeysBefore(c, i) \cup ({c.models[i].key} \cap Round4Keys(c))
           /\ c.models[i].key \notin KeysBefore(c, i)
           /\ c.models[i].key \in Round4Keys(c) <=> 4 \in Range(c.models[i].rounds)
<1> DEFINE order == ReasoningRounds(c.models[i])
           key == c.models[i].key
<1>1. ASSUME NEW j \in 1..Len(c.models)
      PROVE  /\ c.models[j].key = key => j = i
             /\ j \in Nat /\ ~(j < 1) /\ j < Len(c.models) + 1
             /\ j < i + 1 <=> (j < i \/ j = i)
  <2>1. c.models[j].key = key => j = i
    BY PlannedUnit
  <2>2. Len(c.models) \in Nat
    BY PlanFacts
  <2> QED
    BY <2>1, <2>2
<1>2. ~KeyBefore(c, i, key)
  BY <1>1 DEF KeyBefore
<1>3. \A m : KeyBefore(c, i + 1, m) <=> KeyBefore(c, i, m) \/ m = key
  BY <1>1 DEF KeyBefore
<1>4. \A m : ~KeyBefore(c, 1, m)
  BY <1>1 DEF KeyBefore
<1>5. \A j \in 1..Len(c.models) : KeyBefore(c, Len(c.models) + 1, c.models[j].key)
  BY <1>1 DEF KeyBefore
<1>6. \A m \in Round4Keys(c) : \E j \in 1..Len(c.models) : m = c.models[j].key /\ 4 \in Range(c.models[j].rounds)
  BY DEF Round4Keys
<1>7. \A u \in PlannedUnits(c) : \E j \in 1..Len(c.models) : u[1] = c.models[j].key
  BY PlannedUnit
<1>8. ASSUME order # <<>> PROVE UnitsAsked(c, i, 1, 1) = UnitsBefore(c, i)
  <2>1. ASSUME NEW u \in PlannedUnits(c), NEW p \in 1..Len(order)
        PROVE  ~(p < 1) /\ ~(u[3] < 1)
    <3>1. u[3] \in 1..c.repetitions /\ c.repetitions \in Nat /\ Len(order) \in Nat
      BY PlannedUnit, PlanFacts, RoundOrder
    <3> HIDE DEF order
    <3> QED
      BY <3>1
  <2>2. \A u : u \in UnitsAsked(c, i, 1, 1) <=> u \in UnitsBefore(c, i)
    BY <2>1 DEF UnitsAsked, UnitsBefore
  <2> QED
    BY <2>2
<1>9. ASSUME order = <<>> PROVE UnitsBefore(c, i + 1) = UnitsBefore(c, i)
  <2>1. ASSUME NEW u \in PlannedUnits(c) PROVE u[1] # key
    <3>1. PICK j \in 1..Len(c.models) :
               /\ u[1] = c.models[j].key
               /\ \E p \in 1..Len(ReasoningRounds(c.models[j])) : u[2] = ReasoningRounds(c.models[j])[p]
      BY PlannedUnit
    <3>2. j # i
      BY <1>9, <3>1
    <3> QED
      BY <1>1, <3>1, <3>2
  <2> QED
    BY <1>3, <2>1 DEF UnitsBefore
<1>10. UnitsBefore(c, 1) = {} /\ UnitsBefore(c, Len(c.models) + 1) = PlannedUnits(c)
  BY <1>4, <1>5, <1>7 DEF UnitsBefore
<1>11. KeysBefore(c, 1) = {} /\ KeysBefore(c, Len(c.models) + 1) = Round4Keys(c)
  BY <1>4, <1>5, <1>6 DEF KeysBefore
<1>12. KeysBefore(c, i + 1) = KeysBefore(c, i) \cup ({key} \cap Round4Keys(c))
  BY <1>3 DEF KeysBefore
<1>13. key \notin KeysBefore(c, i)
  BY <1>2 DEF KeysBefore
<1>14. key \in Round4Keys(c) <=> 4 \in Range(c.models[i].rounds)
  BY <1>1, <1>6 DEF Round4Keys
<1> QED
  BY <1>8, <1>9, <1>10, <1>11, <1>12, <1>13, <1>14

\* A sum over the elements of S that are in P.
Masked(S, P, f) == [y \in S |-> IF y \in P THEN f[y] ELSE 0]

Total(S, P, f) == Sigma(Masked(S, P, f), S)

\* A sum is unchanged when no summand of it changes.
LEMMA TotalStays ==
    ASSUME NEW S, IsFiniteSet(S), NEW P, NEW f, NEW h, \A y \in P : h[y] = f[y],
           \A y \in P : f[y] \in Nat
    PROVE  Total(S, P, h) = Total(S, P, f) /\ Total(S, P, f) \in Nat
<1>1. Masked(S, P, h) = Masked(S, P, f)
  BY DEF Masked
<1>2. \A y \in S : Masked(S, P, f)[y] \in Nat
  BY DEF Masked
<1> QED
  BY <1>1, <1>2, SigmaNat DEF Total

\* A sum over one more element.
LEMMA TotalGrows ==
    ASSUME NEW S, IsFiniteSet(S), NEW P, NEW Q, NEW x \in S, x \notin P, Q = P \cup {x}, NEW f, NEW h,
           \A y \in P : h[y] = f[y], \A y \in P : f[y] \in Nat, h[x] \in Nat
    PROVE  Total(S, Q, h) = Total(S, P, f) + h[x]
<1> DEFINE w == Masked(S, P, f)
           v == Masked(S, Q, h)
<1>1. /\ \A y \in S : w[y] \in Nat /\ v[y] \in Nat
      /\ \A y \in S : y # x => v[y] = w[y]
      /\ w[x] = 0 /\ v[x] = h[x]
  BY DEF Masked
<1> HIDE DEF w, v
<1>2. Sigma(w, S) + v[x] = Sigma(v, S) + w[x]
  BY <1>1, SigmaUpdate
<1>3. Sigma(w, S) \in Nat /\ Sigma(v, S) \in Nat
  BY <1>1, SigmaNat
<1>4. Sigma(v, S) = Sigma(w, S) + h[x]
  BY <1>1, <1>2, <1>3
<1> QED
  BY <1>4 DEF w, v, Total

\* The sum over nothing.
LEMMA TotalOfNone ==
    ASSUME NEW S, IsFiniteSet(S), NEW f
    PROVE  Total(S, {}, f) = 0
<1>1. \A y \in S : Masked(S, {}, f)[y] = 0
  BY DEF Masked
<1> QED
  BY <1>1, SigmaOfNothing DEF Total

\* The sum over all elements is that of SumFunction.
LEMMA TotalOfAll ==
    ASSUME NEW S, IsFiniteSet(S), NEW f, \A y \in S : f[y] \in Nat, NEW h, \A y \in S : h[y] = f[y]
    PROVE  SumFunctionOnSet(h, S) = Total(S, S, f)
<1>1. SumFunctionOnSet(h, S) = Sigma(h, S)
  BY SumOfFunction
<1>2. \A y \in S : Masked(S, S, f)[y] = f[y] /\ h[y] = Masked(S, S, f)[y]
  BY DEF Masked
<1>3. Sigma(h, S) = Sigma(Masked(S, S, f), S)
  BY <1>2, SigmaSame
<1> QED
  BY <1>1, <1>3 DEF Total

\* The status a runner sends to the display for a row, the rows of a list with the
\* status s, and the grades and errors of a round 4 with it.
Mark(r, row) == IF r = 3 THEN mark3(row) ELSE row.status

Marked(r, rs, s) == Cardinality({n \in 1..Len(rs) : Mark(r, rs[n]) = s})

Tally4(p, s) ==
    CASE s = "PASS" -> Cardinality({n \in 1..Len(p.grades) : p.grades[n].attempt_pass})
      [] s = "FAIL" -> Cardinality({n \in 1..Len(p.grades) : ~p.grades[n].attempt_pass})
      [] s = "INVALID" -> Len(p.errors)
      [] OTHER -> 0

\* A count of rows by status is a natural number, 0 for no rows.
LEMMA MarkedType ==
    ASSUME NEW r, NEW S, NEW rs \in Seq(S), NEW s
    PROVE  Marked(r, rs, s) \in Nat /\ (rs = <<>> => Marked(r, rs, s) = 0)
<1> DEFINE T == {n \in 1..Len(rs) : Mark(r, rs[n]) = s}
<1>1. T \in SUBSET (1..Len(rs))
  OBVIOUS
<1>2. rs = <<>> => T = {}
  OBVIOUS
<1> HIDE DEF T
<1>3. Cardinality(T) \in Nat
  BY <1>1, CountType
<1>4. rs = <<>> => Cardinality(T) = 0
  BY <1>2, FS_EmptySet
<1> QED
  BY <1>3, <1>4 DEF Marked, T

\* One more row.
LEMMA CountOneMore ==
    ASSUME NEW k \in Nat, NEW A, NEW B, A \subseteq 1..k, B \subseteq 1..(k + 1), NEW hit \in BOOLEAN,
           \A n \in 1..k : n \in B <=> n \in A, k + 1 \in B <=> hit
    PROVE  Cardinality(B) = Cardinality(A) + (IF hit THEN 1 ELSE 0) /\ Cardinality(A) \in Nat
<1>1. IsFiniteSet(A)
  BY UpTo, FS_Subset
<1>2. k + 1 \notin A
  <2>1. \A n \in A : n <= k
    OBVIOUS
  <2> QED
    BY <2>1
<1>3. B = IF hit THEN A \cup {k + 1} ELSE A
  <2>1. \A n \in 1..(k + 1) : n \in 1..k \/ n = k + 1
    OBVIOUS
  <2>2. \A n \in 1..k : n \in 1..(k + 1)
    OBVIOUS
  <2>3. \A n : n \in B <=> (n \in A \/ (n = k + 1 /\ hit))
    BY <1>2, <2>1, <2>2
  <2> QED
    BY <2>3
<1>4. Cardinality(A) \in Nat
  BY <1>1, FS_CardinalityType
<1>5. hit => Cardinality(B) = Cardinality(A) + 1
  BY <1>1, <1>2, <1>3, FS_AddElement
<1>6. ~hit => Cardinality(B) = Cardinality(A)
  BY <1>3
<1> QED
  BY <1>4, <1>5, <1>6

\* One more row is counted under the status it is displayed with.
LEMMA MarkedOne ==
    ASSUME NEW r, NEW S, NEW rs \in Seq(S), NEW row \in S, NEW s
    PROVE  Marked(r, Append(rs, row), s) = Marked(r, rs, s) + (IF Mark(r, row) = s THEN 1 ELSE 0)
<1> DEFINE k == Len(rs)
           more == Append(rs, row)
           A == {n \in 1..k : Mark(r, rs[n]) = s}
           B == {n \in 1..Len(more) : Mark(r, more[n]) = s}
           hit == Mark(r, row) = s
<1>1. k \in Nat /\ Len(more) = k + 1 /\ more[k + 1] = row /\ \A n \in 1..k : more[n] = rs[n]
  OBVIOUS
<1>2. k + 1 \in 1..(k + 1) /\ \A n \in 1..k : n \in 1..(k + 1)
  BY <1>1
<1> HIDE DEF k, more
<1>3. /\ A \subseteq 1..k /\ B \subseteq 1..(k + 1) /\ hit \in BOOLEAN
      /\ \A n \in 1..k : n \in B <=> n \in A
      /\ k + 1 \in B <=> hit
  BY <1>1, <1>2
<1> HIDE DEF A, B, hit
<1>4. Cardinality(B) = Cardinality(A) + (IF hit THEN 1 ELSE 0)
  BY <1>1, <1>3, CountOneMore, ZenonT(60)
<1> QED
  BY <1>4 DEF A, B, hit, k, more, Marked

\* So is the count of the grades and errors of a round 4.
LEMMA Tally4Type ==
    ASSUME NEW p, p.grades \in Seq(Grade), p.errors \in Seq(Error), NEW s
    PROVE  Tally4(p, s) \in Nat
<1> DEFINE gs == p.grades
           T == {n \in 1..Len(gs) : gs[n].attempt_pass}
           F == {n \in 1..Len(gs) : ~gs[n].attempt_pass}
<1>1. T \in SUBSET (1..Len(gs)) /\ F \in SUBSET (1..Len(gs)) /\ gs \in Seq(Grade)
  OBVIOUS
<1>2. Len(p.errors) \in Nat
  OBVIOUS
<1> HIDE DEF T, F, gs
<1>3. Cardinality(T) \in Nat /\ Cardinality(F) \in Nat
  BY <1>1, CountType
<1> QED
  BY <1>2, <1>3 DEF T, F, gs, Tally4

\* One more grade or error.
LEMMA Tally4One ==
    ASSUME NEW p \in Memories, NEW g \in Grade, NEW e \in Error, NEW s \in Statuses
    PROVE  /\ Tally4([p EXCEPT !.grades = Append(@, g)], s)
                = Tally4(p, s) + (IF s = (IF g.attempt_pass THEN "PASS" ELSE "FAIL") THEN 1 ELSE 0)
           /\ Tally4([p EXCEPT !.errors = Append(@, e)], s)
                = Tally4(p, s) + (IF s = "INVALID" THEN 1 ELSE 0)
<1> DEFINE gs == p.grades
           es == p.errors
           more == Append(gs, g)
           pg == [p EXCEPT !.grades = Append(@, g)]
           pe == [p EXCEPT !.errors = Append(@, e)]
           k == Len(gs)
           A == {n \in 1..k : gs[n].attempt_pass}
           B == {n \in 1..Len(more) : more[n].attempt_pass}
           C == {n \in 1..k : ~gs[n].attempt_pass}
           D == {n \in 1..Len(more) : ~more[n].attempt_pass}
           hit == g.attempt_pass
<1>1. gs \in Seq(Grade) /\ es \in Seq(Error) /\ p = [grades |-> gs, errors |-> es] /\ hit \in BOOLEAN
  BY DEF Memories, Grade
<1>2. /\ pg.grades = more /\ pg.errors = es
      /\ pe.grades = gs /\ pe.errors = Append(es, e)
  BY <1>1
<1>3. /\ k \in Nat /\ Len(more) = k + 1 /\ more[k + 1] = g /\ \A n \in 1..k : more[n] = gs[n]
      /\ Len(Append(es, e)) = Len(es) + 1 /\ Len(es) \in Nat
  BY <1>1
<1>4. k + 1 \in 1..(k + 1) /\ \A n \in 1..k : n \in 1..(k + 1)
  BY <1>3
<1> HIDE DEF k, more, gs, es, pg, pe
<1>5. /\ A \subseteq 1..k /\ B \subseteq 1..(k + 1) /\ C \subseteq 1..k /\ D \subseteq 1..(k + 1)
      /\ \A n \in 1..k : (n \in B <=> n \in A) /\ (n \in D <=> n \in C)
      /\ (k + 1 \in B <=> hit) /\ (k + 1 \in D <=> ~hit)
  BY <1>3, <1>4
<1>6. /\ Tally4(pg, s) = CASE s = "PASS" -> Cardinality(B) [] s = "FAIL" -> Cardinality(D)
                           [] s = "INVALID" -> Len(es) [] OTHER -> 0
      /\ Tally4(pe, s) = CASE s = "PASS" -> Cardinality(A) [] s = "FAIL" -> Cardinality(C)
                           [] s = "INVALID" -> Len(es) + 1 [] OTHER -> 0
      /\ Tally4(p, s) = CASE s = "PASS" -> Cardinality(A) [] s = "FAIL" -> Cardinality(C)
                           [] s = "INVALID" -> Len(es) [] OTHER -> 0
  BY <1>2, <1>3 DEF Tally4, k, gs, es
<1> HIDE DEF A, B, C, D, hit
<1>7. Cardinality(B) = Cardinality(A) + (IF hit THEN 1 ELSE 0) /\ Cardinality(A) \in Nat
  BY <1>1, <1>3, <1>5, CountOneMore, ZenonT(60)
<1>8. Cardinality(D) = Cardinality(C) + (IF ~hit THEN 1 ELSE 0) /\ Cardinality(C) \in Nat
  <2>1. (~hit) \in BOOLEAN
    OBVIOUS
  <2> QED
    BY <1>3, <1>5, <2>1, CountOneMore, ZenonT(60)
<1>9. Tally4(pg, s) = Tally4(p, s) + (IF s = (IF hit THEN "PASS" ELSE "FAIL") THEN 1 ELSE 0)
  BY <1>1, <1>3, <1>6, <1>7, <1>8 DEF Statuses
<1>10. Tally4(pe, s) = Tally4(p, s) + (IF s = "INVALID" THEN 1 ELSE 0)
  BY <1>3, <1>6, <1>7, <1>8 DEF Statuses
<1> QED
  BY <1>9, <1>10 DEF pg, pe, hit

\* The units and the round 4s the loops have passed.
PassedUnits ==
    CASE InReasoning -> UnitsAsked(cfg, mi, ri, at)
      [] pc = "round4" \/ InRound4 -> UnitsBefore(cfg, mi + 1)
      [] OTHER -> PlannedUnits(cfg)

PassedKeys ==
    IF InReasoning \/ InRound4 \/ pc = "round4" THEN KeysBefore(cfg, mi) ELSE Round4Keys(cfg)

\* At the start of a model the units of the models before it are passed.
LEMMA PassedStart ==
    ASSUME NEW c \in Configs, NEW i \in 1..Len(c.models), StartModel(c, i), cfg' = c
    PROVE  PassedUnits' = UnitsBefore(c, i) /\ PassedKeys' = KeysBefore(c, i)
<1>1. /\ mi' = i /\ ri' = 1 /\ at' = 1
      /\ pc' = IF ReasoningRounds(c.models[i]) # <<>> THEN "unit" ELSE "round4"
  BY DEF StartModel
<1>2. /\ ReasoningRounds(c.models[i]) # <<>> => UnitsAsked(c, i, 1, 1) = UnitsBefore(c, i)
      /\ ReasoningRounds(c.models[i]) = <<>> => UnitsBefore(c, i + 1) = UnitsBefore(c, i)
  BY KeysGrow
<1>3. CASE ReasoningRounds(c.models[i]) # <<>>
  BY <1>1, <1>2, <1>3 DEF PassedUnits, PassedKeys
<1>4. CASE ReasoningRounds(c.models[i]) = <<>>
  BY <1>1, <1>2, <1>4 DEF PassedUnits, PassedKeys
<1> QED
  BY <1>3, <1>4

\* The loops of _execute pass the unit they leave, and no other.
LEMMA PassedUnit ==
    ASSUME TypeInv, InReasoning, NextUnit, cfg' = cfg
    PROVE  /\ Unit \in PlannedUnits(cfg) /\ Unit \notin PassedUnits
           /\ PassedUnits' = PassedUnits \cup {Unit} /\ PassedKeys' = PassedKeys
<1> DEFINE order == ReasoningRounds(cfg.models[mi])
           U(k, a) == UnitsAsked(cfg, mi, k, a)
<1>1. /\ cfg \in Configs /\ mi \in 1..Len(cfg.models)
      /\ ri \in 1..Len(order) /\ at \in 1..cfg.repetitions
      /\ Unit = <<cfg.models[mi].key, order[ri], at>> /\ order = ReasoningRounds(Model)
  BY DEF TypeInv, TypeOK, LoopInv, Model, Unit, Round
<1>2. cfg.repetitions \in Nat /\ Len(order) \in Nat
  BY <1>1, PlanFacts, RoundOrder
<1>3. \A k \in 1..Len(order), a \in 1..cfg.repetitions :
        LET x == <<cfg.models[mi].key, order[k], a>>
        IN /\ x \in PlannedUnits(cfg) /\ x \notin U(k, a)
           /\ a < cfg.repetitions => U(k, a + 1) = U(k, a) \cup {x}
           /\ a >= cfg.repetitions /\ k < Len(order) => U(k + 1, 1) = U(k, a) \cup {x}
           /\ a >= cfg.repetitions /\ k >= Len(order) => UnitsBefore(cfg, mi + 1) = U(k, a) \cup {x}
  BY <1>1, UnitsGrow, ZenonT(60)
<1> HIDE DEF U, order
<1>4. /\ Unit \in PlannedUnits(cfg) /\ Unit \notin U(ri, at)
      /\ at < cfg.repetitions => U(ri, at + 1) = U(ri, at) \cup {Unit}
      /\ at >= cfg.repetitions /\ ri < Len(order) => U(ri + 1, 1) = U(ri, at) \cup {Unit}
      /\ at >= cfg.repetitions /\ ri >= Len(order) => UnitsBefore(cfg, mi + 1) = U(ri, at) \cup {Unit}
  BY <1>1, <1>3
<1>5. PassedUnits = U(ri, at) /\ PassedKeys = KeysBefore(cfg, mi)
  BY DEF PassedUnits, PassedKeys, U
<1>6. CASE at < cfg.repetitions /\ at' = at + 1 /\ pc' = "unit" /\ UNCHANGED <<mi, ri>>
  <2>1. PassedUnits' = U(ri, at + 1) /\ PassedKeys' = KeysBefore(cfg, mi)
    BY <1>6 DEF PassedUnits, PassedKeys, U
  <2> QED
    BY <1>4, <1>5, <1>6, <2>1
<1>7. CASE /\ at >= cfg.repetitions /\ ri < Len(order) /\ ri' = ri + 1 /\ at' = 1
           /\ pc' = "unit" /\ UNCHANGED mi
  <2>1. PassedUnits' = U(ri + 1, 1) /\ PassedKeys' = KeysBefore(cfg, mi)
    BY <1>7 DEF PassedUnits, PassedKeys, U
  <2> QED
    BY <1>4, <1>5, <1>7, <2>1
<1>8. CASE at >= cfg.repetitions /\ ri >= Len(order) /\ pc' = "round4" /\ UNCHANGED loop
  <2>1. PassedUnits' = UnitsBefore(cfg, mi + 1) /\ PassedKeys' = KeysBefore(cfg, mi)
    BY <1>8 DEF PassedUnits, PassedKeys, loop
  <2> QED
    BY <1>4, <1>5, <1>8, <2>1
<1> QED
  BY <1>1, <1>6, <1>7, <1>8 DEF NextUnit

\* Leaving a model passes its round 4, if it has one, and no unit of rounds 1 to 3.
LEMMA PassedModel ==
    ASSUME TypeInv, pc \in {"round4", "dump"}, NextModel, cfg' = cfg
    PROVE  /\ PassedUnits' = PassedUnits
           /\ PassedKeys' = PassedKeys \cup ({Model.key} \cap Round4Keys(cfg))
           /\ Model.key \notin PassedKeys
           /\ Model.key \in Round4Keys(cfg) <=> 4 \in Range(Model.rounds)
<1>1. /\ cfg \in Configs /\ mi \in 1..Len(cfg.models) /\ Model = cfg.models[mi]
  BY DEF TypeInv, TypeOK, LoopInv, Model
<1>2. Len(cfg.models) \in Nat /\ mi \in Nat
  <2>1. cfg.models \in Seq(ModelConfig)
    BY <1>1, PlanFacts
  <2> QED
    BY <1>1, <2>1
<1>3. PassedUnits = UnitsBefore(cfg, mi + 1) /\ PassedKeys = KeysBefore(cfg, mi)
  BY DEF PassedUnits, PassedKeys
<1>4. /\ KeysBefore(cfg, mi + 1) = KeysBefore(cfg, mi) \cup ({Model.key} \cap Round4Keys(cfg))
      /\ Model.key \notin KeysBefore(cfg, mi)
      /\ Model.key \in Round4Keys(cfg) <=> 4 \in Range(Model.rounds)
      /\ UnitsBefore(cfg, Len(cfg.models) + 1) = PlannedUnits(cfg)
      /\ KeysBefore(cfg, Len(cfg.models) + 1) = Round4Keys(cfg)
  BY <1>1, KeysGrow
<1>5. PassedUnits' = UnitsBefore(cfg, mi + 1) /\ PassedKeys' = KeysBefore(cfg, mi + 1)
  <2>1. CASE mi < Len(cfg.models) /\ StartModel(cfg, mi + 1)
    <3>1. mi + 1 \in 1..Len(cfg.models)
      BY <1>2, <2>1
    <3> QED
      BY <1>1, <2>1, <3>1, PassedStart
  <2>2. CASE mi >= Len(cfg.models) /\ pc' \in {"finish", "collect"} /\ UNCHANGED loop
    <3>1. mi + 1 = Len(cfg.models) + 1
      BY <1>1, <1>2, <2>2
    <3>2. PassedUnits' = PlannedUnits(cfg) /\ PassedKeys' = Round4Keys(cfg)
      BY <2>2 DEF PassedUnits, PassedKeys
    <3> QED
      BY <1>4, <3>1, <3>2
  <2> QED
    BY <2>1, <2>2 DEF NextModel
<1> QED
  BY <1>3, <1>4, <1>5

\* What is passed is planned.
LEMMA PassedArePlanned ==
    PassedUnits \subseteq PlannedUnits(cfg) /\ PassedKeys \subseteq Round4Keys(cfg)
BY DEF PassedUnits, PassedKeys, UnitsAsked, UnitsBefore, KeysBefore

UnitMarks(s) == [u \in PlannedUnits(cfg) |-> Marked(u[2], result[u].results, s)]

KeyMarks(s) == [m \in Round4Keys(cfg) |-> Tally4(run4[m], s)]

UnitTotal(s) == Total(PlannedUnits(cfg), PassedUnits, UnitMarks(s))

KeyTotal(s) == Total(Round4Keys(cfg), PassedKeys, KeyMarks(s))

OnScreen(s) == (UnitTotal(s) + Marked(Round, rows, s)) + (KeyTotal(s) + Tally4(r4, s))

Counting == /\ command = "run" /\ dashboard.skipped = 0
            /\ pc # "idle" \/ outcome = "success"

PassedSaved == /\ \A u \in PassedUnits : result[u] \in Payload
               /\ \A m \in PassedKeys : run4[m] \in Payload4

TallyInv == Counting => PassedSaved /\ \A s \in Statuses : dashboard.tally[s] = OnScreen(s)

\* The counts of what is saved are numbers.
LEMMA MarksType ==
    ASSUME NEW s
    PROVE  /\ \A u : result[u] \in Payload => Marked(u[2], result[u].results, s) \in Nat
           /\ \A m : run4[m] \in Payload4 => Tally4(run4[m], s) \in Nat
           /\ Marked(Round, <<>>, s) = 0 /\ Tally4(EmptyR4, s) = 0
<1>1. ASSUME NEW u, result[u] \in Payload PROVE Marked(u[2], result[u].results, s) \in Nat
  <2>1. result[u].results \in Seq(Row(Items))
    BY <1>1 DEF Payload
  <2> QED
    BY <2>1, MarkedType
<1>2. ASSUME NEW m, run4[m] \in Payload4 PROVE Tally4(run4[m], s) \in Nat
  <2>1. run4[m].grades \in Seq(Grade) /\ run4[m].errors \in Seq(Error)
    BY <1>2 DEF Payload4
  <2> QED
    BY <2>1, Tally4Type
<1>3. Marked(Round, <<>>, s) = 0
  <2>1. <<>> \in Seq(Row(Items))
    OBVIOUS
  <2> QED
    BY <2>1, MarkedType
<1>4. Tally4(EmptyR4, s) = 0
  <2> DEFINE gs == EmptyR4.grades
  <2>1. gs = <<>> /\ EmptyR4.errors = <<>>
    BY DEF EmptyR4
  <2>2. {n \in 1..Len(gs) : gs[n].attempt_pass} = {} /\ {n \in 1..Len(gs) : ~gs[n].attempt_pass} = {}
    BY <2>1
  <2>3. Len(EmptyR4.errors) = 0
    BY <2>1
  <2>4. Cardinality({}) = 0
    BY FS_EmptySet
  <2> QED
    BY <2>2, <2>3, <2>4 DEF Tally4
<1> QED
  BY <1>1, <1>2, <1>3, <1>4

\* What is passed and saved stays counted.
LEMMA TotalsStay ==
    ASSUME cfg \in Configs, PassedSaved, cfg' = cfg, NEW s
    PROVE  /\ UnitTotal(s) \in Nat /\ KeyTotal(s) \in Nat
           /\ PassedUnits' = PassedUnits /\ (\A u \in PassedUnits : result'[u] = result[u]) =>
                UnitTotal(s)' = UnitTotal(s)
           /\ PassedKeys' = PassedKeys /\ (\A m \in PassedKeys : run4'[m] = run4[m]) =>
                KeyTotal(s)' = KeyTotal(s)
<1> DEFINE S == PlannedUnits(cfg)
           K == Round4Keys(cfg)
           f == UnitMarks(s)
           h == [u \in S |-> Marked(u[2], result'[u].results, s)]
           f4 == KeyMarks(s)
           h4 == [m \in K |-> Tally4(run4'[m], s)]
<1>1. IsFiniteSet(S) /\ IsFiniteSet(K) /\ PassedUnits \subseteq S /\ PassedKeys \subseteq K
  BY PlanIsFinite, PassedArePlanned
<1>2. (\A u \in PassedUnits : f[u] \in Nat) /\ (\A m \in PassedKeys : f4[m] \in Nat)
  BY <1>1, MarksType DEF PassedSaved, UnitMarks, KeyMarks
<1>3. /\ (\A u \in PassedUnits : result'[u] = result[u]) => \A u \in PassedUnits : h[u] = f[u]
      /\ (\A m \in PassedKeys : run4'[m] = run4[m]) => \A m \in PassedKeys : h4[m] = f4[m]
  BY <1>1 DEF UnitMarks, KeyMarks
<1>4. /\ UnitTotal(s) = Total(S, PassedUnits, f) /\ KeyTotal(s) = Total(K, PassedKeys, f4)
      /\ PassedUnits' = PassedUnits => UnitTotal(s)' = Total(S, PassedUnits, h)
      /\ PassedKeys' = PassedKeys => KeyTotal(s)' = Total(K, PassedKeys, h4)
  BY DEF UnitTotal, KeyTotal, UnitMarks, KeyMarks
<1> HIDE DEF S, K, f, h, f4, h4
<1>5. /\ Total(S, PassedUnits, f) \in Nat
      /\ (\A u \in PassedUnits : h[u] = f[u]) => Total(S, PassedUnits, h) = Total(S, PassedUnits, f)
  BY <1>1, <1>2, TotalStays
<1>6. /\ Total(K, PassedKeys, f4) \in Nat
      /\ (\A m \in PassedKeys : h4[m] = f4[m]) => Total(K, PassedKeys, h4) = Total(K, PassedKeys, f4)
  BY <1>1, <1>2, TotalStays
<1> QED
  BY <1>3, <1>4, <1>5, <1>6

\* One more unit is passed, with what is then saved of it.
LEMMA UnitTotalGrows ==
    ASSUME cfg \in Configs, PassedSaved, cfg' = cfg, NEW s, NEW x \in PlannedUnits(cfg),
           x \notin PassedUnits, PassedUnits' = PassedUnits \cup {x},
           \A u \in PassedUnits : result'[u] = result[u], result'[x] \in Payload
    PROVE  UnitTotal(s)' = UnitTotal(s) + Marked(x[2], result'[x].results, s)
<1> DEFINE S == PlannedUnits(cfg)
           f == UnitMarks(s)
           Q == PassedUnits'
           h == [u \in S |-> Marked(u[2], result'[u].results, s)]
<1>1. IsFiniteSet(S) /\ PassedUnits \subseteq S
  BY PlanIsFinite, PassedArePlanned
<1>2. \A u \in PassedUnits : f[u] \in Nat
  BY <1>1, MarksType DEF PassedSaved, UnitMarks
<1>3. /\ \A u \in PassedUnits : h[u] = f[u]
      /\ h[x] = Marked(x[2], result'[x].results, s)
  BY <1>1 DEF UnitMarks
<1>4. h[x] \in Nat
  <2>1. result'[x].results \in Seq(Row(Items))
    BY DEF Payload
  <2> QED
    BY <1>3, <2>1, MarkedType
<1>5. /\ UnitTotal(s) = Total(S, PassedUnits, f)
      /\ UnitTotal(s)' = Total(S, Q, h)
  BY DEF UnitTotal, UnitMarks
<1>6. x \in S
  OBVIOUS
<1> DEFINE P == PassedUnits
<1>a. x \notin P /\ Q = P \cup {x} /\ (\A y \in P : h[y] = f[y]) /\ (\A y \in P : f[y] \in Nat)
  BY <1>2, <1>3
<1> HIDE DEF S, P, Q, f, h
<1>7. Total(S, Q, h) = Total(S, P, f) + h[x]
  BY <1>1, <1>4, <1>6, <1>a, TotalGrows
<1> QED
  BY <1>3, <1>5, <1>7 DEF P

\* One more round 4 is passed, with what is then saved of it.
LEMMA KeyTotalGrows ==
    ASSUME cfg \in Configs, PassedSaved, cfg' = cfg, NEW s, NEW x \in Round4Keys(cfg),
           x \notin PassedKeys, PassedKeys' = PassedKeys \cup {x},
           \A m \in PassedKeys : run4'[m] = run4[m], run4'[x] \in Payload4
    PROVE  KeyTotal(s)' = KeyTotal(s) + Tally4(run4'[x], s)
<1> DEFINE S == Round4Keys(cfg)
           f == KeyMarks(s)
           Q == PassedKeys'
           h == [m \in S |-> Tally4(run4'[m], s)]
<1>1. IsFiniteSet(S) /\ PassedKeys \subseteq S
  BY PlanIsFinite, PassedArePlanned
<1>2. \A m \in PassedKeys : f[m] \in Nat
  BY <1>1, MarksType DEF PassedSaved, KeyMarks
<1>3. /\ \A m \in PassedKeys : h[m] = f[m]
      /\ h[x] = Tally4(run4'[x], s)
  BY <1>1 DEF KeyMarks
<1>4. h[x] \in Nat
  <2>1. run4'[x].grades \in Seq(Grade) /\ run4'[x].errors \in Seq(Error)
    BY DEF Payload4
  <2> QED
    BY <1>3, <2>1, Tally4Type
<1>5. /\ KeyTotal(s) = Total(S, PassedKeys, f)
      /\ KeyTotal(s)' = Total(S, Q, h)
  BY DEF KeyTotal, KeyMarks
<1>6. x \in S
  OBVIOUS
<1> DEFINE P == PassedKeys
<1>a. x \notin P /\ Q = P \cup {x} /\ (\A y \in P : h[y] = f[y]) /\ (\A y \in P : f[y] \in Nat)
  BY <1>2, <1>3
<1> HIDE DEF S, P, Q, f, h
<1>7. Total(S, Q, h) = Total(S, P, f) + h[x]
  BY <1>1, <1>4, <1>6, <1>a, TotalGrows
<1> QED
  BY <1>3, <1>5, <1>7 DEF P

\* Every step keeps the counters on the screen those of the rows.
LEMMA TallyStep == BarFacts /\ BarInv /\ TallyInv /\ [Next]_vars => TallyInv'
<1> SUFFICES ASSUME TypeInv, ResultsInv, RetryInv, ReportInv, Run4Inv, WorkInv, BarInv, TallyInv,
                    [Next]_vars
             PROVE  TallyInv'
  BY DEF BarFacts
<1> USE DEF disk, proc, loop
<1>a. TypeInv'
  BY TypeStep
<1>b. /\ cfg \in Configs /\ rows \in Seq(Row(Items)) /\ r4 \in Memories /\ OneConfig
      /\ rows' \in Seq(Row(Items)) /\ r4' \in Memories
      /\ dashboard.skipped \in Nat
      /\ \A s \in Statuses : dashboard.tally[s] \in Nat
  BY <1>a DEF TypeInv, TypeOK, Memories, ResultsInv
<1>c. ASSUME NEW s
      PROVE  /\ Marked(Round, rows, s) \in Nat /\ Marked(Round', rows', s) \in Nat
             /\ Tally4(r4, s) \in Nat /\ Tally4(r4', s) \in Nat
  <2>1. /\ r4.grades \in Seq(Grade) /\ r4.errors \in Seq(Error)
        /\ r4'.grades \in Seq(Grade) /\ r4'.errors \in Seq(Error)
    BY <1>b DEF Memories
  <2> QED
    BY <1>b, <2>1, MarkedType, Tally4Type
<1>e. ASSUME NEW how, how # "success", End(how)
      PROVE  TallyInv'
  BY <1>e DEF End, TallyInv, Counting
\* A step of a working process.
<1>r. ASSUME pc # "idle", command' = command, Counting', dashboard.skipped = 0
      PROVE  PassedSaved /\ \A s \in Statuses : dashboard.tally[s] = OnScreen(s)
  BY <1>r DEF Counting, TallyInv
\* Nothing more is passed: the counters move with the current rows, grades and errors.
<1>m. ASSUME pc # "idle", UNCHANGED <<cfg, command>>, dashboard'.skipped = dashboard.skipped,
             PassedUnits' = PassedUnits, PassedKeys' = PassedKeys,
             \A u \in PassedUnits : result'[u] = result[u],
             \A m \in PassedKeys : run4'[m] = run4[m],
             \A s \in Statuses : \E n \in Nat :
               /\ dashboard'.tally[s] = dashboard.tally[s] + n
               /\ Marked(Round', rows', s) + Tally4(r4', s)
                    = (Marked(Round, rows, s) + Tally4(r4, s)) + n
      PROVE  TallyInv'
  <2> SUFFICES ASSUME Counting'
               PROVE  PassedSaved' /\ \A s \in Statuses : dashboard'.tally[s] = OnScreen(s)'
    BY DEF TallyInv
  <2>1. PassedSaved /\ \A s \in Statuses : dashboard.tally[s] = OnScreen(s)
    BY <1>m, <1>r DEF Counting
  <2>2. PassedSaved'
    BY <1>m, <2>1 DEF PassedSaved
  <2>3. ASSUME NEW s \in Statuses PROVE dashboard'.tally[s] = OnScreen(s)'
    <3>1. /\ UnitTotal(s) \in Nat /\ KeyTotal(s) \in Nat
          /\ UnitTotal(s)' = UnitTotal(s) /\ KeyTotal(s)' = KeyTotal(s)
      BY <1>b, <1>m, <2>1, TotalsStay
    <3>2. PICK n \in Nat :
            /\ dashboard'.tally[s] = dashboard.tally[s] + n
            /\ Marked(Round', rows', s) + Tally4(r4', s)
                 = (Marked(Round, rows, s) + Tally4(r4, s)) + n
      BY <1>m
    <3> DEFINE A == UnitTotal(s)
               B == Marked(Round, rows, s)
               C == KeyTotal(s)
               D == Tally4(r4, s)
               E == Marked(Round', rows', s)
               F == Tally4(r4', s)
    <3>3. /\ dashboard.tally[s] = (A + B) + (C + D) /\ OnScreen(s)' = (A + E) + (C + F)
      BY <2>1, <3>1 DEF OnScreen
    <3>4. A \in Nat /\ B \in Nat /\ C \in Nat /\ D \in Nat /\ E \in Nat /\ F \in Nat
      BY <1>c, <3>1
    <3>5. E + F = (B + D) + n
      BY <3>2
    <3> HIDE DEF A, B, C, D, E, F
    <3>6. ((A + B) + (C + D)) + n = (A + E) + (C + F)
      BY <3>4, <3>5
    <3> QED
      BY <3>2, <3>3, <3>6
  <2> QED
    BY <2>2, <2>3
\* Outside of the reasoning loops there are no rows.
<1>z. ASSUME pc # "ask", rows' = rows
      PROVE  \A s : Marked(Round', rows', s) = 0 /\ Marked(Round, rows, s) = 0
  <2>1. rows = <<>> /\ <<>> \in Seq(Row(Items))
    BY <1>z DEF TypeInv, LoopInv
  <2> QED
    BY <1>z, <2>1, MarkedType
<1>k. ASSUME pc # "idle", UNCHANGED <<cfg, command, dashboard, rows, r4>>,
             pc # "ask" \/ Round' = Round,
             PassedUnits' = PassedUnits, PassedKeys' = PassedKeys,
             \A u \in PassedUnits : result'[u] = result[u],
             \A m \in PassedKeys : run4'[m] = run4[m]
      PROVE  TallyInv'
  <2>1. ASSUME NEW s \in Statuses
        PROVE  \E n \in Nat :
               /\ dashboard'.tally[s] = dashboard.tally[s] + n
               /\ Marked(Round', rows', s) + Tally4(r4', s)
                    = (Marked(Round, rows, s) + Tally4(r4, s)) + n
    <3>1. /\ dashboard.tally[s] \in Nat /\ Marked(Round, rows, s) + Tally4(r4, s) \in Nat
          /\ Marked(Round', rows', s) = Marked(Round, rows, s) /\ Tally4(r4', s) = Tally4(r4, s)
          /\ dashboard'.tally[s] = dashboard.tally[s]
      BY <1>b, <1>c, <1>k, <1>z
    <3>2. /\ dashboard'.tally[s] = dashboard.tally[s] + 0
          /\ Marked(Round', rows', s) + Tally4(r4', s) = (Marked(Round, rows, s) + Tally4(r4, s)) + 0
      BY <3>1
    <3> QED
      BY <3>2
  <2> QED
    BY <1>k, <1>m, <2>1

\* One more unit is passed, and what was counted of it is now counted in its result.
<1>u. ASSUME InReasoning, NextUnit, UNCHANGED <<cfg, command, run4, r4>>, rows' = <<>>,
             dashboard.skipped = 0, dashboard'.tally = dashboard.tally,
             \A u \in Units : u # Unit => result'[u] = result[u], result'[Unit] \in Payload,
             \A s : Marked(Unit[2], result'[Unit].results, s) = Marked(Round, rows, s)
      PROVE  TallyInv'
  <2> SUFFICES ASSUME Counting'
               PROVE  PassedSaved' /\ \A s \in Statuses : dashboard'.tally[s] = OnScreen(s)'
    BY DEF TallyInv
  <2>1. PassedSaved /\ \A s \in Statuses : dashboard.tally[s] = OnScreen(s)
    BY <1>r, <1>u
  <2>2. /\ Unit \in PlannedUnits(cfg) /\ Unit \notin PassedUnits
        /\ PassedUnits' = PassedUnits \cup {Unit} /\ PassedKeys' = PassedKeys
    BY <1>u, PassedUnit
  <2>3. \A u \in PassedUnits : result'[u] = result[u]
    <3>1. PassedUnits \subseteq Units
      BY <1>b, PassedArePlanned, PlannedUnit
    <3> QED
      BY <1>u, <2>2, <3>1
  <2>4. PassedSaved'
    BY <1>u, <2>1, <2>2, <2>3 DEF PassedSaved
  <2>5. ASSUME NEW s \in Statuses PROVE dashboard'.tally[s] = OnScreen(s)'
    <3>1. UnitTotal(s) \in Nat /\ KeyTotal(s) \in Nat /\ KeyTotal(s)' = KeyTotal(s)
      BY <1>b, <1>u, <2>1, <2>2, TotalsStay
    <3>2. UnitTotal(s)' = UnitTotal(s) + Marked(Unit[2], result'[Unit].results, s)
      <4> DEFINE x == Unit
      <4>1. /\ x \in PlannedUnits(cfg) /\ x \notin PassedUnits /\ PassedUnits' = PassedUnits \cup {x}
            /\ result'[x] \in Payload
        BY <1>u, <2>2
      <4> HIDE DEF x
      <4>2. UnitTotal(s)' = UnitTotal(s) + Marked(x[2], result'[x].results, s)
        BY <1>b, <1>u, <2>1, <2>3, <4>1, UnitTotalGrows
      <4> QED
        BY <4>2 DEF x
    <3>3. Marked(Round', rows', s) = 0
      <4>1. <<>> \in Seq(Row(Items))
        OBVIOUS
      <4> QED
        BY <1>u, <4>1, MarkedType
    <3> DEFINE A == UnitTotal(s)
               B == Marked(Round, rows, s)
               C == KeyTotal(s)
               D == Tally4(r4, s)
    <3>4. /\ dashboard'.tally[s] = (A + B) + (C + D)
          /\ OnScreen(s)' = ((A + B) + 0) + (C + D)
      BY <1>u, <2>1, <3>1, <3>2, <3>3 DEF OnScreen
    <3>5. A \in Nat /\ B \in Nat /\ C \in Nat /\ D \in Nat
      BY <1>c, <3>1
    <3> HIDE DEF A, B, C, D
    <3> QED
      BY <3>4, <3>5
  <2> QED
    BY <2>4, <2>5
<1>1. ASSUME NEW c \in Configs, NEW cmd \in {"run", "dry-run"}, Invoke(c, cmd)
      PROVE  TallyInv'
  <2>1. /\ StartModel(c, 1) /\ cfg' = c /\ rows' = <<>> /\ r4' = EmptyR4
        /\ dashboard' = FreshDashboard
    BY <1>1 DEF Invoke, TypeInv, LoopInv
  <2>2. 1 \in 1..Len(c.models)
    BY PlanFacts
  <2>3. PassedUnits' = {} /\ PassedKeys' = {}
    BY <2>1, <2>2, PassedStart, KeysGrow
  <2>4. ASSUME NEW s \in Statuses PROVE dashboard'.tally[s] = OnScreen(s)'
    <3>1. IsFiniteSet(PlannedUnits(c)) /\ IsFiniteSet(Round4Keys(c))
      BY PlanIsFinite
    <3>2. UnitTotal(s)' = Total(PlannedUnits(c), {}, UnitMarks(s)')
      BY <2>1, <2>3 DEF UnitTotal
    <3>3. KeyTotal(s)' = Total(Round4Keys(c), {}, KeyMarks(s)')
      BY <2>1, <2>3 DEF KeyTotal
    <3>4. UnitTotal(s)' = 0 /\ KeyTotal(s)' = 0
      BY <3>1, <3>2, <3>3, TotalOfNone
    <3>5. Marked(Round', rows', s) = 0 /\ Tally4(r4', s) = 0
      <4>1. <<>> \in Seq(Row(Items))
        OBVIOUS
      <4> QED
        BY <2>1, <4>1, MarkedType, MarksType
    <3>6. dashboard'.tally[s] = 0
      BY <2>1 DEF FreshDashboard
    <3> QED
      BY <3>4, <3>5, <3>6 DEF OnScreen
  <2> QED
    BY <2>3, <2>4 DEF TallyInv, PassedSaved
<1>2. ASSUME NEW c \in Configs, Refuse(c)
      PROVE  TallyInv'
  BY <1>2 DEF Refuse, TallyInv, Counting
<1>3. CASE InvokeReport
  BY <1>3 DEF InvokeReport, TallyInv, Counting
<1>4. CASE SkipUnit
  <2> SUFFICES ASSUME Counting' PROVE TallyInv'
    BY DEF TallyInv
  <2>1. /\ pc = "unit" /\ Finished(result[Unit]) /\ NextUnit /\ rows' = rows
        /\ UNCHANGED <<cfg, command, run4, r4, result>>
        /\ dashboard'.skipped = dashboard.skipped + result[Unit].planned
        /\ dashboard'.tally = dashboard.tally
    BY <1>4 DEF SkipUnit, skip
  <2>2. /\ result[Unit].planned = Len(Qs) /\ Len(result[Unit].results) = Len(Qs) /\ Len(Qs) \in Nat
    BY <2>1, SkippedUnit DEF Finished
  <2>3. dashboard'.skipped = 0
    BY DEF Counting
  <2>4. dashboard.skipped = 0 /\ Len(Qs) = 0
    BY <1>b, <2>1, <2>2, <2>3
  <2>5. result[Unit] \in Payload
    BY <2>1, UnitType DEF Finished, TypeInv, TypeOK
  <2>6. result[Unit].results \in Seq(Row(Items))
    BY <2>5 DEF Payload
  <2>7. result[Unit].results = <<>>
    BY <2>2, <2>4, <2>6
  <2>8. rows' = <<>>
    BY <2>1 DEF TypeInv, LoopInv
  <2>9. \A s : Marked(Unit[2], result'[Unit].results, s) = Marked(Round, rows, s)
    BY <1>z, <2>1, <2>6, <2>7, MarkedType
  <2> QED
    BY <1>u, <2>1, <2>4, <2>5, <2>8, <2>9
<1>5. CASE StartUnit
  <2>1. CASE command = "dry-run"
    BY <1>5, <2>1 DEF StartUnit, TallyInv, Counting
  <2>2. CASE command = "run" /\ pc' = "ask" /\ UNCHANGED loop
    <3>1. /\ pc = "unit" /\ UNCHANGED <<cfg, command, dashboard, rows, r4, result, run4, mi, ri, at>>
      BY <1>5, <2>2 DEF StartUnit
    <3>2. PassedUnits' = PassedUnits /\ PassedKeys' = PassedKeys
      BY <2>2, <3>1 DEF PassedUnits, PassedKeys
    <3> QED
      BY <1>k, <3>1, <3>2
  <2> QED
    BY <1>5, <2>1, <2>2 DEF StartUnit
<1>6. ASSUME NEW resp \in Responses, Ask(resp)
      PROVE  TallyInv'
  <2> DEFINE q   == Qs[Len(rows) + 1]
             row == IF Round = 3 THEN Row3(q, q \in MultiTurn, resp) ELSE Row12(q, resp)
  <2>1. /\ pc = "ask" /\ pc' = "ask" /\ Len(rows) < Len(Qs) /\ rows' = Append(rows, row)
        /\ dashboard' = record(dashboard, Mark(Round, row))
        /\ UNCHANGED <<cfg, command, r4, result, run4, mi, ri, at>>
    BY <1>6 DEF Ask, Mark
  <2>2. Round' = Round
    BY <2>1 DEF Round, Model
  <2>3. row \in Row(Items) /\ Mark(Round, row) \in Statuses
    <3>1. Qs \in Seq(Items)
      BY <2>1, UnitType DEF TypeInv
    <3>2. q \in Items
      BY <1>b, <2>1, <3>1
    <3> HIDE DEF q
    <3>3. (q \in MultiTurn) \in BOOLEAN
      OBVIOUS
    <3> QED
      BY <3>2, <3>3, RowType DEF Mark
  <2> HIDE DEF row, q
  <2>4. PassedUnits' = PassedUnits /\ PassedKeys' = PassedKeys
    BY <2>1 DEF PassedUnits, PassedKeys
  <2>5. dashboard'.skipped = dashboard.skipped
    BY <2>1 DEF record
  <2>6. ASSUME NEW s \in Statuses
        PROVE  \E n \in Nat :
               /\ dashboard'.tally[s] = dashboard.tally[s] + n
               /\ Marked(Round', rows', s) + Tally4(r4', s)
                    = (Marked(Round, rows, s) + Tally4(r4, s)) + n
    <3> DEFINE n == IF Mark(Round, row) = s THEN 1 ELSE 0
    <3>1. Marked(Round', rows', s) = Marked(Round, rows, s) + n
      BY <1>b, <2>1, <2>2, <2>3, MarkedOne
    <3>2. dashboard'.tally[s] = dashboard.tally[s] + n
      <4>1. dashboard.tally \in [Statuses -> Nat]
        BY DEF TypeInv, TypeOK
      <4>2. dashboard'.tally = [dashboard.tally EXCEPT ![Mark(Round, row)] = @ + 1]
        BY <2>1 DEF record
      <4> QED
        BY <1>b, <2>3, <4>1, <4>2
    <3>3. n \in Nat
      OBVIOUS
    <3> HIDE DEF n
    <3>4. Marked(Round', rows', s) + Tally4(r4', s) = (Marked(Round, rows, s) + Tally4(r4, s)) + n
      BY <1>c, <2>1, <3>1, <3>3
    <3> QED
      BY <3>2, <3>3, <3>4
  <2> QED
    BY <1>m, <2>1, <2>4, <2>5, <2>6
<1>7. CASE SaveResult
  <2> SUFFICES ASSUME Counting' PROVE TallyInv'
    BY DEF TallyInv
  <2>1. /\ pc = "ask" /\ NextUnit /\ rows' = <<>>
        /\ UNCHANGED <<cfg, command, run4, r4, dashboard>>
        /\ result' = [result EXCEPT ![Unit] = PayloadOf(Round, rows)]
    BY <1>7 DEF SaveResult, PayloadOf
  <2>2. Unit \in Units /\ Unit[2] = Round
    BY <2>1, UnitType DEF TypeInv, Unit
  <2>3. /\ \A u \in Units : u # Unit => result'[u] = result[u]
        /\ result'[Unit] = PayloadOf(Round, rows)
    BY <2>1, <2>2 DEF TypeInv, TypeOK
  <2>4. result'[Unit] \in Payload /\ result'[Unit].results = rows
    <3>1. Payload12(rows) \in Payload /\ Payload3(rows) \in Payload
      BY <1>b, PayloadType
    <3>2. Payload12(rows).results = rows /\ Payload3(rows).results = rows
      BY DEF Payload12, Payload3
    <3> QED
      BY <2>3, <3>1, <3>2 DEF PayloadOf
  <2>5. dashboard.skipped = 0
    BY <2>1 DEF Counting
  <2> QED
    BY <1>u, <2>1, <2>2, <2>3, <2>4, <2>5
<1>8. CASE SkipRound4
  <2>1. /\ pc = "round4" /\ NextModel
        /\ UNCHANGED <<cfg, command, rows, r4, result, run4>>
    BY <1>8 DEF SkipRound4
  <2>2. CASE 4 \notin Range(Model.rounds)
    <3>1. dashboard' = dashboard
      BY <1>8, <2>2 DEF SkipRound4
    <3>2. PassedUnits' = PassedUnits /\ PassedKeys' = PassedKeys
      BY <2>1, <2>2, PassedModel
    <3> QED
      BY <1>k, <2>1, <3>1, <3>2
  <2>3. CASE 4 \in Range(Model.rounds) /\ Finished4(run4[Model.key])
    <3> DEFINE n == cfg.repetitions * Len(R4Tasks)
    <3>1. dashboard'.skipped = dashboard.skipped + run4[Model.key].attempts * Len(run4[Model.key].tasks)
      BY <1>8, <2>3 DEF SkipRound4, skip
    <3>2. run4[Model.key].attempts * Len(run4[Model.key].tasks) = n /\ n \in Nat /\ n > 0
      BY <1>b, <2>1, <2>3, SkippedRound4
    <3> HIDE DEF n
    <3>3. dashboard'.skipped # 0
      BY <1>b, <3>1, <3>2
    <3> QED
      BY <3>3 DEF TallyInv, Counting
  <2>4. CASE command = "dry-run"
    BY <2>1, <2>4 DEF TallyInv, Counting
  <2> QED
    BY <1>8, <2>2, <2>3, <2>4 DEF SkipRound4
<1>9. CASE StartRound4
  <2>1. /\ pc = "round4" /\ pc' = "attempt"
        /\ UNCHANGED <<cfg, command, dashboard, rows, r4, result, run4, mi>>
    BY <1>9 DEF StartRound4
  <2>2. PassedUnits' = PassedUnits /\ PassedKeys' = PassedKeys
    BY <2>1 DEF PassedUnits, PassedKeys
  <2> QED
    BY <1>k, <2>1, <2>2
<1>10. ASSUME NEW how \in {"pass", "fail", "timeout", "error"}, Attempt(how)
       PROVE  TallyInv'
  <2> DEFINE g == [task |-> R4Tasks[ri], attempt |-> at, attempt_pass |-> how = "pass",
                   model_timed_out |-> FALSE]
             e == [task |-> R4Tasks[ri], attempt |-> at, error |-> how]
             mark == IF how \notin {"pass", "fail"} THEN "INVALID"
                     ELSE IF how = "pass" THEN "PASS" ELSE "FAIL"
  <2>1. /\ pc = "attempt" /\ UNCHANGED <<cfg, command, rows, result, run4, mi>>
        /\ pc' \in {"attempt", "run.json"}
        /\ dashboard' = record(dashboard, mark)
        /\ r4' = IF how \in {"pass", "fail"} THEN [r4 EXCEPT !.grades = Append(@, g)]
                 ELSE [r4 EXCEPT !.errors = Append(@, e)]
    BY <1>10 DEF Attempt, NextAttempt
  <2>2. PassedUnits' = PassedUnits /\ PassedKeys' = PassedKeys
    BY <2>1 DEF PassedUnits, PassedKeys
  <2>3. g \in Grade /\ (how \notin {"pass", "fail"} => e \in Error)
    <3>1. /\ mi \in 1..Len(cfg.models) /\ ri \in 1..Len(R4Tasks) /\ at \in 1..cfg.repetitions
      BY <2>1 DEF TypeInv, LoopInv
    <3>2. R4Tasks \in Seq(Tasks) /\ cfg.repetitions \in Nat /\ cfg.repetitions <= MaxRepetitions
      BY <1>b, <3>1, PlanFacts DEF R4Tasks, Model
    <3>3. R4Tasks[ri] \in Tasks /\ at \in Attempts
      BY <3>1, <3>2, ConfigAssumption DEF Attempts
    <3> QED
      BY <3>3 DEF Grade, Error
  <2>4. g.attempt_pass <=> how = "pass"
    OBVIOUS
  <2>5. dashboard'.skipped = dashboard.skipped
    BY <2>1 DEF record
  <2>6. ASSUME NEW s \in Statuses
        PROVE  \E n \in Nat :
               /\ dashboard'.tally[s] = dashboard.tally[s] + n
               /\ Marked(Round', rows', s) + Tally4(r4', s)
                    = (Marked(Round, rows, s) + Tally4(r4, s)) + n
    <3> DEFINE n == IF s = mark THEN 1 ELSE 0
    <3>1. Tally4(r4', s) = Tally4(r4, s) + n
      <4>1. CASE how \in {"pass", "fail"}
        <5>1. r4' = [r4 EXCEPT !.grades = Append(@, g)]
          BY <2>1, <4>1
        <5>2. mark = IF g.attempt_pass THEN "PASS" ELSE "FAIL"
          BY <2>4, <4>1
        <5>3. PICK e0 \in Error : TRUE
          <6>1. [task |-> R4Tasks[ri], attempt |-> at, error |-> "error"] \in Error
            BY <2>3 DEF Grade, Error
          <6> QED
            BY <6>1
        <5> HIDE DEF g, mark
        <5>4. Tally4([r4 EXCEPT !.grades = Append(@, g)], s)
                = Tally4(r4, s) + (IF s = (IF g.attempt_pass THEN "PASS" ELSE "FAIL") THEN 1 ELSE 0)
          BY <1>b, <2>3, <5>3, Tally4One
        <5> QED
          BY <5>1, <5>2, <5>4
      <4>2. CASE how \notin {"pass", "fail"}
        <5>1. r4' = [r4 EXCEPT !.errors = Append(@, e)] /\ mark = "INVALID" /\ e \in Error
          BY <2>1, <2>3, <4>2
        <5> HIDE DEF g, e, mark
        <5>2. Tally4([r4 EXCEPT !.errors = Append(@, e)], s)
                = Tally4(r4, s) + (IF s = "INVALID" THEN 1 ELSE 0)
          BY <1>b, <2>3, <5>1, Tally4One
        <5> QED
          BY <5>1, <5>2
      <4> QED
        BY <4>1, <4>2
    <3>2. mark \in Statuses
      BY DEF Statuses
    <3> HIDE DEF mark
    <3>3. dashboard'.tally[s] = dashboard.tally[s] + n
      <4>1. dashboard.tally \in [Statuses -> Nat]
        BY DEF TypeInv, TypeOK
      <4>2. dashboard'.tally = [dashboard.tally EXCEPT ![mark] = @ + 1]
        BY <2>1 DEF record
      <4> QED
        BY <3>2, <4>1, <4>2
    <3>4. n \in Nat
      OBVIOUS
    <3>5. Marked(Round', rows', s) = 0 /\ Marked(Round, rows, s) = 0
      BY <1>z, <2>1
    <3> HIDE DEF n
    <3>6. Marked(Round', rows', s) + Tally4(r4', s) = (Marked(Round, rows, s) + Tally4(r4, s)) + n
      BY <1>c, <3>1, <3>4, <3>5
    <3> QED
      BY <3>3, <3>4, <3>6
  <2> HIDE DEF g, e, mark
  <2> QED
    BY <1>m, <2>1, <2>2, <2>5, <2>6
<1>11. CASE OpenRunJson
  <2>1. /\ pc = "run.json" /\ pc' = "dump"
        /\ UNCHANGED <<cfg, command, dashboard, rows, r4, result, mi>>
        /\ run4' = [run4 EXCEPT ![Model.key] = Torn]
    BY <1>11 DEF OpenRunJson
  <2>2. PassedUnits' = PassedUnits /\ PassedKeys' = PassedKeys /\ PassedKeys = KeysBefore(cfg, mi)
    BY <2>1 DEF PassedUnits, PassedKeys
  <2>3. Model.key \notin PassedKeys
    <3>1. mi \in 1..Len(cfg.models) /\ Model = cfg.models[mi]
      BY <2>1 DEF TypeInv, LoopInv, Model
    <3> QED
      BY <1>b, <2>2, <3>1, KeysGrow
  <2>4. \A m \in PassedKeys : run4'[m] = run4[m]
    <3>1. PassedKeys \subseteq Keys
      <4>1. Round4Keys(cfg) \subseteq Keys
        BY <1>b, PlanFacts DEF Round4Keys
      <4> QED
        BY <4>1, PassedArePlanned
    <3>2. run4 \in [Keys -> Payload4 \cup {Missing, Torn}]
      BY DEF TypeInv, TypeOK
    <3> QED
      BY <2>1, <2>3, <3>1, <3>2
  <2> QED
    BY <1>k, <2>1, <2>2, <2>4
<1>12. CASE DumpRunJson
  <2>1. CASE End("stopped")
    BY <1>e, <2>1
  <2>2. CASE r4.errors = <<>> /\ NextModel /\ r4' = EmptyR4 /\ UNCHANGED <<command, cfg, rows, outcome>>
    <3> SUFFICES ASSUME Counting'
                 PROVE  PassedSaved' /\ \A s \in Statuses : dashboard'.tally[s] = OnScreen(s)'
      BY DEF TallyInv
    <3> DEFINE x == Model.key
               p == [tasks |-> R4Tasks, attempts |-> cfg.repetitions,
                     grades |-> r4.grades, errors |-> r4.errors]
    <3>1. /\ pc = "dump" /\ UNCHANGED <<result, dashboard>> /\ run4' = [run4 EXCEPT ![x] = p]
      BY <1>12 DEF DumpRunJson
    <3>2. PassedSaved /\ \A s \in Statuses : dashboard.tally[s] = OnScreen(s)
      BY <1>r, <2>2, <3>1 DEF Counting
    <3>3. /\ PassedUnits' = PassedUnits
          /\ PassedKeys' = PassedKeys \cup ({x} \cap Round4Keys(cfg))
          /\ x \notin PassedKeys
          /\ x \in Round4Keys(cfg)
      <4>1. 4 \in Range(Model.rounds)
        BY <3>1 DEF BarInv
      <4> QED
        BY <2>2, <3>1, <4>1, PassedModel
    <3>4. PassedKeys' = PassedKeys \cup {x}
      BY <3>3
    <3>5. p \in Payload4
      <4>1. mi \in 1..Len(cfg.models)
        BY <3>1 DEF TypeInv, LoopInv
      <4>2. /\ R4Tasks \in Seq(Tasks) /\ cfg.repetitions \in Nat /\ cfg.repetitions >= 1
            /\ cfg.repetitions <= MaxRepetitions
        BY <1>b, <4>1, PlanFacts DEF R4Tasks, Model
      <4>3. cfg.repetitions \in Attempts
        BY <4>2, ConfigAssumption DEF Attempts
      <4>4. r4.grades \in Seq(Grade) /\ r4.errors \in Seq(Error)
        BY <1>b DEF Memories
      <4> QED
        BY <4>2, <4>3, <4>4 DEF Payload4
    <3>6. PassedKeys \subseteq Keys /\ x \in Keys /\ run4 \in [Keys -> Payload4 \cup {Missing, Torn}]
      <4>1. Round4Keys(cfg) \subseteq Keys
        BY <1>b, PlanFacts DEF Round4Keys
      <4>2. run4 \in [Keys -> Payload4 \cup {Missing, Torn}]
        BY DEF TypeInv, TypeOK
      <4> QED
        BY <3>3, <4>1, <4>2, PassedArePlanned
    <3>7. \A s : Tally4(p, s) = Tally4(r4, s)
      <4>1. p.grades = r4.grades /\ p.errors = r4.errors
        OBVIOUS
      <4> HIDE DEF p
      <4> QED
        BY <4>1 DEF Tally4
    <3> HIDE DEF p, x
    <3>8. run4'[x] = p /\ \A m \in PassedKeys : run4'[m] = run4[m]
      BY <3>1, <3>3, <3>6
    <3>9. PassedSaved'
      BY <3>1, <3>2, <3>3, <3>4, <3>5, <3>8 DEF PassedSaved
    <3>10. ASSUME NEW s \in Statuses PROVE dashboard'.tally[s] = OnScreen(s)'
      <4>1. UnitTotal(s) \in Nat /\ KeyTotal(s) \in Nat /\ UnitTotal(s)' = UnitTotal(s)
        BY <1>b, <2>2, <3>1, <3>2, <3>3, TotalsStay
      <4>2. KeyTotal(s)' = KeyTotal(s) + Tally4(run4'[x], s)
        BY <1>b, <2>2, <3>2, <3>3, <3>4, <3>5, <3>8, KeyTotalGrows
      <4>3. Marked(Round', rows', s) = 0 /\ Marked(Round, rows, s) = 0 /\ Tally4(r4', s) = 0
        BY <1>z, <2>2, <3>1, MarksType
      <4>4. Tally4(run4'[x], s) = Tally4(r4, s)
        BY <3>7, <3>8
      <4> DEFINE A == UnitTotal(s)
                 C == KeyTotal(s)
                 D == Tally4(r4, s)
      <4>5. /\ dashboard'.tally[s] = (A + 0) + (C + D)
            /\ OnScreen(s)' = (A + 0) + ((C + D) + 0)
        BY <3>1, <3>2, <4>1, <4>2, <4>3, <4>4 DEF OnScreen
      <4>6. A \in Nat /\ C \in Nat /\ D \in Nat
        BY <1>c, <4>1
      <4> HIDE DEF A, C, D
      <4> QED
        BY <4>5, <4>6
    <3> QED
      BY <3>9, <3>10
  <2> QED
    BY <1>12, <2>1, <2>2 DEF DumpRunJson
<1>13. CASE SaveSummary \/ OpenReport \/ WriteReport
  <2>1. /\ pc \in {"collect", "open report", "write report"}
        /\ pc' \in {"open report", "write report", "finish"}
        /\ UNCHANGED <<cfg, command, dashboard, rows, r4, result, run4>>
    BY <1>13 DEF SaveSummary, OpenReport, WriteReport
  <2>2. PassedUnits' = PassedUnits /\ PassedKeys' = PassedKeys
    BY <2>1 DEF PassedUnits, PassedKeys
  <2> QED
    BY <1>k, <2>1, <2>2
<1>14. CASE RejectRound4 \/ FailPreflight \/ RejectCollect
  BY <1>14, <1>e DEF RejectRound4, FailPreflight, RejectCollect
<1>15. CASE Finish
  <2>1. CASE command = "run"
    <3>1. /\ pc = "finish" /\ pc' = "idle" /\ UNCHANGED <<cfg, command, dashboard, result, run4>>
          /\ rows' = <<>> /\ r4' = EmptyR4
      BY <1>15, <2>1 DEF Finish, End
    <3>2. rows' = rows /\ r4' = r4
      BY <3>1 DEF TypeInv, LoopInv
    <3>3. PassedUnits' = PassedUnits /\ PassedKeys' = PassedKeys
      BY <3>1 DEF PassedUnits, PassedKeys
    <3> QED
      BY <1>k, <3>1, <3>2, <3>3
  <2>2. CASE command # "run"
    BY <1>15, <2>2 DEF Finish, End, TallyInv, Counting
  <2> QED
    BY <2>1, <2>2
<1>16. ASSUME NEW how \in {"killed", "interrupted"}, Kill(how)
       PROVE  TallyInv'
  BY <1>16, <1>e DEF Kill
<1>17. CASE UNCHANGED vars
  <2>1. /\ Round' = Round /\ PassedUnits' = PassedUnits /\ PassedKeys' = PassedKeys
    BY <1>17 DEF vars, Round, Model, PassedUnits, PassedKeys
  <2>2. \A s : OnScreen(s)' = OnScreen(s)
    BY <1>17, <2>1 DEF vars, OnScreen, UnitTotal, KeyTotal, UnitMarks, KeyMarks
  <2> QED
    BY <1>17, <2>1, <2>2 DEF vars, TallyInv, Counting, PassedSaved
<1> QED
  BY <1>1, <1>2, <1>3, <1>4, <1>5, <1>6, <1>7, <1>8, <1>9, <1>10, <1>11, <1>12, <1>13, <1>14,
     <1>15, <1>16, <1>17 DEF Next, Step

\* A row that was not cut at the output limit is shown as it is read later.
LEMMA ShownAsRead ==
    ASSUME NEW u \in Units, result[u] \in Payload, SoundRows(u[2], result[u].results),
           ~CutInRound3, NEW s \in Statuses
    PROVE  result_counts(result[u])[s] = Marked(u[2], result[u].results, s)
<1> DEFINE rs == result[u].results
           r == u[2]
<1>1. rs \in Seq(Row(Items)) /\ result[u] # Missing
  BY FileAssumption DEF Payload
<1>2. ASSUME NEW n \in 1..Len(rs) PROVE item_status(rs[n]) = Mark(r, rs[n])
  <2> DEFINE row == rs[n]
  <2>1. row \in Row(Items) /\ row \in Range(rs)
    BY <1>1 DEF Range
  <2>2. SoundRow(r, row) /\ ~CutAnswer(row)
    BY <1>1, <2>1 DEF SoundRows, CutInRound3
  <2> HIDE DEF row, r
  <2>3. item_status(row) = Mark(r, row)
    BY <2>1, <2>2 DEF SoundRow, CutAnswer, item_status, Mark, mark3, Row, Verdicts
  <2> QED
    BY <2>3 DEF row
<1>3. {n \in 1..Len(rs) : item_status(rs[n]) = s} = {n \in 1..Len(rs) : Mark(r, rs[n]) = s}
  <2> HIDE DEF rs, r
  <2> QED
    BY <1>2
<1>4. result_counts(result[u])[s] = Cardinality({n \in 1..Len(rs) : item_status(rs[n]) = s})
  BY DEF result_counts, CountRows
<1> QED
  BY <1>3, <1>4 DEF Marked

\* The counts that a reader of the evidence adds up.
UnitReads(s) == [u \in PlannedUnits(cfg) |-> result_counts(result[u])[s]]

KeyReads(s) ==
    [m \in Round4Keys(cfg) |->
       CASE s = "PASS" -> CountRows(run4[m].grades, LAMBDA g : g.attempt_pass)
         [] s = "FAIL" -> CountRows(run4[m].grades, LAMBDA g : ~g.attempt_pass)
         [] s = "INVALID" -> Len(run4[m].errors)
         [] OTHER -> 0]

\* What a reader adds up over the evidence is the total over the whole plan.
LEMMA EvidenceIsTheTotals ==
    ASSUME cfg \in Configs, NEW s,
           \A u \in PlannedUnits(cfg) : UnitMarks(s)[u] \in Nat /\ UnitReads(s)[u] = UnitMarks(s)[u],
           \A m \in Round4Keys(cfg) : KeyMarks(s)[m] \in Nat
    PROVE  EvidenceCount(cfg, s) = Total(PlannedUnits(cfg), PlannedUnits(cfg), UnitMarks(s))
                                   + Total(Round4Keys(cfg), Round4Keys(cfg), KeyMarks(s))
<1> DEFINE S == PlannedUnits(cfg)
           K == Round4Keys(cfg)
<1>1. IsFiniteSet(S) /\ IsFiniteSet(K)
  BY PlanIsFinite
<1>2. \A m \in K : KeyReads(s)[m] = KeyMarks(s)[m]
  BY DEF KeyReads, KeyMarks, Tally4, CountRows
<1>3. EvidenceCount(cfg, s) = SumFunctionOnSet(UnitReads(s), S) + SumFunctionOnSet(KeyReads(s), K)
  BY DEF EvidenceCount, SumFunction, UnitReads, KeyReads
<1> HIDE DEF S, K
<1>4. SumFunctionOnSet(UnitReads(s), S) = Total(S, S, UnitMarks(s))
  BY <1>1, TotalOfAll DEF S
<1>5. SumFunctionOnSet(KeyReads(s), K) = Total(K, K, KeyMarks(s))
  BY <1>1, <1>2, TotalOfAll DEF K
<1> QED
  BY <1>3, <1>4, <1>5 DEF S, K

\* The bar ends exactly full and never runs past its end, and the counters beside
\* it are those a reader of the evidence adds up, whatever was resumed, retried,
\* killed or refused before: TerminalDashboard.record, skip and complete_plan
\* count each unit of _campaign_units once.
THEOREM ProgressStaysExact == Spec => []ProgressIsExact
<1>1. Init => BarFacts /\ BarInv /\ TallyInv
  <2> SUFFICES ASSUME Init PROVE BarFacts /\ BarInv /\ TallyInv
    OBVIOUS
  <2>1. ResultsInv /\ RetryInv /\ ReportInv /\ Run4Inv /\ WorkInv
    BY DEF Init, ResultsInv, OneConfig, RowsInv, ResultsComplete, RetryInv, AskedInv, CountersInv,
           ReportInv, Run4Inv, Memory4, WorkInv
  <2>2. TypeInv
    BY TypeAtInit
  <2>3. CampaignUnits(cfg) \in Nat /\ dashboard.completed = 0
    BY PlanSize DEF Init, FreshDashboard
  <2>4. BarInv
    BY <2>3 DEF Init, BarInv
  <2>5. TallyInv
    BY DEF Init, TallyInv, Counting
  <2> QED
    BY <2>1, <2>2, <2>4, <2>5 DEF BarFacts
<1>2. BarFacts /\ BarInv /\ TallyInv => ProgressIsExact
  <2> SUFFICES ASSUME TypeInv, ResultsInv, RetryInv, ReportInv, BarInv, TallyInv, outcome = "success",
                      command = "run", dashboard.skipped = 0, ~CutInRound3, NEW s \in Statuses
               PROVE  dashboard.tally[s] = EvidenceCount(cfg, s)
    BY DEF ProgressIsExact, BarFacts, BarInv
  <2>1. pc = "idle" /\ rows = <<>> /\ r4 = EmptyR4 /\ cfg \in Configs
    BY DEF ReportInv, TypeInv, TypeOK, LoopInv
  <2>2. PassedSaved /\ dashboard.tally[s] = OnScreen(s)
    BY <2>1 DEF TallyInv, Counting
  <2>3. PassedUnits = PlannedUnits(cfg) /\ PassedKeys = Round4Keys(cfg)
    BY <2>1 DEF PassedUnits, PassedKeys
  <2>4. UnitTotal(s) \in Nat /\ KeyTotal(s) \in Nat
    <3>1. IsFiniteSet(PlannedUnits(cfg)) /\ IsFiniteSet(Round4Keys(cfg))
      BY <2>1, PlanIsFinite
    <3>2. \A u \in PassedUnits : UnitMarks(s)[u] \in Nat
      BY <2>2, <2>3, MarksType DEF PassedSaved, UnitMarks
    <3>3. \A m \in PassedKeys : KeyMarks(s)[m] \in Nat
      BY <2>2, <2>3, MarksType DEF PassedSaved, KeyMarks
    <3> QED
      BY <3>1, <3>2, <3>3, TotalStays DEF UnitTotal, KeyTotal
  <2>5. dashboard.tally[s] = UnitTotal(s) + KeyTotal(s)
    <3>1. Marked(Round, rows, s) = 0 /\ Tally4(r4, s) = 0
      BY <2>1, MarksType
    <3> QED
      BY <2>2, <2>4, <3>1 DEF OnScreen
  <2>6. ASSUME NEW u \in PlannedUnits(cfg)
        PROVE  UnitMarks(s)[u] \in Nat /\ UnitReads(s)[u] = UnitMarks(s)[u]
    <3>1. result[u] \in Payload /\ u \in Units
      BY <2>1, <2>2, <2>3, <2>6, PlannedUnit DEF PassedSaved
    <3>2. SoundRows(u[2], result[u].results)
      BY <3>1, FileAssumption DEF RetryInv, CountersInv
    <3>3. result_counts(result[u])[s] = Marked(u[2], result[u].results, s)
      BY <3>1, <3>2, ShownAsRead
    <3> QED
      BY <3>1, <3>3, MarksType DEF UnitMarks, UnitReads
  <2>7. ASSUME NEW m \in Round4Keys(cfg) PROVE KeyMarks(s)[m] \in Nat
    BY <2>2, <2>3, MarksType DEF PassedSaved, KeyMarks
  <2>8. EvidenceCount(cfg, s) = Total(PlannedUnits(cfg), PlannedUnits(cfg), UnitMarks(s))
                                + Total(Round4Keys(cfg), Round4Keys(cfg), KeyMarks(s))
    BY <2>1, <2>6, <2>7, EvidenceIsTheTotals
  <2> QED
    BY <2>3, <2>5, <2>8 DEF UnitTotal, KeyTotal
<1>3. BarFacts /\ [Next]_vars => BarFacts'
  <2>1. ResultsInv => OneConfig
    BY DEF ResultsInv
  <2> QED
    BY <2>1, TypeStep, ResultsStep, RetryStep, ReportStep, Run4Step, WorkStep DEF BarFacts
<1> QED
  BY <1>1, <1>2, <1>3, BarStep, TallyStep, PTL DEF Spec
=============================================================================
