---------------------------- MODULE MCCommunity ----------------------------
(***************************************************************************)
(* Small contents for CommunityStore.  Configuration a declares its memory,*)
(* b does not; "legacy" is configuration b in a bundle of schema 1, "twice"*)
(* holds configuration a two times, "clash" two times with outcomes that   *)
(* differ, "four" adds round 4 with its task rows, which "zero" numbers    *)
(* from 0.                                                                 *)
(***************************************************************************)
EXTENDS CommunityStore, TLC

Item(i, status, wall, tokens) ==
    [item |-> i, attempt |-> 1, status |-> status, wall |-> wall, tokens |-> tokens]

Metrics(items) ==
    [passed |-> CountStatus(items, "PASS"),
     total |-> CountStatus(items, "PASS") + CountStatus(items, "FAIL"),
     incomplete |-> CountStatus(items, "INCOMPLETE"),
     manual_review |-> CountStatus(items, "REVIEW"),
     infrastructure_errors |-> CountStatus(items, "INVALID"),
     release_ready |-> CountStatus(items, "PASS"), attempts |-> Cardinality(items),
     items |-> items, tasks |-> <<>>]

\* Round 4 reports its release-ready attempts instead of passed answers.
Metrics4(items, tasks) ==
    [Metrics(items) EXCEPT !.passed = 0, !.total = 0, !.tasks = tasks,
       !.attempts = CountStatus(items, "PASS") + CountStatus(items, "FAIL")]

Whole(n) == [int |-> TRUE, value |-> n]
Fraction(n) == [int |-> FALSE, value |-> n]
Task(task, attempt, tokens, ready) ==
    [task |-> task, attempt |-> attempt, tokens |-> tokens, score |-> 12, ready |-> ready]

\* Model a declares its host, model b is hosted by OpenAI and declares nothing.
Served == [a |-> [declared |-> [scope |-> "same_host", os |-> None], hosted |-> FALSE],
           b |-> [declared |-> None, hosted |-> TRUE]]

Model(name, memory, rounds) ==
    [name |-> name, serving |-> clean_serving_environment(Served[name], "Linux"),
     scaffold |-> LegacyScaffold, memory |-> memory, rounds |-> rounds]

Legacy(name, rounds) ==
    [name |-> name, memory |-> None, rounds |-> rounds]

Round1(items) == (1 :> Metrics(items))
Good == {Item("q1", "PASS", 4, 8), Item("q2", "PASS", 2, 8)}
Mixed == {Item("q1", "PASS", 6, None), Item("q2", "FAIL", 2, 4)}
Review == {Item("q1", "REVIEW", 3, None), Item("q2", "REVIEW", None, None)}
Lost == {Item("q26", "PASS", 9, None), Item("q27", "INVALID", None, None)}

ModelA(items) == Model("a", 8, Round1(items))
ModelB(items) == Model("b", None, Round1(items))

V4(models) == [schema |-> 4, env |-> "Linux", packs |-> (1 :> "p"), models |-> models]

Four(tasks) == [schema |-> 4, env |-> "Linux", packs |-> (4 :> "r"),
                models |-> <<Model("a", 8, (4 :> Metrics4(Lost, tasks)))>>]

MCBody ==
    [tie    |-> V4(<<ModelA(Mixed), ModelB(Mixed)>>),
     twice  |-> V4(<<ModelA(Good), ModelA(Good), ModelB(Review)>>),
     clash  |-> V4(<<ModelA(Good), ModelA(Mixed)>>),
     legacy |-> [schema |-> 1, env |-> "Linux", packs |-> (1 :> "p"),
                 models |-> <<Legacy("b", (1 :> [Metrics(Good) EXCEPT !.items = {}]))>>],
     four   |-> [schema |-> 4, env |-> "Linux", packs |-> (1 :> "p" @@ 4 :> "r"),
                 models |-> <<Model("a", 8, (1 :> Metrics(Good) @@ 4 :> Metrics4(Lost,
                     <<Task("q26", Whole(1), Whole(90), TRUE), Task("q27", None, None, None),
                       Task("q26", Whole(1), Whole(0), FALSE)>>)))>>],
     zero   |-> Four(<<Task("q26", Whole(0), Whole(90), TRUE)>>)]

\* Tokens or an attempt with a fraction: valid, and refused by the loader as "zero" is.
ASSUME FractionsAreRefused ==
    \A tasks \in {<<Task("q26", Whole(1), Whole(90), TRUE), Task("q27", Whole(1), Fraction(7), FALSE)>>,
                  <<Task("q26", Fraction(1), None, TRUE)>>} :
      /\ validate_public_result(Four(tasks))
      /\ ~load_database(DatabaseOf({[id |-> "point", schema |-> 4, env |-> "Linux", packs |-> (4 :> "r"),
                                     models |-> Four(tasks).models]}))

MCKinds == DOMAIN MCBody

Query(objectives, max_memory, floor) ==
    [round |-> 1, pack |-> None, objectives |-> objectives,
     max_memory |-> max_memory, floor |-> floor]

MCQueries == {Query({"accuracy"}, None, None), Query({"latency"}, None, 200),
              Query({"accuracy", "throughput"}, 8, None)}
=============================================================================
