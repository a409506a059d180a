---------------------------- MODULE MCCampaign ----------------------------
(***************************************************************************)
(* Instances of Campaign for TLC: small question banks, one or two models  *)
(* and the configurations each run offers to the operator.                 *)
(***************************************************************************)
EXTENDS Campaign

NoFilters == [r \in 1..4 |-> NoTasks]

MCItems == {"q1", "q2", "q11", "q21", "q25"}
MCBank  == <<<<"q1", "q2">>, <<"q11">>, <<"q21", "q25">>>>
MCTasks == {"q26", "q27"}
MCCanonical == <<"q26", "q27">>

\* Two models.  The first runs rounds out of order, the second is a focused
\* selection (filters of a replay) with round 4.
TwoModels ==
    [models |-> <<[key |-> "a", rounds |-> <<3, 1>>, filters |-> NoFilters],
                  [key |-> "b", rounds |-> <<1, 4>>,
                   filters |-> [NoFilters EXCEPT ![1] = <<"q2">>, ![4] = <<"q27">>]]>>,
     repetitions |-> 1, round4_tasks |-> NoTasks]

\* One model with two repetitions of a reasoning round.
TwoAttempts ==
    [models |-> <<[key |-> "a", rounds |-> <<2, 1>>, filters |-> NoFilters]>>,
     repetitions |-> 2, round4_tasks |-> NoTasks]

\* Round 4 for two models, with the canonical tasks.
Round4Only ==
    [models |-> <<[key |-> "a", rounds |-> <<4>>, filters |-> NoFilters],
                  [key |-> "b", rounds |-> <<2, 4>>,
                   filters |-> [NoFilters EXCEPT ![4] = <<"q26">>]]>>,
     repetitions |-> 1, round4_tasks |-> NoTasks]

\* One round 4 task, two attempts.
Round4Twice ==
    [models |-> <<[key |-> "a", rounds |-> <<4>>, filters |-> NoFilters]>>,
     repetitions |-> 2, round4_tasks |-> <<"q27">>]

Reasoning == {TwoModels, TwoAttempts}
Agents    == {Round4Only, Round4Twice}
Everything == Reasoning \cup Agents
OnlyTwoModels == {TwoModels}
OnlyRound4 == {Round4Only}
=============================================================================
