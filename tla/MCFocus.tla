------------------------------ MODULE MCFocus ------------------------------
(***************************************************************************)
(* Models a, b and c, six questions of round 2 and two tasks of round 4,   *)
(* five attempts each.  The campaigns: "clear" separates a from b on every *)
(* question, "noisy" only on some and not in every attempt, "swing" and     *)
(* "late" favour a or b by the parity of the attempt (so that the two folds *)
(* disagree), "sealed" ran in isolation, "renamed" reuses the key of a for  *)
(* c, and "old" ran another pack.                                          *)
(***************************************************************************)
EXTENDS Focus

Questions == 1..6
Attempts == 1..5

\* An attempt that answers these questions right, and those beyond the limit.
File(n, right, cut) ==
    [attempt |-> n,
     rows |-> {Row12(q, IF q \in right THEN "right" ELSE IF q \in cut THEN "wrong_cut"
                        ELSE "wrong") : q \in Questions}]

\* Answers every question right in the attempts S and none in the others.
Whole(S) == 2 :> {File(n, IF n \in S THEN Questions ELSE {}, {}) : n \in Attempts}
\* The same on the questions of Q; the others are right but for a cut answer.
Some(S, Q) ==
    2 :> {File(n, (Questions \ Q) \cup (IF n \in S THEN Q ELSE {}), IF n = 5 THEN Q ELSE {}) :
             n \in Attempts}

Grade(t, n, pass) == [task |-> <<"t", t>>, attempt |-> n, timed_out |-> FALSE, pass |-> pass]

\* Passes the first task in the attempts S; the last attempt at the second
\* one timed out, and the first left an error besides its grade.
Agent(S) ==
    [grades |-> {Grade(1, n, n \in S) : n \in Attempts} \cup {Grade(2, n, TRUE) : n \in 1..3}
                  \cup {[Grade(2, 4, FALSE) EXCEPT !.timed_out = TRUE]},
     errors |-> {[task |-> <<"t", 2>>, attempt |-> 5], [task |-> <<"t", 1>>, attempt |-> 1]}]

Outcome(reasoning, agent) == [reasoning |-> reasoning, round4 |-> agent]
Model(public, key) == [public |-> public, key |-> <<key>>]
AB == <<Model("a", "a"), Model("b", "b")>>
ABC(x, y, z) == [a |-> x, b |-> y, c |-> z]
Strong == Outcome(Whole(Attempts), Agent(Attempts))
Weak == Outcome(Whole({}), Agent({}))

Campaign(models, outcome) ==
    [isolation |-> None, timeout |-> 1, packs |-> Installed, rounds |-> {2},
     models |-> models, outcome |-> outcome]

MCInstalled == 2 :> "new" @@ 4 :> "new"
MCAvailable == 2 :> Questions @@ 4 :> {<<"t", 1>>, <<"t", 2>>}

MCBody ==
    [clear   |-> [Campaign(AB, ABC(Strong, Weak, Weak)) EXCEPT !.rounds = {2, 4}],
     noisy   |-> Campaign(AB, ABC(Outcome(Some({1, 2, 3, 4}, {1, 2}), Agent({1, 2, 3})),
                                  Outcome(Some({2}, {1, 2, 3}), Agent({3})), Weak)),
     swing   |-> Campaign(AB, ABC(Outcome(Whole({1, 3, 5}), Agent({1, 3, 5})),
                                  Outcome(Whole({1, 3, 5}), Agent({1, 3, 5})), Weak)),
     late    |-> Campaign(AB, ABC(Outcome(Whole({3, 5}), Agent({3, 5})),
                                  Outcome(Whole({3, 5}), Agent({3, 5})), Weak)),
     sealed  |-> [Campaign(AB, ABC(Strong, Weak, Weak)) EXCEPT !.isolation = "sealed",
                                                              !.timeout = 2],
     renamed |-> Campaign(<<Model("c", "a"), Model("a", "x")>>, ABC(Strong, Weak, Weak)),
     old     |-> [Campaign(AB, ABC(Strong, Weak, Weak)) EXCEPT !.packs = 2 :> "old"]]

MCKinds == DOMAIN MCBody

Option(max_items, allow_partial, require_stable) ==
    [max_items |-> max_items, allow_partial |-> allow_partial, require_stable |-> require_stable]
MCOptions == {Option(None, FALSE, FALSE), Option(1, TRUE, FALSE), Option(None, FALSE, TRUE)}

Sample(critical, tight) == [critical |-> critical, tight |-> tight]
Quiet == Sample(50000, TRUE)
Loud  == Sample(400000, FALSE)
MCDraws == {[all |-> Quiet, fold |-> 0 :> Quiet @@ 1 :> Quiet],
            [all |-> Quiet, fold |-> 0 :> Loud @@ 1 :> Quiet],
            [all |-> Sample(None, TRUE), fold |-> 0 :> Quiet @@ 1 :> Sample(None, FALSE)]}
=============================================================================
