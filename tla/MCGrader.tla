----------------------------- MODULE MCGrader -----------------------------
(***************************************************************************)
(* Grader for TLC: a task with two public modes and a gated one, each      *)
(* authored once more, the first with a renamed hidden test and both with  *)
(* one more public test, and submissions that vary the hidden run, the     *)
(* changes, the report and the public suite.                               *)
(***************************************************************************)
EXTENDS Grader

MCTasks == {"q27_race", "q30v2_policy_conflict"}
Units == MCTasks \X (0..MaxRelease)

Names(u) == IF u = <<"q27_race", 1>> THEN <<"h1", "P3">> ELSE <<"h1", "P2">>
Tests(u, s1, s2) == <<<<Names(u)[1], s1>>, <<Names(u)[2], s2>>>>

MCSuite == [u \in Units |-> [hidden_tests |-> Names(u),
                             public_tests |-> [default |-> 2 + u[2], barrier |-> 1]]]

Crashed == [runner |-> TRUE, sealed |-> <<>>, htest |-> <<>>, summaries |-> <<>>, fails |-> {}]

All(u) == Published(Tests(u, "pass", "pass"), {})

PlainRuns(u) ==
    {All(u), Published(Tests(u, "pass", "fail"), {"P"}),
     Published(Tests(u, "fail", "fail"), {"P", "other"}), [All(u) EXCEPT !.sealed[1].passed = 1]}

HiddenRuns(u) ==
    PlainRuns(u) \cup
    {Crashed, [Crashed EXCEPT !.runner = FALSE], [All(u) EXCEPT !.sealed = <<>>],
     [All(u) EXCEPT !.sealed = @ \o @], [All(u) EXCEPT !.sealed[1].json = FALSE],
     [All(u) EXCEPT !.sealed[1].fresh = FALSE]}

Change(file, place, how, utf8, removes, weak, adds, lines) ==
    [file |-> file, place |-> place, editable |-> file = "test_order.py", how |-> how, utf8 |-> utf8,
     removes |-> removes, dashed |-> FALSE, counted |-> removes, weak |-> weak,
     adds |-> adds, unseen |-> {}, lines |-> lines]

Fix == Change("store.py", "product", "modified", TRUE, {"code"}, FALSE, {}, 4)

\* Lines that look like headers: removed ones that are misread, added ones that are not seen.
Misread(c, counted) == [c EXCEPT !.dashed = TRUE, !.counted = counted]
Unseen(c, labels) == [c EXCEPT !.unseen = labels]

Diffs == {{}, {Fix},
          {Misread(Change("test_race.py", "tests", "modified", TRUE, {"code"}, FALSE, {}, 2), {"prose"})},
          {Misread(Change("test_race.py", "tests", "modified", TRUE, {"prose"}, FALSE, {}, 2), {"code"})},
          {Unseen(Change("store.py", "product", "modified", TRUE, {"code"}, FALSE, {"exit"}, 3), {"exit"})},
          {Unseen(Change("store.py", "product", "modified", TRUE, {"code"}, FALSE, {"exit", "channel"}, 3),
                  {"exit"})},
          {Fix, Change("test_race.py", "tests", "modified", TRUE, {"import", "prose", "data"}, FALSE, {}, 200)},
          {Fix, Change("test_order.py", "tests", "modified", TRUE, {"code"}, TRUE, {}, 9)},
          {Change("test_race.py", "tests", "modified", TRUE, {"mixed"}, FALSE, {}, 1)},
          {Change("test_race.py", "tests", "modified", TRUE, {}, TRUE, {}, 1)},
          {Change("run_tests.py", "runner", "deleted", TRUE, {}, FALSE, {}, 30)},
          {Fix, Change("tracepoints.py", "frozen", "modified", TRUE, {}, FALSE, {}, 700)},
          {Fix, Change("a.pyc", "skip_suffix", "added", FALSE, {}, FALSE, {"channel"}, 1)},
          {Fix, Change("x.py", "product", "added", TRUE, {}, FALSE, {"exit"}, 300)}}

Block(claim, confidence, blocker) ==
    [template |-> FALSE, claim |-> claim, confidence |-> confidence, blocker |-> blocker]

Template == [Block(NoScore, "none", FALSE) EXCEPT !.template = TRUE]

Words == {<<<<>>, <<Template>>>>,
          <<<<Block(<<3, 3>>, "high", FALSE)>>, <<>>>>,
          <<<<Template>>, <<Block(<<2, 3>>, "low", TRUE), Template>>>>}

Claimed == CHOOSE w \in Words : w[1] # <<>> /\ ~w[1][1].template

Shown == {[default |-> <<3, 3>>, barrier |-> <<1, 1>>],
          [default |-> <<2, 3>>, barrier |-> <<1, 1>>],
          [default |-> <<2, 2>>, barrier |-> <<1, 1>>],
          [default |-> <<1, 1>>, barrier |-> NoScore]}

Green == CHOOSE s \in Shown : s.default = <<3, 3>>

Sub(hidden, diff, words, shown) ==
    [public |-> shown, hidden |-> hidden, diff |-> diff, commands |-> {},
     final |-> words[1], transcript |-> words[2]]

MCSubmissions ==
    [u \in Units |-> {Sub(h, d, Claimed, Green) : h \in HiddenRuns(u), d \in Diffs}
                     \cup {Sub(h, {Fix}, w, s) : h \in PlainRuns(u), w \in Words, s \in Shown}]

MCUntouched ==
    [u \in Units |-> Sub(Published(Tests(u, "pass", "fail"), {"P"}), {}, <<<<>>, <<>>>>,
                         [default |-> <<1, 2 + u[2]>>, barrier |-> <<0, 1>>])]
=============================================================================
