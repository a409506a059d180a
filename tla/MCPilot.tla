------------------------------ MODULE MCPilot ------------------------------
(***************************************************************************)
(* Instances of Pilot for TLC.                                             *)
(***************************************************************************)
EXTENDS Pilot

Good    == [returncode |-> 0, timed_out |-> FALSE, protocol_aborted |-> FALSE,
            termination_reason |-> "none", errors |-> 0, output_valid |-> TRUE,
            session |-> TRUE]
Noisy   == [Good EXCEPT !.errors = 3]
Failed  == [Good EXCEPT !.returncode = 1]
Lost    == [Good EXCEPT !.session = FALSE]
Empty   == [Good EXCEPT !.output_valid = FALSE]
Late    == [Good EXCEPT !.returncode = 1, !.timed_out = TRUE,
                        !.termination_reason = "timeout", !.errors = 1]
\* The process had already exited when the harness stopped it.
LateOk  == [Late EXCEPT !.returncode = 0]
Aborted == [Good EXCEPT !.returncode = 1, !.protocol_aborted = TRUE,
                        !.termination_reason = "unsupported_tool_loop", !.errors = 3]
AbortedOk == [Aborted EXCEPT !.returncode = 0]

Text(n)    == [name |-> n, shows |-> "text", open |-> FALSE, quotes |-> {}]
Open(n)    == [Text(n) EXCEPT !.open = TRUE]
Binary(n)  == [Text(n) EXCEPT !.shows = "binary"]
Quoting(n) == [Text(n) EXCEPT !.quotes = {3}]
Nothing(n) == [Text(n) EXCEPT !.shows = "nothing"]

AllTests == {[passed |-> 2, total |-> 2, timed_out |-> FALSE],
             [passed |-> 1, total |-> 2, timed_out |-> FALSE],
             [passed |-> 3, total |-> 2, timed_out |-> FALSE],
             [passed |-> 0, total |-> 0, timed_out |-> TRUE]}
OnePass  == {[passed |-> 2, total |-> 2, timed_out |-> FALSE]}

\* One attempt, every kind of turn and of change.
OneModel  == {<<"a">>}
AllTurns  == {Good, Noisy, Failed, Lost, Empty, Late, LateOk, Aborted, AbortedOk}
\* The first three can be told by a patch; in the others a file leaves no line, a
\* header is swallowed, or a removed line names another file.
AllEdits  == {{}, {Text(1)}, {Binary(1), Open(2)},
              {Text(1), Nothing(2)}, {Open(1), Text(2)}, {Quoting(1)}}

\* Several models, attempts and scenarios, and simple turns.
TwoConfigs == {<<"a", "b">>, <<"b">>}
OneTurn    == {Good}
FewEdits   == {{Binary(1), Open(2)}}
=============================================================================
