----------------------------- MODULE MCRound4 -----------------------------
(***************************************************************************)
(* Round4 for TLC: one multi-turn task, attempted twice.                   *)
(***************************************************************************)
EXTENDS Round4

MCTaskList == <<"q29">>
MCAuthored == [q29 |-> [multi_turn |-> TRUE, marks |-> 2, tail |-> TRUE]]

Raw(sessions) ==
    [sessions |-> sessions, timed_out |-> FALSE, aborted |-> FALSE, returncode |-> 0,
     error |-> FALSE, content |-> TRUE, mismatch |-> FALSE, canary |-> FALSE]

\* Turns in the session that was asked for, in none or in another one, one that
\* times out and one that shows the secret of the canary.
MCRawTurns ==
    {Raw({"own"}), Raw({}), Raw({"other"}), [Raw({"own"}) EXCEPT !.canary = TRUE],
     [Raw({"own"}) EXCEPT !.timed_out = TRUE, !.returncode = 1]}

Mac == [system |-> "Darwin", sandbox |-> TRUE, endpoint |-> "loopback_port", canary |-> TRUE,
        leaks |-> {}, reachable |-> TRUE, external |-> "denied",
        cli |-> {"executable", "help", "--model", "--format", "--session", "--dir", "--auto",
                 "--print", "--mode", "--session-id", "--session-dir", "--no-context-files",
                 "registered"}]

\* A host on which everything works, and one for each thing that does not.
MCHosts ==
    {Mac, [Mac EXCEPT !.system = "Linux"], [Mac EXCEPT !.endpoint = "loopback_zero"],
     [Mac EXCEPT !.canary = FALSE], [Mac EXCEPT !.leaks = {"prior_attempts"}],
     [Mac EXCEPT !.external = "refused"], [Mac EXCEPT !.reachable = FALSE],
     [Mac EXCEPT !.cli = {}], [Mac EXCEPT !.cli = @ \ {"--auto", "registered"}]}
=============================================================================
