-------------------------------- MODULE Turn --------------------------------
(***************************************************************************)
(* What one agent turn may report.  AgentTurn shows that the code returns  *)
(* nothing else; Pilot takes its turns from this set.                      *)
(***************************************************************************)
EXTENDS Naturals

CONSTANT MaxErrors   \* bound: router errors in the transcript of one turn

MAX_UNSUPPORTED_CALLS_PER_AGENT_TURN == 3

\* returncode is 0 or 1 (any other code); termination_reason is "none" for
\* None; `errors` is the number of unsupported_tool_calls in the transcript
\* that was read back; `session` says whether a session id was found.
TurnRecord == [returncode : {0, 1}, timed_out : BOOLEAN, protocol_aborted : BOOLEAN,
               termination_reason : {"none", "timeout", "unsupported_tool_loop"},
               errors : 0..MaxErrors, output_valid : BOOLEAN, session : BOOLEAN]

TurnResult ==
    {t \in TurnRecord :
       /\ t.timed_out <=> t.termination_reason = "timeout"
       /\ t.protocol_aborted <=> t.termination_reason = "unsupported_tool_loop"
       /\ t.protocol_aborted => t.errors >= MAX_UNSUPPORTED_CALLS_PER_AGENT_TURN}
=============================================================================
