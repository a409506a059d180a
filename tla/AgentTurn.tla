------------------------------ MODULE AgentTurn ------------------------------
(***************************************************************************)
(* CodexBackend.agent_turn: one agent process, the harness that polls it,  *)
(* and the transcript file between them.  The agent appends to the file at *)
(* any moment, also in the middle of a line; the harness reads what is new *)
(* whenever a poll of 0.25 s expires, and stops the agent at the third     *)
(* router error or at the deadline.                                        *)
(*                                                                         *)
(* A transcript is a sequence of lines, of which the code tells apart      *)
(*   "plain"  no router error,                                             *)
(*   "error"  a router error in the last 8192 characters of the line,      *)
(*   "wide"   a router error followed by more than 8192 characters.        *)
(* The last line may still lack its end (`open`); the text of a router     *)
(* error is written before the end of its line.                            *)
(***************************************************************************)
EXTENDS Turn, Sequences, FiniteSets

CONSTANTS Polls,      \* the deadline, in polls of AGENT_POLL_SECONDS
          MaxLines    \* bound: lines the agent writes

ASSUME TurnAssumption ==
    /\ Polls \in Nat
    /\ MaxLines \in Nat /\ MaxErrors = MaxLines

VARIABLES
    \* the agent
    agent,      \* "running", "dying" (SIGKILL is pending) or "exited"
    code,       \* its exit code, once it has exited
    last,       \* has it written last_message_turnN.txt?
    lines,      \* the transcript
    open,       \* the last line has no end yet
    \* the harness
    pc,
    now,        \* polls that have expired
    scanned,    \* lines of which _new_protocol_calls has seen the end
    cut,        \* `carry` has lost the start of the line after those
    detected,   \* len(detected_calls)
    timed_out, protocol_aborted, termination_reason, returncode

transcript == <<lines, open>>
scanner    == <<scanned, cut, detected>>
verdict    == <<timed_out, protocol_aborted, termination_reason>>
vars == <<agent, code, last, transcript, pc, now, scanner, verdict, returncode>>

Init ==
    /\ agent = "running" /\ code = 0 /\ last = FALSE
    /\ lines = <<>> /\ open = FALSE
    /\ pc = "check" /\ now = 0
    /\ scanned = 0 /\ cut = FALSE /\ detected = 0
    /\ timed_out = FALSE /\ protocol_aborted = FALSE /\ termination_reason = "none"
    /\ returncode = 0

(***************************************************************************)
(* The agent.  SIGTERM asks it to stop, so it goes on until it exits.      *)
(***************************************************************************)
WriteText(kind) ==
    /\ agent = "running"
    /\ ~open
    /\ Len(lines) < MaxLines
    /\ lines' = Append(lines, kind)
    /\ open' = TRUE
    /\ UNCHANGED <<agent, code, last, pc, now, scanner, verdict, returncode>>

WriteNewline ==
    /\ agent = "running"
    /\ open
    /\ open' = FALSE
    /\ UNCHANGED <<agent, code, last, lines, pc, now, scanner, verdict, returncode>>

WriteLast ==
    /\ agent = "running"
    /\ ~last
    /\ last' = TRUE
    /\ UNCHANGED <<agent, code, transcript, pc, now, scanner, verdict, returncode>>

AgentExit(rc) ==
    /\ agent = "running"
    /\ agent' = "exited"
    /\ code' = rc
    /\ UNCHANGED <<last, transcript, pc, now, scanner, verdict, returncode>>

\* The operating system carries out a SIGKILL.
Die ==
    /\ agent = "dying"
    /\ agent' = "exited"
    /\ code' = 1
    /\ UNCHANGED <<last, transcript, pc, now, scanner, verdict, returncode>>

(***************************************************************************)
(* The poll loop.                                                          *)
(***************************************************************************)
Check ==
    /\ pc = "check"
    /\ IF now >= Polls
       THEN /\ timed_out' = TRUE
            /\ termination_reason' = "timeout"
            /\ pc' = "kill"
       ELSE pc' = "wait" /\ UNCHANGED <<timed_out, termination_reason>>
    /\ UNCHANGED <<agent, code, last, transcript, now, scanner, protocol_aborted, returncode>>

\* proc.wait returns: in the loop, or in _stop_process after a signal.  The
\* harness then closes the open line with its own message if it stopped the
\* agent.
WaitReturns ==
    /\ pc \in {"wait", "term wait", "kill wait"}
    /\ agent = "exited"
    /\ returncode' = code
    /\ open' = IF pc = "wait" THEN open ELSE FALSE
    /\ pc' = "return"
    /\ UNCHANGED <<agent, code, last, lines, now, scanner, verdict>>

\* TimeoutExpired: the process was alive when the poll ended.
PollExpires ==
    /\ pc = "wait"
    /\ agent # "exited"
    /\ now' = now + 1
    /\ pc' = "scan"
    /\ UNCHANGED <<agent, code, last, transcript, scanner, verdict, returncode>>

\* The lines whose end is in the file.
Complete == IF open THEN Len(lines) - 1 ELSE Len(lines)

\* Mutant of NewCalls: every scan starts at the beginning of the file.
NewCalls_Rescan == {i \in 1..Complete : lines[i] # "plain"}

\* The calls of _new_protocol_calls: every router error of the newly completed
\* lines, except one whose text the bounded carry has dropped.
NewCalls ==
    {i \in (scanned + 1)..Complete : lines[i] # "plain" /\ ~(cut /\ i = scanned + 1)}

Scan ==
    /\ pc = "scan"
    /\ detected' = detected + Cardinality(NewCalls)
    /\ scanned' = Complete
    /\ cut' = (open /\ lines[Len(lines)] = "wide")
    /\ IF detected' >= MAX_UNSUPPORTED_CALLS_PER_AGENT_TURN
       THEN /\ protocol_aborted' = TRUE
            /\ termination_reason' = "unsupported_tool_loop"
            /\ pc' = "term"
       ELSE pc' = "check" /\ UNCHANGED <<protocol_aborted, termination_reason>>
    /\ UNCHANGED <<agent, code, last, transcript, now, timed_out, returncode>>

(***************************************************************************)
(* _stop_process.  A process that is already gone is no error.             *)
(***************************************************************************)
SendTerm ==
    /\ pc = "term"
    /\ pc' = "term wait"
    /\ UNCHANGED <<agent, code, last, transcript, now, scanner, verdict, returncode>>

TermExpires ==
    /\ pc = "term wait"
    /\ agent # "exited"
    /\ pc' = "kill"
    /\ UNCHANGED <<agent, code, last, transcript, now, scanner, verdict, returncode>>

\* Mutant of SendKill: the second signal is SIGTERM again.
SendKill_Soft ==
    /\ pc = "kill"
    /\ pc' = "term wait"
    /\ UNCHANGED <<agent, code, last, transcript, now, scanner, verdict, returncode>>

SendKill ==
    /\ pc = "kill"
    /\ agent' = IF agent = "running" THEN "dying" ELSE agent
    /\ pc' = "kill wait"
    /\ UNCHANGED <<code, last, transcript, now, scanner, verdict, returncode>>

\* Mutant of KillExpires: the exception is swallowed.
KillExpires_Ignored ==
    /\ pc = "kill wait"
    /\ agent # "exited"
    /\ pc' = "return"
    /\ UNCHANGED <<agent, code, last, transcript, now, scanner, verdict, returncode>>

\* The second wait expires too (30 s after SIGKILL) and its exception leaves
\* agent_turn.
KillExpires ==
    /\ pc = "kill wait"
    /\ agent # "exited"
    /\ pc' = "raised"
    /\ UNCHANGED <<agent, code, last, transcript, now, scanner, verdict, returncode>>

-----------------------------------------------------------------------------
Agent == \/ \E kind \in {"plain", "error", "wide"} : WriteText(kind)
         \/ WriteNewline
         \/ WriteLast
         \/ \E rc \in {0, 1} : AgentExit(rc)
         \/ Die

Harness == Check \/ WaitReturns \/ PollExpires \/ Scan \/ SendTerm \/ TermExpires
             \/ SendKill \/ KillExpires

\* The turn is over; the process stops here in the model.
Over == pc \in {"return", "raised"} /\ UNCHANGED vars

Next == Agent \/ Harness \/ Over

Spec == Init /\ [][Next]_vars

\* Time passes and the harness is scheduled; nothing is asked of the agent.
FairSpec == Spec /\ WF_vars(Harness)

-----------------------------------------------------------------------------
(***************************************************************************)
(* Properties.                                                             *)
(***************************************************************************)
\* Every variable has its type; the deadline is never passed by a poll.
TypeOK ==
    /\ agent \in {"running", "dying", "exited"}
    /\ code \in {0, 1} /\ returncode \in {0, 1}
    /\ last \in BOOLEAN /\ open \in BOOLEAN /\ cut \in BOOLEAN
    /\ lines \in Seq({"plain", "error", "wide"})
    /\ pc \in {"check", "wait", "scan", "term", "term wait", "kill", "kill wait",
               "return", "raised"}
    /\ now \in 0..Polls
    /\ scanned \in Nat /\ detected \in Nat
    /\ timed_out \in BOOLEAN /\ protocol_aborted \in BOOLEAN
    /\ termination_reason \in {"none", "timeout", "unsupported_tool_loop"}

Errors(kinds, n) == Cardinality({i \in 1..n : lines[i] \in kinds})

\* The incremental scan is exact: over the lines it has consumed, whatever the
\* moments at which it read the growing file, it counted every router error once
\* and nothing else; only a line longer than the carry may go uncounted.
ScanIsExact ==
    /\ scanned <= Len(lines)
    /\ detected >= Errors({"error"}, scanned)
    /\ detected <= Errors({"error", "wide"}, scanned)

\* The record agent_turn returns; `session` does not depend on the loop.
Result(session) ==
    [returncode |-> returncode, timed_out |-> timed_out,
     protocol_aborted |-> protocol_aborted, termination_reason |-> termination_reason,
     errors |-> Errors({"error", "wide"}, Len(lines)), output_valid |-> last,
     session |-> session]

\* Whatever the race between the agent's exit, the deadline and the scan, a turn
\* that returns has reaped its process and reports what the pilot analyzer later
\* demands of it: one reason, and a protocol abort only with three router errors
\* in the transcript that was read back.
ReturnsTurnResult ==
    pc = "return" => /\ agent = "exited" /\ returncode = code
                     /\ \A session \in BOOLEAN : Result(session) \in TurnResult

\* agent_turn always comes back, even if the agent never exits and ignores SIGTERM.
AlwaysReturns == <>(pc \in {"return", "raised"})

=============================================================================
