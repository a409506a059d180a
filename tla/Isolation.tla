----------------------------- MODULE Isolation -----------------------------
(***************************************************************************)
(* The boundary around one round-4 attempt: isolation.py with the          *)
(* preflights of the three agents, and the server check of v4_runner.py.   *)
(*                                                                         *)
(* A host is what the machine does when it is probed: [system, sandbox,    *)
(* endpoint, canary, leaks, reachable, external, cli].  `leaks` are the    *)
(* categories of protected paths that stay readable inside the sandbox,    *)
(* `external` is how a connection to the outside ends ("denied" is a       *)
(* PermissionError, "refused" any other OSError, "open" a connection), and *)
(* `cli` the capabilities that the agent's command line shows.             *)
(***************************************************************************)
EXTENDS Naturals, FiniteSets

\* The categories of protected paths that round4.run names.
CATEGORIES ==
    {"held_back_checks", "reference_solutions", "canonical_task_repositories", "prior_attempts",
     "completed_repositories", "agent_global_sessions", "agent_global_configuration_caches"}

\* What validate_config asks before a campaign starts.  It admits two values of
\* round4_isolation, none and the complete contract; the contract needs an endpoint
\* on the loopback interface with a port, which may be 0, and a host with a sandbox.
ValidIsolation(mode, host) ==
    mode = "macos_seatbelt" =>
        /\ host.endpoint \in {"loopback_port", "loopback_zero"}
        /\ host.system = "Darwin" /\ host.sandbox

\* The constructor of MacOSSeatbeltIsolation: the network policy of the profile
\* can only name a port of the loopback interface, and port 0 is none.
Constructed(host) ==
    host.system = "Darwin" /\ host.sandbox /\ host.endpoint = "loopback_port"

\* The script of the canary, run under the profile: the checks that come out true.
\* A category has its own secret as a target, so none is empty.
CanaryChecks(host) ==
    {"work_read", "work_write"}
    \cup {c \in CATEGORIES : c \notin host.leaks}
    \cup (IF host.reachable THEN {"model_endpoint_reachable"} ELSE {})
    \cup (IF host.external = "denied" THEN {"external_network_blocked"} ELSE {})

Mandatory ==
    {"work_read", "work_write", "model_endpoint_reachable", "external_network_blocked"} \cup CATEGORIES

\* MacOSSeatbeltIsolation.preflight: a canary that does not run, says nothing
\* readable or misses one check refuses the attempt.
SeatbeltPreflight(host) == host.canary /\ Mandatory \subseteq CanaryChecks(host)

\* Without isolation every check passes, nothing is out of sight and no transcript
\* is audited.
NoIsolation(mode) == mode = "none"

\* make_isolation and _preflight_isolation.
Isolated(mode, host) ==
    \/ NoIsolation(mode)
    \/ mode = "macos_seatbelt" /\ Constructed(host) /\ SeatbeltPreflight(host)

CodexReady(host) == "executable" \in host.cli

\* The help text must name every option that turn uses, and one of the two
\* switches that answer permission questions.
OpenCodeReady(host) ==
    /\ {"executable", "help", "--model", "--format", "--session", "--dir"} \subseteq host.cli
    /\ {"--dangerously-skip-permissions", "--auto"} \cap host.cli # {}

\* The catalog must list the model that models.json in the private directory names.
PiReady(host) ==
    {"executable", "help", "--print", "--mode", "--model", "--session-id", "--session-dir",
     "--no-context-files", "registered"} \subseteq host.cli

CliReady(backend, host) ==
    CASE backend = "codex_cli"    -> CodexReady(host)
      [] backend = "opencode_cli" -> OpenCodeReady(host)
      [] backend = "pi_cli"       -> PiReady(host)

\* preflight of v4_runner.py: only a local server is asked, for its list of models.
ServerReady(server) == server \in {"frontier", "serving"}

(***************************************************************************)
(* The profile: paths are <<"evidence", task, attempt>>, with everything   *)
(* below attemptN, <<"state", task, attempt, retry>>, <<"rounds">>,        *)
(* <<"global">>, <<"scratch", task, attempt>>, a working copy below _work, *)
(* and <<"report", file>>, a file of the model's own output directory.     *)
(***************************************************************************)

\* What earlier attempts, of this command or of another, may have left when the agent
\* of attempt id runs.  There is one working copy for each task and attempt, and
\* copy_repo has made that of id anew.
Left(id, stateDirs) ==
    {<<"evidence", i[1], i[2]>> : i \in stateDirs \ {id}}
    \cup {<<"state", i[1], i[2], i[3]>> : i \in stateDirs \ {id}}
    \cup {<<"scratch", i[1], i[2]>> : i \in {j \in stateDirs : <<j[1], j[2]>> # <<id[1], id[2]>>}}
    \cup {<<"report", "run.json">>, <<"report", "harness.log">>}

\* Mutant of PriorAttempts: attempts are told apart by their number, so what a
\* killed command left of this very attempt stays readable.
PriorAttempts_ByNumber(id, stateDirs) ==
    {<<"evidence", i[1], i[2]>> : i \in {j \in stateDirs : <<j[1], j[2]>> # <<id[1], id[2]>>}}
    \cup {<<"state", i[1], i[2], i[3]>> : i \in stateDirs}

\* The attempt* directories below the run directory when the agent is made: those
\* of _agent_state, where the new one is not yet, and those with evidence.  Only
\* the directory of this very attempt is left out, and attemptN is not that one
\* when the evidence goes to attemptN/retryR.
PriorAttempts(id, stateDirs) ==
    {<<"evidence", i[1], i[2]>> :
        i \in {j \in stateDirs : <<j[1], j[2]>> # <<id[1], id[2]>> \/ id[3] > 0}}
    \cup {<<"state", i[1], i[2], i[3]>> : i \in stateDirs}

\* _build_profile: everything is readable but the protected paths, and with it the
\* working copies of other attempts and the reports, which no category names.
Denied(mode, id, stateDirs) ==
    IF NoIsolation(mode) THEN {} ELSE PriorAttempts(id, stateDirs) \cup {<<"rounds">>, <<"global">>}

\* audit: a transcript with the secret of the canary.
BoundaryViolation(mode, raw) == ~NoIsolation(mode) /\ raw.canary
=============================================================================
