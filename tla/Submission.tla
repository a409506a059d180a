---------------------------- MODULE Submission ----------------------------
(***************************************************************************)
(* `submit --open-pr --yes`: open_submission_pr against GitHub.  Several    *)
(* accounts run the command, each for any of its bundles and as often as it *)
(* likes; a request may fail, its answer may be lost and the process may be *)
(* killed after any of them.  A bundle is identified by its content, so a   *)
(* branch name and a path are determined by it.                            *)
(*                                                                         *)
(* GitHub is external: what its requests do is taken from how the command   *)
(* uses them.  A reference is created only if it does not exist, and a file *)
(* is created only if its branch does not hold it.                         *)
(***************************************************************************)
EXTENDS Naturals, FiniteSets

CONSTANTS Owner,        \* the account that owns the upstream repository
          Contributors, \* the other accounts
          Bundles,
          MaxFaults,    \* bound: failed requests, lost answers and kills
          Missing

Users == Contributors \cup {Owner}

ASSUME UsersAssumption == Owner \notin Contributors
ASSUME FaultsAssumption == MaxFaults \in Nat
ASSUME MissingAssumption ==
    /\ Missing \notin Bundles
    /\ Missing \notin [base : SUBSET Bundles, file : BOOLEAN]

VARIABLES upstream, \* the bundles on the default branch of the repository
          fork,     \* [Contributors -> {"none", "pending", "ready"}]
          synced,   \* [Contributors -> SUBSET Bundles]: the fork's default branch
          branch,   \* [Users \X Bundles -> Missing or [base, file]]: the result
                    \* branch in the account's target repository
          pulls,    \* the heads <<user, bundle>> with an open pull request
          client,   \* [Users -> [pc, bundle, sha]]: the command that runs
          waiting,  \* the heads whose last command ended with "not ready"
          faults

github == <<upstream, fork, synced, branch, pulls>>
vars == <<github, client, waiting, faults>>

Idle == [pc |-> "idle", bundle |-> Missing, sha |-> Missing]
Steps == {"idle", "check", "fork", "poll", "sync", "ref", "branch", "put", "pull"}

TypeOK ==
    /\ upstream \subseteq Bundles
    /\ fork \in [Contributors -> {"none", "pending", "ready"}]
    /\ synced \in [Contributors -> SUBSET Bundles]
    /\ branch \in [Users \X Bundles -> [base : SUBSET Bundles, file : BOOLEAN] \cup {Missing}]
    /\ pulls \subseteq Users \X Bundles
    /\ client \in [Users -> [pc : Steps, bundle : Bundles \cup {Missing},
                             sha : (SUBSET Bundles) \cup {Missing}]]
    /\ waiting \subseteq Contributors \X Bundles
    /\ faults \in 0..MaxFaults

Init ==
    /\ upstream = {}
    /\ fork = [u \in Contributors |-> "none"]
    /\ synced = [u \in Contributors |-> {}]
    /\ branch = [h \in Users \X Bundles |-> Missing]
    /\ pulls = {}
    /\ client = [u \in Users |-> Idle]
    /\ waiting = {}
    /\ faults = 0

HeadRef(u) == <<u, client[u].bundle>>

At(u, pc) == client' = [client EXCEPT ![u].pc = pc] /\ UNCHANGED waiting

\* The command ends: it prints the URL, or raises.
End(u, how) == /\ waiting' = IF how = "not ready" THEN waiting \cup {HeadRef(u)}
                                                  ELSE waiting \ {HeadRef(u)}
               /\ client' = [client EXCEPT ![u] = Idle]

Submit(u, b) ==
    /\ client[u].pc = "idle"
    /\ client' = [client EXCEPT ![u] = [pc |-> "check", bundle |-> b, sha |-> Missing]]
    /\ UNCHANGED <<github, waiting, faults>>

\* GET user, the repository and the published file.
CheckPublished(u) ==
    /\ client[u].pc = "check"
    /\ IF client[u].bundle \in upstream THEN End(u, "published")
       ELSE At(u, IF u = Owner THEN "ref" ELSE "fork")
    /\ UNCHANGED <<github, faults>>

\* Mutant of FindFork: the fork is requested without looking for it first.
MutantAlwaysFork(u) ==
    /\ client[u].pc = "fork"
    /\ At(u, "poll")
    /\ fork' = [fork EXCEPT ![u] = "pending"]
    /\ UNCHANGED <<upstream, synced, branch, pulls, faults>>

\* GET the fork, and POST forks without one.
FindFork(u) ==
    /\ client[u].pc = "fork"
    /\ \/ fork[u] = "ready" /\ At(u, "sync") /\ UNCHANGED fork
       \/ fork[u] # "ready" /\ At(u, "poll") /\ fork' = [fork EXCEPT ![u] = "pending"]
    /\ UNCHANGED <<upstream, synced, branch, pulls, faults>>

\* The loop until the deadline, which may pass before the fork is there.
PollFork(u) ==
    /\ client[u].pc = "poll"
    /\ \/ fork[u] = "ready" /\ At(u, "sync")
       \/ fork[u] # "ready" /\ End(u, "not ready")
    /\ UNCHANGED <<github, faults>>

\* POST merge-upstream.
MergeUpstream(u) ==
    /\ client[u].pc = "sync"
    /\ synced' = [synced EXCEPT ![u] = upstream]
    /\ At(u, "ref")
    /\ UNCHANGED <<upstream, fork, branch, pulls, faults>>

\* GET the commit of the default branch of the target.
GetBaseRef(u) ==
    /\ client[u].pc = "ref"
    /\ client' = [client EXCEPT ![u].pc = "branch",
                                ![u].sha = IF u = Owner THEN upstream ELSE synced[u]]
    /\ UNCHANGED <<github, waiting, faults>>

\* Mutant of CreateBranch: the reference is forced, so that a retry gets past it.
MutantForceBranch(u) ==
    /\ client[u].pc = "branch"
    /\ branch' = [branch EXCEPT ![HeadRef(u)] = [base |-> client[u].sha, file |-> FALSE]]
    /\ At(u, "put")
    /\ UNCHANGED <<upstream, fork, synced, pulls, faults>>

\* POST git/refs: GitHub refuses a reference that exists.
CreateBranch(u) ==
    /\ client[u].pc = "branch"
    /\ \/ /\ branch[HeadRef(u)] = Missing
          /\ branch' = [branch EXCEPT ![HeadRef(u)] = [base |-> client[u].sha, file |-> FALSE]]
          /\ At(u, "put")
       \/ branch[HeadRef(u)] # Missing /\ End(u, "failed") /\ UNCHANGED branch
    /\ UNCHANGED <<upstream, fork, synced, pulls, faults>>

\* PUT contents without the sha of an old file: GitHub refuses where one is.
PutFile(u) ==
    /\ client[u].pc = "put"
    /\ \/ /\ branch[HeadRef(u)] # Missing /\ client[u].bundle \notin branch[HeadRef(u)].base
          /\ branch' = [branch EXCEPT ![HeadRef(u)].file = TRUE]
          /\ At(u, "pull")
       \/ /\ branch[HeadRef(u)] = Missing \/ client[u].bundle \in branch[HeadRef(u)].base
          /\ End(u, "failed") /\ UNCHANGED branch
    /\ UNCHANGED <<upstream, fork, synced, pulls, faults>>

\* POST pulls; refused if the branch is gone or has an open pull request.
OpenPull(u) ==
    /\ client[u].pc = "pull"
    /\ \/ /\ branch[HeadRef(u)] # Missing /\ HeadRef(u) \notin pulls
          /\ pulls' = pulls \cup {HeadRef(u)}
          /\ End(u, "opened")
       \/ /\ branch[HeadRef(u)] = Missing \/ HeadRef(u) \in pulls
          /\ End(u, "failed") /\ UNCHANGED pulls
    /\ UNCHANGED <<upstream, fork, synced, branch, faults>>

\* A request fails, or its answer is lost, or the process is killed.
Fail(u) ==
    /\ client[u].pc # "idle" /\ faults < MaxFaults
    /\ faults' = faults + 1
    /\ End(u, "failed")
    /\ UNCHANGED github

\* GitHub completes a fork.
ForkReady(u) ==
    /\ fork[u] = "pending"
    /\ fork' = [fork EXCEPT ![u] = "ready"]
    /\ synced' = [synced EXCEPT ![u] = upstream]
    /\ UNCHANGED <<upstream, branch, pulls, client, waiting, faults>>

\* A maintainer merges a pull request.
Merge(p) ==
    /\ p \in pulls
    /\ upstream' = upstream \cup {p[2]}
    /\ pulls' = pulls \ {p}
    /\ UNCHANGED <<fork, synced, branch, client, waiting, faults>>

\* An account deletes a result branch while it runs no command; GitHub closes
\* the pull request from it.
DeleteBranch(u, b) ==
    /\ client[u].pc = "idle" /\ branch[<<u, b>>] # Missing
    /\ branch' = [branch EXCEPT ![<<u, b>>] = Missing]
    /\ pulls' = pulls \ {<<u, b>>}
    /\ UNCHANGED <<upstream, fork, synced, client, waiting, faults>>

Command(u) ==
    \/ CheckPublished(u)
    \/ GetBaseRef(u)
    \/ CreateBranch(u)
    \/ PutFile(u)
    \/ OpenPull(u)

ForkCommand(u) ==
    \/ FindFork(u)
    \/ PollFork(u)
    \/ MergeUpstream(u)

Next ==
    \/ \E u \in Users :
         \/ \E b \in Bundles : Submit(u, b)
         \/ Command(u)
         \/ Fail(u)
         \/ \E b \in Bundles : DeleteBranch(u, b)
    \/ \E u \in Contributors : ForkCommand(u) \/ ForkReady(u)
    \/ \E p \in pulls : Merge(p)

Spec == Init /\ [][Next]_vars

(***************************************************************************)
(* Properties.                                                             *)
(***************************************************************************)
\* Whatever was retried, lost or raced before, the branch of an open pull request
\* still exists, and merging it adds exactly the file of its bundle: the file is on
\* it and everything else on it is upstream already (open_submission_pr, "Create
\* one result file and PR").
PullIsOneFile ==
    \A p \in pulls :
        /\ branch[p] # Missing
        /\ branch[p].file
        /\ p[2] \notin branch[p].base
        /\ branch[p].base \subseteq upstream

\* "GitHub fork was not ready; retry the same submit command": the command keeps
\* its word.  An account that only ever saw this error and retries gets its pull
\* request, or finds the bundle published, or meets another failed request.
Retried(u, b) == <<u, b>> \in waiting /\ Submit(u, b)

Fairness ==
    \A u \in Contributors :
        /\ WF_vars(Command(u) \/ ForkCommand(u)) /\ WF_vars(ForkReady(u))
        /\ \A b \in Bundles : SF_vars(Retried(u, b))

FairSpec == Spec /\ Fairness

NotReadyIsRetryable ==
    \A u \in Contributors, b \in Bundles :
        <<u, b>> \in waiting ~> <<u, b>> \notin waiting
=============================================================================
