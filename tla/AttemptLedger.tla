--------------------------- MODULE AttemptLedger ---------------------------
(***************************************************************************)
(* What a round-4 command promises to whoever reads run.json, without the  *)
(* directories, agents and retries that Round4 has:                        *)
(*                                                                         *)
(*  - a command settles the planned attempts in the order of the plan, each *)
(*    once, as a pass, a fail or an invalid attempt;                       *)
(*  - run.json holds what one command settled, all of it or nothing;        *)
(*  - grading the saved work again changes nothing;                        *)
(*  - the file is withdrawn before it is written, so a command that dies    *)
(*    in between leaves none.                                              *)
(***************************************************************************)
EXTENDS Naturals, Sequences

CONSTANTS Plan,      \* the attempts in the order in which they are made
          Outcomes,
          NoFile

VARIABLES phase,     \* "idle", "settling" or "writing"
          settled,   \* outcomes of Plan[1], Plan[2], ... so far
          published  \* run.json: NoFile or the outcomes of the whole plan

ledgerVars == <<phase, settled, published>>

LedgerInit == phase = "idle" /\ settled = <<>> /\ published = NoFile

Begin == phase = "idle" /\ phase' = "settling" /\ settled' = <<>> /\ UNCHANGED published

Settle(outcome) ==
    /\ phase = "settling" /\ Len(settled) < Len(Plan)
    /\ settled' = Append(settled, outcome)
    /\ UNCHANGED <<phase, published>>

Withdraw ==
    /\ phase = "settling" /\ Len(settled) = Len(Plan)
    /\ phase' = "writing" /\ published' = NoFile
    /\ UNCHANGED settled

\* A regrade holds what was published and takes the file away.
Reopen ==
    /\ phase = "idle" /\ published # NoFile
    /\ phase' = "writing" /\ settled' = published /\ published' = NoFile

Publish ==
    /\ phase = "writing"
    /\ phase' = "idle" /\ published' = settled /\ settled' = <<>>

Stop == phase # "idle" /\ phase' = "idle" /\ settled' = <<>> /\ UNCHANGED published

LedgerNext == \/ Begin
              \/ \E outcome \in Outcomes : Settle(outcome)
              \/ Withdraw
              \/ Reopen
              \/ Publish
              \/ Stop

LedgerSpec == LedgerInit /\ [][LedgerNext]_ledgerVars
=============================================================================
