--------------------------- MODULE AgentTurnProofs ---------------------------
(***************************************************************************)
(* Proofs about AgentTurn, for every deadline and every number of lines.   *)
(***************************************************************************)
EXTENDS AgentTurn, FiniteSetTheorems, TLAPS

-----------------------------------------------------------------------------
(***************************************************************************)
(* Counting the router errors of a transcript.                             *)
(***************************************************************************)

\* The first n lines hold at most n router errors.
LEMMA ErrorsBound ==
    ASSUME NEW kinds, NEW n \in Nat
    PROVE  /\ IsFiniteSet({i \in 1..n : lines[i] \in kinds})
           /\ Errors(kinds, n) \in Nat
           /\ Errors(kinds, n) <= n
<1>1. IsFiniteSet(1..n) /\ Cardinality(1..n) = n
  BY FS_Interval
<1> DEFINE S == {i \in 1..n : lines[i] \in kinds}
<1>2. S \in SUBSET (1..n)
  OBVIOUS
<1> HIDE DEF S
<1>3. IsFiniteSet(S) /\ Cardinality(S) <= n
  BY <1>1, <1>2, FS_Subset
<1>4. Cardinality(S) \in Nat
  BY <1>3, FS_CardinalityType
<1> QED
  BY <1>3, <1>4 DEF Errors, S

\* More lines hold no fewer router errors.
LEMMA ErrorsMonotone ==
    ASSUME NEW kinds, NEW m \in Nat, NEW n \in Nat, m <= n
    PROVE  Errors(kinds, m) <= Errors(kinds, n)
<1> DEFINE S == {i \in 1..m : lines[i] \in kinds}
           T == {i \in 1..n : lines[i] \in kinds}
<1>1. S \in SUBSET T
  OBVIOUS
<1>2. IsFiniteSet(T)
  BY ErrorsBound
<1> HIDE DEF S, T
<1>3. Cardinality(S) <= Cardinality(T)
  BY <1>1, <1>2, FS_Subset
<1> QED
  BY <1>3 DEF Errors, S, T

\* What a scan adds to `detected` lies between the errors that the carry can hold
\* and all errors of the newly completed lines.
LEMMA ScanCounts ==
    ASSUME NEW s \in Nat, s = scanned, Complete \in Nat, scanned <= Complete,
           cut => lines[scanned + 1] = "wide",
           \A i \in 1..Complete : lines[i] \in {"plain", "error", "wide"}
    PROVE  /\ Cardinality(NewCalls) \in Nat
           /\ Errors({"error"}, Complete) <= Errors({"error"}, s) + Cardinality(NewCalls)
           /\ Errors({"error", "wide"}, s) + Cardinality(NewCalls)
                <= Errors({"error", "wide"}, Complete)
<1> DEFINE c  == Complete
           E1 == {i \in 1..s : lines[i] \in {"error"}}
           E2 == {i \in 1..c : lines[i] \in {"error"}}
           W1 == {i \in 1..s : lines[i] \in {"error", "wide"}}
           W2 == {i \in 1..c : lines[i] \in {"error", "wide"}}
<1>1. /\ IsFiniteSet(E1) /\ IsFiniteSet(E2) /\ IsFiniteSet(W1) /\ IsFiniteSet(W2)
      /\ Cardinality(E1) \in Nat /\ Cardinality(E2) \in Nat
      /\ Cardinality(W1) \in Nat /\ Cardinality(W2) \in Nat
  BY ErrorsBound DEF Errors
<1>2. NewCalls \in SUBSET W2
  <2> SUFFICES ASSUME NEW i \in NewCalls PROVE i \in W2
    OBVIOUS
  <2>1. i \in (s + 1)..c /\ lines[i] # "plain"
    BY DEF NewCalls
  <2>2. i \in 1..c
    BY <2>1
  <2> QED
    BY <2>1, <2>2
<1>3. E2 \in SUBSET (E1 \cup NewCalls)
  <2> SUFFICES ASSUME NEW i \in 1..c, lines[i] = "error" PROVE i \in E1 \cup NewCalls
    OBVIOUS
  <2>1. CASE i <= s
    BY <2>1
  <2>2. CASE i > s
    BY <2>2 DEF NewCalls
  <2> QED
    BY <2>1, <2>2
<1>4. (W1 \cup NewCalls) \in SUBSET W2
  <2>1. W1 \in SUBSET W2
    OBVIOUS
  <2> QED
    BY <1>2, <2>1
<1>5. W1 \cap NewCalls = {}
  <2>1. \A i \in W1 : i <= s
    OBVIOUS
  <2>2. \A i \in NewCalls : i \in Nat /\ i > s
    BY DEF NewCalls
  <2> QED
    BY <2>1, <2>2
<1>6. IsFiniteSet(NewCalls) /\ Cardinality(NewCalls) \in Nat
  <2> HIDE DEF W2
  <2>1. IsFiniteSet(NewCalls)
    BY <1>1, <1>2, FS_Subset
  <2> QED
    BY <2>1, FS_CardinalityType
<1> HIDE DEF E1, E2, W1, W2
<1>7. Cardinality(E2) <= Cardinality(E1) + Cardinality(NewCalls)
  <2>1. /\ IsFiniteSet(E1 \cup NewCalls)
        /\ Cardinality(E1 \cup NewCalls)
             = Cardinality(E1) + Cardinality(NewCalls) - Cardinality(E1 \cap NewCalls)
    BY <1>1, <1>6, FS_Union
  <2>2. Cardinality(E2) <= Cardinality(E1 \cup NewCalls)
    BY <1>3, <2>1, FS_Subset
  <2>3. Cardinality(E1 \cap NewCalls) \in Nat
    <3>1. (E1 \cap NewCalls) \in SUBSET E1
      OBVIOUS
    <3>2. IsFiniteSet(E1 \cap NewCalls)
      BY <1>1, <3>1, FS_Subset
    <3> QED
      BY <3>2, FS_CardinalityType
  <2>4. Cardinality(E1 \cup NewCalls) \in Nat
    BY <2>1, FS_CardinalityType
  <2> QED
    BY <1>1, <1>6, <2>1, <2>2, <2>3, <2>4
<1>8. Cardinality(W1) + Cardinality(NewCalls) <= Cardinality(W2)
  <2>1. Cardinality(W1 \cup NewCalls)
          = Cardinality(W1) + Cardinality(NewCalls) - Cardinality(W1 \cap NewCalls)
    BY <1>1, <1>6, FS_Union
  <2>2. Cardinality(W1 \cap NewCalls) = 0
    BY <1>5, FS_EmptySet
  <2>3. Cardinality(W1 \cup NewCalls) <= Cardinality(W2)
    BY <1>1, <1>4, FS_Subset
  <2> QED
    BY <1>1, <1>6, <2>1, <2>2, <2>3
<1> QED
  BY <1>6, <1>7, <1>8 DEF Errors, E1, E2, W1, W2

-----------------------------------------------------------------------------
(***************************************************************************)
(* The inductive invariant.                                                *)
(***************************************************************************)

\* A line that lost its start in the carry is a long one; an open line exists.
ScanInv ==
    /\ scanned <= Complete
    /\ open => Len(lines) > 0
    /\ Len(lines) <= MaxLines
    /\ cut => scanned < Len(lines) /\ lines[scanned + 1] = "wide"
    /\ detected >= Errors({"error"}, scanned)
    /\ detected <= Errors({"error", "wide"}, scanned)

\* A verdict is given once, with its reason, and only when the poll loop is left;
\* the process is reaped before the turn returns; a poll starts before the
\* deadline.
VerdictInv ==
    /\ pc \in {"check", "wait", "scan"} => termination_reason = "none"
    /\ timed_out <=> termination_reason = "timeout"
    /\ protocol_aborted <=> termination_reason = "unsupported_tool_loop"
    /\ protocol_aborted => detected >= MAX_UNSUPPORTED_CALLS_PER_AGENT_TURN
    /\ pc = "return" => agent = "exited" /\ returncode = code
    /\ pc = "wait" => now < Polls

Inv == TypeOK /\ ScanInv /\ VerdictInv

\* The number of complete lines.
LEMMA CompleteType ==
    ASSUME TypeOK, open => Len(lines) > 0
    PROVE  Complete \in Nat /\ Complete <= Len(lines) /\ Len(lines) \in Nat
<1>1. Len(lines) \in Nat
  <2>1. lines \in Seq({"plain", "error", "wide"})
    BY DEF TypeOK
  <2> QED
    BY <2>1
<1>2. CASE open
  BY <1>1, <1>2 DEF Complete
<1>3. CASE ~open
  BY <1>1, <1>3 DEF Complete
<1> QED
  BY <1>2, <1>3

\* The empty transcript satisfies the invariant.
LEMMA InvInit == Init => Inv
<1> SUFFICES ASSUME Init PROVE Inv
  OBVIOUS
<1>1. TypeOK
  <2>1. lines \in Seq({"plain", "error", "wide"})
    BY DEF Init
  <2>2. now \in 0..Polls /\ scanned \in Nat /\ detected \in Nat /\ code \in {0, 1}
        /\ returncode \in {0, 1}
    BY TurnAssumption DEF Init
  <2> QED
    BY <2>1, <2>2, Zenon DEF Init, TypeOK
<1>2. \A kinds : Errors(kinds, 0) = 0
  <2> TAKE kinds
  <2>1. Errors(kinds, 0) \in Nat /\ Errors(kinds, 0) <= 0
    BY ErrorsBound
  <2> QED
    BY <2>1
<1>3. ScanInv
  BY <1>2, TurnAssumption DEF Init, ScanInv, Complete
<1>4. VerdictInv
  BY DEF Init, VerdictInv
<1> QED
  BY <1>1, <1>3, <1>4 DEF Inv

\* Every step keeps the types.
LEMMA TypeStep == Inv /\ [Next]_vars => TypeOK'
<1> SUFFICES ASSUME Inv, [Next]_vars PROVE TypeOK'
  OBVIOUS
<1> USE DEF transcript, scanner, verdict
<1>1. TypeOK
  BY DEF Inv
<1>2. ASSUME NEW kind \in {"plain", "error", "wide"}, WriteText(kind) PROVE TypeOK'
  <2>1. lines' \in Seq({"plain", "error", "wide"})
    <3>1. lines \in Seq({"plain", "error", "wide"}) /\ lines' = Append(lines, kind)
      BY <1>1, <1>2 DEF WriteText, TypeOK
    <3> QED
      BY <3>1
  <2> QED
    BY <1>1, <1>2, <2>1, ZenonT(60) DEF WriteText, TypeOK
<1>3. CASE WriteNewline
  BY <1>1, <1>3, ZenonT(60) DEF WriteNewline, TypeOK
<1>4. CASE WriteLast
  BY <1>1, <1>4, ZenonT(60) DEF WriteLast, TypeOK
<1>5. ASSUME NEW rc \in {0, 1}, AgentExit(rc) PROVE TypeOK'
  BY <1>1, <1>5, ZenonT(60) DEF AgentExit, TypeOK
<1>6. CASE Die
  BY <1>1, <1>6, ZenonT(60) DEF Die, TypeOK
<1>7. CASE Check
  BY <1>1, <1>7, ZenonT(60) DEF Check, TypeOK
<1>8. CASE WaitReturns
  BY <1>1, <1>8 DEF WaitReturns, TypeOK
<1>9. CASE PollExpires
  <2>1. now' \in 0..Polls
    BY <1>1, <1>9, TurnAssumption DEF PollExpires, Inv, VerdictInv, TypeOK
  <2> QED
    BY <1>1, <1>9, <2>1 DEF PollExpires, TypeOK
<1>10. CASE Scan
  <2>1. Complete \in Nat /\ scanned <= Complete /\ Complete <= Len(lines) /\ Len(lines) \in Nat
    BY <1>1, CompleteType DEF Inv, ScanInv
  <2>2. Cardinality(NewCalls) \in Nat
    <3>1. scanned \in Nat /\ lines \in Seq({"plain", "error", "wide"})
      BY <1>1 DEF TypeOK
    <3>2. \A i \in 1..Complete : lines[i] \in {"plain", "error", "wide"}
      BY <2>1, <3>1
    <3>3. cut => lines[scanned + 1] = "wide"
      BY DEF Inv, ScanInv
    <3> QED
      BY <2>1, <3>1, <3>2, <3>3, ScanCounts
  <2>3. detected' \in Nat /\ scanned' \in Nat /\ cut' \in BOOLEAN
    BY <1>1, <1>10, <2>1, <2>2 DEF Scan, TypeOK
  <2> QED
    BY <1>1, <1>10, <2>3 DEF Scan, TypeOK
<1>11. CASE SendTerm \/ TermExpires \/ KillExpires
  BY <1>1, <1>11, ZenonT(60) DEF SendTerm, TermExpires, KillExpires, TypeOK
<1>12. CASE SendKill
  BY <1>1, <1>12 DEF SendKill, TypeOK
<1>13. CASE UNCHANGED vars
  <2>1. /\ UNCHANGED <<agent, code, lines, pc, now, scanned, detected>>
        /\ UNCHANGED <<termination_reason, returncode>>
        /\ UNCHANGED <<last, open, cut, timed_out, protocol_aborted>>
    BY <1>13 DEF vars
  <2>2. last' \in BOOLEAN /\ open' \in BOOLEAN /\ cut' \in BOOLEAN
        /\ timed_out' \in BOOLEAN /\ protocol_aborted' \in BOOLEAN
    BY <1>1, <2>1 DEF TypeOK
  <2> QED
    BY <1>1, <2>1, <2>2 DEF TypeOK
<1> QED
  BY <1>2, <1>3, <1>4, <1>5, <1>6, <1>7, <1>8, <1>9, <1>10, <1>11, <1>12, <1>13
  DEF Next, Agent, Harness, Over

\* Every step keeps the scan exact.
LEMMA ScanStep == Inv /\ [Next]_vars => ScanInv'
<1> SUFFICES ASSUME Inv, [Next]_vars PROVE ScanInv'
  OBVIOUS
<1>1. /\ TypeOK /\ ScanInv
      /\ Complete \in Nat /\ Complete <= Len(lines) /\ Len(lines) \in Nat
      /\ scanned \in Nat /\ scanned <= Complete
      /\ lines \in Seq({"plain", "error", "wide"})
  BY CompleteType DEF Inv, ScanInv, TypeOK
<1>2. ASSUME NEW kind \in {"plain", "error", "wide"}, WriteText(kind) PROVE ScanInv'
  <2>1. /\ ~open /\ open' /\ lines' = Append(lines, kind) /\ UNCHANGED scanner
        /\ Len(lines) < MaxLines
    BY <1>2 DEF WriteText
  <2>2. /\ Len(lines') = Len(lines) + 1
        /\ \A i \in 1..Len(lines) : lines'[i] = lines[i]
    BY <1>1, <2>1
  <2>3. Complete' = Len(lines) /\ Complete = Len(lines)
    BY <1>1, <2>1, <2>2 DEF Complete
  <2>4. \A kinds : Errors(kinds, scanned)' = Errors(kinds, scanned)
    <3> TAKE kinds
    <3>1. \A i \in 1..scanned : lines'[i] = lines[i]
      BY <1>1, <2>2
    <3>2. {i \in 1..scanned : lines'[i] \in kinds} = {i \in 1..scanned : lines[i] \in kinds}
      BY <3>1
    <3> QED
      BY <2>1, <3>2 DEF Errors, scanner
  <2>5. cut' => scanned' < Len(lines') /\ lines'[scanned' + 1] = "wide"
    BY <1>1, <2>1, <2>2 DEF ScanInv, scanner
  <2>6. Len(lines') <= MaxLines
    BY <1>1, <2>1, <2>2, TurnAssumption
  <2> QED
    BY <1>1, <2>1, <2>2, <2>3, <2>4, <2>5, <2>6 DEF ScanInv, scanner
<1>3. ASSUME lines' = lines, UNCHANGED scanner, open' => open PROVE ScanInv'
  <2>1. Complete <= Complete' /\ Complete' \in Nat
    <3>1. CASE open'
      BY <1>1, <1>3, <3>1 DEF Complete
    <3>2. CASE ~open'
      BY <1>1, <1>3, <3>2 DEF Complete
    <3> QED
      BY <3>1, <3>2
  <2> QED
    BY <1>1, <1>3, <2>1 DEF ScanInv, scanner, Errors
<1>4. CASE Scan
  <2>1. /\ detected' = detected + Cardinality(NewCalls) /\ scanned' = Complete
        /\ cut' = (open /\ lines[Len(lines)] = "wide")
        /\ lines' = lines /\ open' = open
    BY <1>4 DEF Scan, transcript
  <2>2. \A i \in 1..Complete : lines[i] \in {"plain", "error", "wide"}
    BY <1>1
  <2>3. cut => lines[scanned + 1] = "wide"
    BY <1>1 DEF ScanInv
  <2>4. /\ Cardinality(NewCalls) \in Nat
        /\ Errors({"error"}, Complete) <= Errors({"error"}, scanned) + Cardinality(NewCalls)
        /\ Errors({"error", "wide"}, scanned) + Cardinality(NewCalls)
             <= Errors({"error", "wide"}, Complete)
    BY <1>1, <2>2, <2>3, ScanCounts
  <2>5. Complete' = Complete
    BY <2>1 DEF Complete
  <2>6. /\ detected' >= Errors({"error"}, Complete)
        /\ detected' <= Errors({"error", "wide"}, Complete)
    <3>1. /\ Errors({"error"}, scanned) \in Nat /\ Errors({"error"}, Complete) \in Nat
          /\ Errors({"error", "wide"}, scanned) \in Nat
          /\ Errors({"error", "wide"}, Complete) \in Nat
      BY <1>1, ErrorsBound
    <3>2. detected \in Nat
      BY <1>1 DEF TypeOK
    <3> QED
      BY <1>1, <2>1, <2>4, <3>1, <3>2 DEF ScanInv
  <2>7. cut' => scanned' < Len(lines') /\ lines'[scanned' + 1] = "wide"
    <3> SUFFICES ASSUME cut' PROVE scanned' < Len(lines') /\ lines'[scanned' + 1] = "wide"
      OBVIOUS
    <3>1. open /\ lines[Len(lines)] = "wide" /\ Len(lines) > 0
      BY <1>1, <2>1 DEF ScanInv
    <3>2. Complete = Len(lines) - 1
      BY <3>1 DEF Complete
    <3> QED
      BY <1>1, <2>1, <3>1, <3>2
  <2>8. /\ Errors({"error"}, scanned)' = Errors({"error"}, Complete)
        /\ Errors({"error", "wide"}, scanned)' = Errors({"error", "wide"}, Complete)
    BY <2>1 DEF Errors
  <2> QED
    BY <1>1, <2>1, <2>5, <2>6, <2>7, <2>8 DEF ScanInv
<1> QED
  <2>1. CASE WriteNewline \/ WaitReturns
    BY <1>3, <2>1 DEF WriteNewline, WaitReturns
  <2>2. CASE WriteLast \/ (\E rc \in {0, 1} : AgentExit(rc)) \/ Die
    BY <1>3, <2>2 DEF WriteLast, AgentExit, Die, transcript
  <2>3. CASE Check \/ PollExpires \/ SendTerm \/ TermExpires \/ SendKill \/ KillExpires
    BY <1>3, <2>3
    DEF Check, PollExpires, SendTerm, TermExpires, SendKill, KillExpires, transcript
  <2>4. CASE Over \/ UNCHANGED vars
    BY <1>3, <2>4 DEF Over, vars, transcript
  <2> QED
    BY <1>2, <1>4, <2>1, <2>2, <2>3, <2>4 DEF Next, Agent, Harness

\* Every step keeps the verdict.
LEMMA VerdictStep == Inv /\ [Next]_vars => VerdictInv'
<1> SUFFICES ASSUME Inv, [Next]_vars PROVE VerdictInv'
  OBVIOUS
<1> USE DEF transcript, scanner, verdict
<1>1. TypeOK /\ VerdictInv
  BY DEF Inv
<1>2. CASE Agent
  <2>1. /\ UNCHANGED <<pc, now, scanner, verdict, returncode>>
        /\ agent = "exited" => UNCHANGED <<agent, code>>
    BY <1>2 DEF Agent, WriteText, WriteNewline, WriteLast, AgentExit, Die
  <2> QED
    BY <1>1, <2>1 DEF VerdictInv
<1>3. CASE Check
  BY <1>1, <1>3, TurnAssumption DEF Check, VerdictInv, TypeOK
<1>4. CASE WaitReturns
  BY <1>1, <1>4 DEF WaitReturns, VerdictInv
<1>5. CASE PollExpires
  BY <1>1, <1>5 DEF PollExpires, VerdictInv
<1>6. CASE Scan
  BY <1>1, <1>6 DEF Scan, VerdictInv
<1>7. CASE SendTerm \/ TermExpires \/ SendKill \/ KillExpires
  <2>1. pc' \in {"term wait", "kill", "kill wait", "raised"} /\ UNCHANGED <<detected, verdict>>
    BY <1>7 DEF SendTerm, TermExpires, SendKill, KillExpires
  <2> QED
    BY <1>1, <2>1 DEF VerdictInv
<1>8. CASE Over \/ UNCHANGED vars
  <2>1. UNCHANGED <<agent, code, pc, now, detected, verdict, returncode>>
    BY <1>8 DEF Over, vars
  <2> QED
    BY <1>1, <2>1 DEF VerdictInv
<1> QED
  BY <1>2, <1>3, <1>4, <1>5, <1>6, <1>7, <1>8 DEF Next, Harness

\* The invariant holds in every reachable state of agent_turn.
THEOREM TurnCorrect == Spec => []Inv
<1>1. Inv /\ [Next]_vars => Inv'
  BY TypeStep, ScanStep, VerdictStep DEF Inv
<1> QED
  BY <1>1, InvInit, PTL DEF Spec

\* Every variable keeps its type, and no poll starts after the deadline.
THEOREM TypeCorrect == Spec => []TypeOK
<1>1. Inv => TypeOK
  BY DEF Inv
<1> QED
  BY <1>1, TurnCorrect, PTL

\* _new_protocol_calls, whenever it reads the growing transcript, has counted each
\* router error of the lines it consumed once, up to lines longer than its carry.
THEOREM ExactScan == Spec => []ScanIsExact
<1>1. Inv => ScanIsExact
  <2> SUFFICES ASSUME Inv PROVE ScanIsExact
    OBVIOUS
  <2>1. /\ Complete \in Nat /\ Complete <= Len(lines) /\ Len(lines) \in Nat
        /\ scanned \in Nat /\ scanned <= Complete
    BY CompleteType DEF Inv, ScanInv, TypeOK
  <2>2. scanned <= Len(lines)
    BY <2>1
  <2> QED
    BY <2>2 DEF Inv, ScanInv, ScanIsExact
<1> QED
  BY <1>1, TurnCorrect, PTL

\* A turn that returns has reaped its agent and returns a TurnResult, the set from
\* which Pilot takes its turns.
THEOREM ReturnsResult == Spec => []ReturnsTurnResult
<1>1. ASSUME Inv, pc = "return", NEW session \in BOOLEAN
      PROVE  agent = "exited" /\ returncode = code /\ Result(session) \in TurnResult
  <2> DEFINE errors == Errors({"error", "wide"}, Len(lines))
             r == Result(session)
  <2>1. /\ TypeOK /\ ScanInv /\ VerdictInv
        /\ Complete \in Nat /\ Complete <= Len(lines) /\ Len(lines) \in Nat
        /\ scanned \in Nat /\ scanned <= Len(lines) /\ detected \in Nat
    BY <1>1, CompleteType DEF Inv, ScanInv, TypeOK
  <2>2. errors \in Nat /\ errors <= Len(lines) /\ Errors({"error", "wide"}, scanned) \in Nat
    BY <2>1, ErrorsBound
  <2>3. Errors({"error", "wide"}, scanned) <= errors
    BY <2>1, ErrorsMonotone
  <2>4. errors \in 0..MaxErrors
    BY <2>1, <2>2, TurnAssumption DEF ScanInv
  <2>5. detected <= errors
    BY <2>1, <2>2, <2>3 DEF ScanInv
  <2>6. r = [returncode |-> returncode, timed_out |-> timed_out,
             protocol_aborted |-> protocol_aborted,
             termination_reason |-> termination_reason,
             errors |-> errors, output_valid |-> last, session |-> session]
    BY DEF Result
  <2> HIDE DEF r, errors
  <2>7. r \in TurnRecord
    BY <2>1, <2>4, <2>6 DEF TurnRecord, TypeOK
  <2>8. /\ r.timed_out <=> r.termination_reason = "timeout"
        /\ r.protocol_aborted <=> r.termination_reason = "unsupported_tool_loop"
    BY <2>1, <2>6 DEF VerdictInv
  <2>9. r.protocol_aborted => r.errors >= MAX_UNSUPPORTED_CALLS_PER_AGENT_TURN
    BY <2>1, <2>2, <2>5, <2>6 DEF VerdictInv, MAX_UNSUPPORTED_CALLS_PER_AGENT_TURN
  <2>10. r \in TurnResult
    BY <2>7, <2>8, <2>9 DEF TurnResult
  <2>11. agent = "exited" /\ returncode = code
    BY <1>1, <2>1 DEF VerdictInv
  <2> QED
    BY <2>10, <2>11 DEF r
<1>2. Inv => ReturnsTurnResult
  BY <1>1 DEF ReturnsTurnResult
<1> QED
  BY <1>2, TurnCorrect, PTL
=============================================================================
