------------------------------ MODULE Results ------------------------------
(***************************************************************************)
(* How one model answer becomes a saved row, how a list of rows becomes    *)
(* the payload of a result.json, and how every later reader (report,       *)
(* inspection, replay) turns a saved row back into a status.               *)
(*                                                                         *)
(* Text is abstracted to what the code tells apart: whether the backend    *)
(* answered at all, whether the answer grades as correct, and whether the  *)
(* provider said that it stopped at the output limit.                      *)
(***************************************************************************)
EXTENDS Naturals, Sequences, FiniteSets

Statuses == {"PASS", "FAIL", "INCOMPLETE", "REVIEW", "INVALID"}

\* What a server may answer: text, text cut at the output limit, or nothing usable
\* (an HTTP status, no connection in time, not JSON, an error field, no choice in
\* the answer, a choice without text).
Replies == {"text", "text_cut", "http", "unreachable", "no_json", "error_field",
            "no_choices", "no_text"}

\* backend.complete: a response (right or wrong, cut at the output limit or
\* not), or an exception.
complete(reply, right) ==
    CASE reply = "text"     -> IF right THEN "right" ELSE "wrong"
      [] reply = "text_cut" -> IF right THEN "right_cut" ELSE "wrong_cut"
      [] OTHER              -> "error"

Responses == {complete(reply, right) : reply \in Replies, right \in BOOLEAN}

\* The three values of a row's "correct": True, False and None.
Verdicts == {"yes", "no", "none"}

\* A key the row does not have: "status" is only written by rounds 1 and 2.
NoStatus == "absent"

Graded(resp) == IF resp \in {"right", "right_cut"} THEN "yes" ELSE "no"

output_limited(resp) == resp \in {"right_cut", "wrong_cut"}

(***************************************************************************)
(* Rows.  A row is the union of the fields the two runners write; `limited`*)
(* stands for the finish_reason copied from the response.                  *)
(***************************************************************************)
Row(Ids) == [id : Ids, status : Statuses \cup {NoStatus}, valid : BOOLEAN,
             limited : BOOLEAN, correct : Verdicts, review : BOOLEAN]

\* Mutant of Row12: the verdict does not look at the finish reason.
Row12_GradesCut(q, resp) ==
    [id |-> q,
     status |-> IF resp = "error" THEN "INVALID"
                ELSE IF output_limited(resp) THEN "INCOMPLETE"
                ELSE IF Graded(resp) = "yes" THEN "PASS" ELSE "FAIL",
     valid |-> resp # "error", limited |-> output_limited(resp),
     correct |-> IF resp = "error" THEN "none" ELSE Graded(resp), review |-> FALSE]

\* round12.run: a limited response is INCOMPLETE and has no verdict, whatever
\* it says; an exception is INVALID.
Row12(q, resp) ==
    LET incomplete == output_limited(resp)
        correct    == IF resp = "error" \/ incomplete THEN "none" ELSE Graded(resp)
    IN [id |-> q,
        status |-> CASE resp = "error"  -> "INVALID"
                     [] incomplete      -> "INCOMPLETE"
                     [] correct = "yes" -> "PASS"
                     [] OTHER           -> "FAIL",
        valid |-> resp # "error", limited |-> incomplete,
        correct |-> correct, review |-> FALSE]

\* round3.run: the answer is graded without looking at finish_reason, which is
\* only copied into the row; no "status" is written.  A multi-turn question
\* keeps its responses (and their finish reasons) under "turns".
Row3(q, multi_turn, resp) ==
    [id |-> q, status |-> NoStatus,
     valid |-> resp # "error",
     limited |-> output_limited(resp) /\ ~multi_turn,
     correct |-> IF resp = "error" \/ multi_turn THEN "none" ELSE Graded(resp),
     review |-> multi_turn /\ resp # "error"]

\* results.item_status: the explicit status of current rows first, then the
\* fields of rows that have none.
item_status(row) ==
    IF row.status # NoStatus THEN row.status
    ELSE IF ~row.valid THEN "INVALID"
    ELSE IF row.limited THEN "INCOMPLETE"
    ELSE IF row.review \/ row.correct = "none" THEN "REVIEW"
    ELSE IF row.correct = "yes" THEN "PASS" ELSE "FAIL"

\* Mutant of mark3: a failed call is shown as an item to review.
mark3_NoInvalid(row) ==
    IF row.correct = "none" THEN "REVIEW"
    ELSE IF row.correct = "yes" THEN "PASS" ELSE "FAIL"

\* The status round3.run sends to the progress display.  It is computed from
\* `valid` and `correct` alone.
mark3(row) ==
    IF ~row.valid THEN "INVALID"
    ELSE IF row.correct = "none" THEN "REVIEW"
    ELSE IF row.correct = "yes" THEN "PASS" ELSE "FAIL"

(***************************************************************************)
(* Payloads of result.json.                                                *)
(***************************************************************************)
CountRows(rows, P(_)) == Cardinality({i \in 1..Len(rows) : P(rows[i])})

\* round12.run, lines 49-59.
Payload12(rows) ==
    [score   |-> CountRows(rows, LAMBDA x : x.correct = "yes"),
     total   |-> CountRows(rows, LAMBDA x : x.correct # "none"),
     planned |-> Len(rows),
     incomplete |-> CountRows(rows, LAMBDA x : x.status = "INCOMPLETE"),
     infrastructure_errors |-> CountRows(rows, LAMBDA x : x.status = "INVALID"),
     results |-> rows]

\* round3.run, lines 135-142.  The payload has no "incomplete" key: a reader's
\* .get("incomplete") is falsy, as 0 is.
Payload3(rows) ==
    [score   |-> CountRows(rows, LAMBDA x : x.valid /\ x.correct = "yes"),
     total   |-> CountRows(rows, LAMBDA x : x.valid /\ x.correct # "none"),
     planned |-> Len(rows),
     incomplete |-> 0,
     infrastructure_errors |-> CountRows(rows, LAMBDA x : ~x.valid),
     results |-> rows]

\* results.result_counts for a payload that has rows.
result_counts(payload) ==
    [s \in Statuses |-> CountRows(payload.results, LAMBDA x : item_status(x) = s)]
=============================================================================
