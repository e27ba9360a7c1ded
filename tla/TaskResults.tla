---------------------------- MODULE TaskResults ----------------------------
(***************************************************************************)
(* The result column: what each writer of apalis.jobs.last_result stores   *)
(* (acknowledgements, recoveries, the quarantine of malformed rows, the    *)
(* release of undecodable payloads) and what check_status and the          *)
(* completion stream read back from it.                                    *)
(*                                                                         *)
(* An error text is the sequence of the byte offsets at which its UTF-8    *)
(* characters end; a stored value is the JSON of Result<O, String>.  Who   *)
(* may write is the matter of JobQueue: here one claim at a time ends in   *)
(* every way it may.                                                       *)
(***************************************************************************)
EXTENDS Integers, Sequences, FiniteSets, FiniteSetsExt

CONSTANTS
  TaskIds,      \* task ids
  MaxAttempts,  \* max_attempts of every task
  Text,         \* error texts, as the offsets at which their characters end
  Cap,          \* MAX_ERROR_PAYLOAD_LEN, in bytes
  Null          \* SQL NULL

\* The message of a recovery; it is far below the cap.
Reason == {"heartbeat timeout", "released"}

\* What a handler returns.
Outcome == [tag : {"Ok"}] \union [tag : {"Err"}, text : Text]

\* A text, and whether it ends in TRUNCATION_MARKER.
ErrorText == [tag : {"Err"}, text : Seq(Nat), marked : BOOLEAN]

StoredResult == {Null, [tag |-> "Ok"]} \union [tag : {"Err"}, reason : Reason] \union ErrorText

\* A character has at least one byte, so its end is after the one before it.
\* jobs_max_attempts_check keeps a budget positive.
ASSUME ResultAssumption ==
  /\ MaxAttempts \in Nat \ {0}
  /\ Cap \in Nat
  /\ \A text \in Text :
       /\ text \in Seq(Nat \ {0})
       /\ \A i, j \in DOMAIN text : i < j => text[i] < text[j]
  /\ Null \notin {[tag |-> "Ok"]} \union [tag : {"Err"}, reason : Reason] \union ErrorText

VARIABLES
  task,     \* apalis.jobs: status, attempts, last_result, who wrote the row
  ended,    \* history: the event that ended each task, as a stored value
  checked   \* the last answer of check_status

resultVars == <<task, ended, checked>>

Status == {"Pending", "Queued", "Running", "Failed", "Done", "Killed"}

ResultInit ==
  /\ task \in [TaskIds -> [status : {"Pending"}, attempts : {0}, last_result : {Null},
                        foreign : BOOLEAN]]
  /\ ended = [t \in TaskIds |-> Null]
  /\ checked = [answer |-> "none"]

-----------------------------------------------------------------------------
(* Stored values. *)

\* Where the first k characters end.
End(text, k) == IF k = 0 THEN 0 ELSE text[k]

Width(text) == End(text, Len(text))

\* is_char_boundary holds where a prefix of the text ends.
Boundary(text) == {End(text, k) : k \in 0..Len(text)}

\* String::truncate: the characters below byte `cut`, or a panic in mid-character.
Truncated(text, cut) ==
  IF cut \notin Boundary(text) THEN [tag |-> "panic"]
  ELSE [tag |-> "Err", marked |-> TRUE,
        text |-> SubSeq(text, 1, CHOOSE k \in 0..Len(text) : End(text, k) = cut)]

\* Mutated form: the text is cut at the cap, wherever that falls.
CutAtCap(text) ==
  IF Width(text) <= Cap THEN [tag |-> "Err", text |-> text, marked |-> FALSE]
  ELSE Truncated(text, Cap)

\* truncate_error_payload: from the cap back to the nearest boundary.
ErrorPayload(text) ==
  IF Width(text) <= Cap THEN [tag |-> "Err", text |-> text, marked |-> FALSE]
  ELSE Truncated(text, Max({b \in Boundary(text) : b <= Cap}))

\* build_ack_response: Ok(()) is {"Ok": null}, never a SQL NULL.
AckResponse(res) == IF res.tag = "Ok" THEN [tag |-> "Ok"] ELSE ErrorPayload(res.text)

\* Recovery::result
RecoveryResult(reason) == [tag |-> "Err", reason |-> reason]

\* TERMINAL_PREDICATE
TerminalRow(row) ==
  \/ row.status \in {"Done", "Killed"}
  \/ row.status = "Failed" /\ row.attempts >= MaxAttempts

Charged(row) == IF row.attempts + 1 <= MaxAttempts THEN row.attempts + 1 ELSE MaxAttempts

-----------------------------------------------------------------------------
(* Writers. *)

WriteRow(t, row, ending) ==
  /\ task' = [task EXCEPT ![t] = row]
  /\ ended' = [ended EXCEPT ![t] = IF TerminalRow(row) THEN ending ELSE Null]
  /\ checked' = [answer |-> "none"]

Claim(t) ==
  /\ task[t].status \in {"Pending", "Failed"} /\ task[t].attempts < MaxAttempts
  /\ WriteRow(t, [task[t] EXCEPT !.status = "Queued"], Null)

Start(t) ==
  /\ task[t].status = "Queued"
  /\ WriteRow(t, [task[t] EXCEPT !.status = "Running"], Null)

\* PgAck::ack and ack_task.  A result that does not serialise fails the call
\* before the row is written; the claim is left to recovery.
Ack(t, res) ==
  /\ task[t].status = "Running"
  /\ LET attempts == task[t].attempts + 1
         status == IF res.tag = "Ok" THEN "Done"
                   ELSE IF MaxAttempts > attempts THEN "Failed" ELSE "Killed"
     IN WriteRow(t, [task[t] EXCEPT !.status = status, !.attempts = attempts,
                                    !.last_result = AckResponse(res)], AckResponse(res))

\* Mutated form: a row that already has a result keeps it when it is killed.
RecoverKeepingResult(t, reason) ==
  /\ task[t].status \in {"Queued", "Running"}
  /\ LET charged == task[t].status = "Running" \/ reason # "released"
         next == IF charged THEN Charged(task[t]) ELSE task[t].attempts
         dead == next >= MaxAttempts
         result == IF task[t].last_result = Null THEN RecoveryResult(reason)
                   ELSE task[t].last_result
     IN WriteRow(t, [task[t] EXCEPT !.status = IF dead THEN "Killed" ELSE "Pending",
                                    !.attempts = next, !.last_result = result],
                 RecoveryResult(reason))

\* Mutated form: the reason is written only with the row's death.
RecoverExplainingDeath(t, reason) ==
  /\ task[t].status \in {"Queued", "Running"}
  /\ LET charged == task[t].status = "Running" \/ reason # "released"
         next == IF charged THEN Charged(task[t]) ELSE task[t].attempts
         dead == next >= MaxAttempts
     IN WriteRow(t, [task[t] EXCEPT !.status = IF dead THEN "Killed" ELSE "Pending",
                                    !.attempts = next,
                                    !.last_result = IF dead THEN RecoveryResult(reason) ELSE @],
                 RecoveryResult(reason))

\* recover_owned, for one row.
Recover(t, reason) ==
  /\ task[t].status \in {"Queued", "Running"}
  /\ LET charged == task[t].status = "Running" \/ reason # "released"
         next == IF charged THEN Charged(task[t]) ELSE task[t].attempts
         dead == next >= MaxAttempts
         result == IF dead \/ (charged /\ task[t].last_result = Null)
                   THEN RecoveryResult(reason) ELSE task[t].last_result
     IN WriteRow(t, [task[t] EXCEPT !.status = IF dead THEN "Killed" ELSE "Pending",
                                    !.attempts = next, !.last_result = result],
                 RecoveryResult(reason))

\* fail_undecodable_task
FailUndecodable(t, text) ==
  /\ task[t].status \in {"Queued", "Running"}
  /\ WriteRow(t, [task[t] EXCEPT
       !.status = IF task[t].attempts + 1 >= MaxAttempts THEN "Killed" ELSE "Failed",
       !.attempts = Charged(task[t]), !.last_result = ErrorPayload(text)], ErrorPayload(text))

\* claimed_tasks: the quarantine of a row that does not convert.
Quarantine(t, text) ==
  /\ task[t].status \in {"Pending", "Failed"} /\ task[t].attempts < MaxAttempts
  /\ WriteRow(t, [task[t] EXCEPT !.status = "Killed", !.attempts = Charged(task[t]),
                                 !.last_result = ErrorPayload(text)], ErrorPayload(text))

\* Another writer ends a row of its own, as the schema allows: no result, and
\* possibly Failed without budget.
ForeignEnd(t, status) ==
  /\ task[t].foreign /\ ~TerminalRow(task[t])
  /\ WriteRow(t, [task[t] EXCEPT !.status = status, !.attempts = MaxAttempts,
                                 !.last_result = Null], Null)

-----------------------------------------------------------------------------
(* Readers. *)

\* Mutated form: a failed row is finished too.
CompletedOrFailedRows(ids) ==
  {t \in ids : task[t].status \in {"Done", "Killed", "Failed"}}

\* completed_task_rows
CompletedTaskRows(ids) == {t \in ids : TerminalRow(task[t])}

\* task_result_from_row of a row whose result is not missing.  The crate's own
\* ids and statuses parse; decoding the stored JSON into the caller's result
\* type may still fail there, and is the caller's to get right.
TaskResultFromRow(t) == [status |-> task[t].status, result |-> task[t].last_result]

\* check_status: the rows come in any order, and one that cannot be read fails
\* the call.
CheckStatus(ids) ==
  LET rows == CompletedTaskRows(ids)
      bad == {t \in rows : task[t].last_result = Null}
  IN /\ checked' = IF bad # {} THEN [answer |-> "MissingField", ids |-> ids]
                 ELSE [answer |-> "ok", ids |-> ids,
                       results |-> [t \in rows |-> TaskResultFromRow(t)]]
     /\ UNCHANGED <<task, ended>>

ResultNext ==
  \/ \E t \in TaskIds :
       \/ Claim(t)
       \/ Start(t)
       \/ \E res \in Outcome : Ack(t, res)
       \/ \E reason \in Reason : Recover(t, reason)
       \/ \E text \in Text : FailUndecodable(t, text) \/ Quarantine(t, text)
       \/ \E status \in {"Failed", "Killed", "Done"} : ForeignEnd(t, status)
  \/ \E ids \in SUBSET TaskIds : CheckStatus(ids)

ResultSpec == ResultInit /\ [][ResultNext]_resultVars

-----------------------------------------------------------------------------
(* Properties. *)

\* A stored text is within the cap.  It is marked exactly when it was cut, and
\* then the next character of the whole text would not have fitted.
TextBounded(v) ==
  /\ Width(v.text) <= Cap
  /\ IF v.marked
     THEN \E text \in Text :
            /\ Width(text) > Cap
            /\ SubSeq(text, 1, Len(v.text)) = v.text
            /\ End(text, Len(v.text) + 1) > Cap
     ELSE v.text \in Text

\* No text is cut within a character, and a stored error stays within the cap
\* (plus its marker), is marked exactly when it was cut, and loses no character
\* that would have fitted (truncate_error_payload).
PayloadBounded ==
  \A t \in TaskIds :
    /\ task[t].status \in Status /\ task[t].attempts \in 0..MaxAttempts
    /\ task[t].last_result \in StoredResult
    /\ task[t].last_result \in ErrorText => TextBounded(task[t].last_result)

\* Whoever waits for a task reads how it ended: the result column of a finished
\* task is written by the event that finished it, not left over from an earlier
\* attempt.
VerdictIsLast ==
  \A t \in TaskIds : TerminalRow(task[t]) => task[t].last_result = ended[t]

\* Every consumed attempt leaves an explanation behind, even one a recovery
\* charged to a task that had no result yet.
ChargedIsExplained ==
  \A t \in TaskIds : task[t].attempts > 0 /\ ~task[t].foreign => task[t].last_result # Null

\* check_status reports finished tasks only, an Ok exactly for a Done one, and
\* answers MissingField only when a row it was asked for was ended by someone
\* else.
StatusSound ==
  /\ checked.answer = "ok" =>
       \A t \in DOMAIN checked.results :
         /\ checked.results[t].status = "Done" <=> checked.results[t].result.tag = "Ok"
         /\ TerminalRow(task[t])
  /\ checked.answer = "MissingField" => \E t \in checked.ids : task[t].foreign

\* The result column: the verdict of a task is that of its last attempt, every
\* charge is explained, texts are bounded and check_status tells the truth.
ResultsSound == PayloadBounded /\ VerdictIsLast /\ ChargedIsExplained /\ StatusSound

=============================================================================
