-------------------------- MODULE WaitForCompletion --------------------------
(***************************************************************************)
(* The result stream of wait_for (admin.rs, queries/admin.rs).             *)
(*                                                                         *)
(* The stream polls apalis.jobs for the ids it still waits for, yields the *)
(* results of terminal rows, gives an absent id one INITIAL_BACKOFF of     *)
(* grace before it yields TaskNotFound, backs off after a poll that        *)
(* settled nothing, and ends with the error of the third failed poll in a  *)
(* row.  Meanwhile tasks are enqueued, finish and are purged.              *)
(*                                                                         *)
(* A poll is two steps: the SELECT reads the rows, and the stream sorts    *)
(* them when it is polled with the answer.  Both time and the rows move on *)
(* in between.  Time is counted in ticks; ages are capped where the code   *)
(* no longer tells them apart.                                             *)
(***************************************************************************)
EXTENDS Naturals, FiniteSets, Subsequence, SequencesExt

CONSTANTS
  TaskIds,          \* task ids
  Asked,            \* the ids passed to wait_for, in order, repetitions included
  InitialBackoff,   \* INITIAL_BACKOFF, in ticks; also the grace of an absent id
  MaxBackoff,       \* MAX_BACKOFF, in ticks
  MaxErrors,        \* MAX_CONSECUTIVE_DB_ERRORS
  MaxEnqueues,      \* bound: how often a row is inserted under one id
  Nothing           \* no age recorded, or no id

\* What the constants of admin.rs are: positive, in this order.
ASSUME WaitAssumption ==
  /\ Asked \in Seq(TaskIds)
  /\ InitialBackoff \in Nat \ {0}
  /\ MaxBackoff \in Nat /\ MaxBackoff >= InitialBackoff
  /\ MaxErrors \in Nat \ {0}
  /\ MaxEnqueues \in Nat
  /\ Nothing \notin Nat /\ Nothing \notin TaskIds

VARIABLES
  row,        \* per id: "absent", "active" or "terminal"
  enqueues,   \* per id: how often it was enqueued
  \* The state of the unfold.
  pc,         \* "poll", "answer", "sleep" or "ended"
  remaining,  \* remaining_ids
  backoff,    \* the next wait
  streak,     \* error_streak
  absent,     \* absent_since: per id, ticks since the recorded absence
  read,       \* the rows the SELECT returned, before the stream sorts them
  sleep,      \* ticks left to sleep
  \* What the caller has seen, and histories.
  yielded,    \* the items of the stream, in order
  failures,   \* consecutive failed polls
  missed,     \* per id: polls in a row that did not see it
  firstMiss,  \* per id: ticks since the first of these polls read the table
  span        \* per id: ticks from that poll's read to the last one's

tables == <<row, enqueues>>
waitVars == <<row, enqueues, pc, remaining, backoff, streak, absent, read, sleep,
              yielded, failures, missed, firstMiss, span>>

Grace == InitialBackoff

\* Mutated form: the ids are waited for as they were passed.
DistinctIdsAsPassed(ids) == ids

\* distinct_ids: the ids in their first order, each once.
DistinctIds(ids) == At(ids, {n \in DOMAIN ids : \A m \in 1 .. (n - 1) : ids[m] # ids[n]})

WaitInit ==
  /\ row = [i \in TaskIds |-> "absent"]
  /\ enqueues = [i \in TaskIds |-> 0]
  /\ pc = "poll"
  /\ remaining = DistinctIds(Asked)
  /\ backoff = InitialBackoff
  /\ streak = 0
  /\ absent = [i \in TaskIds |-> Nothing]
  /\ read = <<>>
  /\ sleep = 0
  /\ yielded = <<>>
  /\ failures = 0
  /\ missed = [i \in TaskIds |-> 0]
  /\ firstMiss = [i \in TaskIds |-> Nothing]
  /\ span = [i \in TaskIds |-> Nothing]

-----------------------------------------------------------------------------
(***************************************************************************)
(* The rows, changed by producers, workers and retention.                  *)
(***************************************************************************)

waiter == <<pc, remaining, backoff, streak, absent, read, sleep,
            yielded, failures, missed, firstMiss, span>>

Enqueue(i) ==
  /\ row[i] = "absent"
  /\ enqueues[i] < MaxEnqueues
  /\ row' = [row EXCEPT ![i] = "active"]
  /\ enqueues' = [enqueues EXCEPT ![i] = @ + 1]
  /\ UNCHANGED waiter

Finish(i) ==
  /\ row[i] = "active"
  /\ row' = [row EXCEPT ![i] = "terminal"]
  /\ UNCHANGED <<enqueues, waiter>>

\* purge_terminal_tasks.
Purge(i) ==
  /\ row[i] = "terminal"
  /\ row' = [row EXCEPT ![i] = "absent"]
  /\ UNCHANGED <<enqueues, waiter>>

-----------------------------------------------------------------------------
(***************************************************************************)
(* One turn of the unfold.                                                 *)
(***************************************************************************)

\* An age after one more tick, capped at the grace.
Aged(age) == IF age = Nothing THEN Nothing ELSE IF age < Grace THEN age + 1 ELSE Grace

\* Nothing left to wait for: the stream ends.
EndOfStream ==
  /\ pc = "poll"
  /\ remaining = <<>>
  /\ pc' = "ended"
  /\ UNCHANGED <<tables, remaining, backoff, streak, absent, read, sleep,
                 yielded, failures, missed, firstMiss, span>>

\* tracked_task_rows: the rows of the ids still waited for.
TrackedTaskRows ==
  /\ pc = "poll"
  /\ remaining # <<>>
  /\ read' = [i \in Range(remaining) |-> row[i]]
  /\ pc' = "answer"
  /\ missed' = [i \in TaskIds |->
       IF i \notin Range(remaining) THEN missed[i]
       ELSE IF row[i] # "absent" THEN 0
       ELSE IF missed[i] < 2 THEN missed[i] + 1 ELSE 2]
  /\ firstMiss' = [i \in TaskIds |->
       IF i \notin Range(remaining) THEN firstMiss[i]
       ELSE IF row[i] # "absent" THEN Nothing
       ELSE IF firstMiss[i] = Nothing THEN 0 ELSE firstMiss[i]]
  /\ span' = [i \in TaskIds |-> IF i \in Range(remaining) THEN firstMiss'[i] ELSE span[i]]
  /\ UNCHANGED <<tables, remaining, backoff, streak, absent, sleep, yielded, failures>>

\* Mutated form: the backoff is not capped.
NextBackoffUncapped(b) == 2 * b

\* next_backoff.
NextBackoff(b) == IF 2 * b < MaxBackoff THEN 2 * b ELSE MaxBackoff

\* db_errors_exhausted.
DbErrorsExhausted(s) == s + 1 >= MaxErrors

\* The poll failed.  The third failure in a row is yielded and leaves nothing
\* to wait for; an earlier one is retried after the backoff.
PollFailed ==
  /\ pc = "poll"
  /\ remaining # <<>>
  /\ failures' = IF failures < MaxErrors THEN failures + 1 ELSE failures
  /\ IF DbErrorsExhausted(streak)
       THEN /\ yielded' = Append(yielded, [kind |-> "error", id |-> Nothing])
            /\ remaining' = <<>>
            /\ backoff' = InitialBackoff
            /\ streak' = 0
            /\ UNCHANGED <<pc, sleep>>
       ELSE /\ pc' = "sleep"
            /\ sleep' = backoff
            /\ backoff' = NextBackoff(backoff)
            /\ streak' = streak + 1
            /\ UNCHANGED <<yielded, remaining>>
  /\ UNCHANGED <<tables, absent, read, missed, firstMiss, span>>

\* Mutated form: an absent id is waited for.
MissingNever(i) == FALSE

\* Absent for a whole grace interval, however many polls ran in between.
Missing(i) == read[i] = "absent" /\ absent[i] # Nothing /\ absent[i] >= Grace

Terminal(i) == read[i] = "terminal"

Settled(i) == Terminal(i) \/ Missing(i)

\* Mutated form: a row that reappears does not clear the recorded absence.
AbsenceKept(i) ==
  IF read[i] = "absent" /\ absent[i] = Nothing /\ ~Missing(i) THEN 0 ELSE absent[i]

\* absent_since after the poll: cleared by a row and by the report, recorded
\* once for an absence.
Absence(i) ==
  IF read[i] # "absent" \/ Missing(i) THEN Nothing
  ELSE IF absent[i] = Nothing THEN 0 ELSE absent[i]

Item(i) == [kind |-> IF Terminal(i) THEN "result" ELSE "not_found", id |-> i]

\* The ids the poll settled, in the order they are waited for, and the others.
SettledIds == At(remaining, {n \in DOMAIN remaining : Settled(remaining[n])})
StillAwaited == At(remaining, {n \in DOMAIN remaining : ~Settled(remaining[n])})

Items == [n \in DOMAIN SettledIds |-> Item(SettledIds[n])]

\* Mutated form: a successful poll that settles nothing keeps the streak.
TriagePollKeepsStreak ==
  /\ pc = "answer"
  /\ yielded' = yielded \o Items
  /\ remaining' = StillAwaited
  /\ absent' = [i \in TaskIds |-> IF i \in Range(remaining) THEN Absence(i) ELSE absent[i]]
  /\ read' = <<>>
  /\ failures' = 0
  /\ IF Items = <<>>
       THEN /\ pc' = "sleep"
            /\ sleep' = backoff
            /\ backoff' = NextBackoff(backoff)
            /\ UNCHANGED streak
       ELSE /\ pc' = "poll"
            /\ backoff' = InitialBackoff
            /\ streak' = 0
            /\ UNCHANGED sleep
  /\ UNCHANGED <<tables, missed, firstMiss, span>>

\* triage_poll and the rest of the turn: terminal rows and expired absences
\* are yielded, the others are waited for.  A turn that yielded is followed
\* by the next poll at once, any other one by the backoff.
TriagePoll ==
  /\ pc = "answer"
  /\ yielded' = yielded \o Items
  /\ remaining' = StillAwaited
  /\ absent' = [i \in TaskIds |-> IF i \in Range(remaining) THEN Absence(i) ELSE absent[i]]
  /\ read' = <<>>
  /\ failures' = 0
  /\ streak' = 0
  /\ IF Items = <<>>
       THEN /\ pc' = "sleep"
            /\ sleep' = backoff
            /\ backoff' = NextBackoff(backoff)
       ELSE /\ pc' = "poll"
            /\ backoff' = InitialBackoff
            /\ UNCHANGED sleep
  /\ UNCHANGED <<tables, missed, firstMiss, span>>

WakeUp ==
  /\ pc = "sleep"
  /\ sleep = 0
  /\ pc' = "poll"
  /\ UNCHANGED <<tables, remaining, backoff, streak, absent, read, sleep,
                 yielded, failures, missed, firstMiss, span>>

\* Time passes, in a sleep and between any two steps.
Tick ==
  /\ pc # "ended"
  /\ absent' = [i \in TaskIds |-> Aged(absent[i])]
  /\ firstMiss' = [i \in TaskIds |-> Aged(firstMiss[i])]
  /\ sleep' = IF sleep > 0 THEN sleep - 1 ELSE 0
  /\ UNCHANGED <<tables, pc, remaining, backoff, streak, read, yielded, failures, missed, span>>

-----------------------------------------------------------------------------

Stream == EndOfStream \/ TrackedTaskRows \/ PollFailed \/ TriagePoll \/ WakeUp

WaitNext ==
  \/ \E i \in TaskIds : Enqueue(i) \/ Finish(i) \/ Purge(i)
  \/ Stream
  \/ Tick

WaitSpec == WaitInit /\ [][WaitNext]_waitVars

-----------------------------------------------------------------------------
(***************************************************************************)
(* Properties.                                                             *)
(***************************************************************************)

Ages == (0..Grace) \cup {Nothing}

\* Type correctness.
WaitTypeOK ==
  /\ row \in [TaskIds -> {"absent", "active", "terminal"}]
  /\ enqueues \in [TaskIds -> 0..MaxEnqueues]
  /\ pc \in {"poll", "answer", "sleep", "ended"}
  /\ remaining \in Seq(TaskIds)
  /\ backoff \in InitialBackoff..MaxBackoff
  /\ sleep \in 0..MaxBackoff
  /\ streak \in 0..(MaxErrors - 1)
  /\ absent \in [TaskIds -> Ages] /\ firstMiss \in [TaskIds -> Ages] /\ span \in [TaskIds -> Ages]
  /\ failures \in 0..MaxErrors
  /\ missed \in [TaskIds -> 0..2]

Failed == \E n \in DOMAIN yielded : yielded[n].kind = "error"

YieldedIds == {yielded[n].id : n \in DOMAIN yielded} \ {Nothing}

\* Every id that was passed, however often, is either still waited for or has
\* yielded exactly one item, until the stream gives up: none is lost when the
\* rows of one poll are sorted, and none is answered twice.
OneAnswerPerId ==
  /\ Cardinality(YieldedIds) + (IF Failed THEN 1 ELSE 0) = Len(yielded)
  /\ ~Failed => /\ YieldedIds \cup Range(remaining) = Range(Asked)
                /\ YieldedIds \cap Range(remaining) = {}

\* TaskNotFound means that the last poll and the one before it missed the id,
\* with no poll in between that saw its row, and that a whole grace passed
\* since the first of them: a row that was seen again starts a new absence.
\* Two such polls are necessary and not sufficient, as the body of
\* wait_for_completion intends ("counting polls instead of time would give an
\* enqueue committing just after the wait no grace"); TwoPollsSuffice is what
\* other texts say.
NotFoundForCause ==
  \A n \in DOMAIN yielded :
    yielded[n].kind = "not_found" =>
      missed[yielded[n].id] = 2 /\ firstMiss[yielded[n].id] = Grace

\* The stream gives up on the database only after MAX_CONSECUTIVE_DB_ERRORS
\* failed polls with no successful poll in between.
GivesUpForCause == Failed => failures = MaxErrors

\* Every awaited id gets one answer; TaskNotFound and giving up have a cause.
AnsweredForCause == WaitTypeOK /\ OneAnswerPerId /\ NotFoundForCause /\ GivesUpForCause

\* The documentation of wait_for: "an id that no row carries on a poll, and
\* still on a poll at least one backoff interval later, yields TaskNotFound".
\* The poll that reports an id missing read the table a whole grace after the
\* poll that first missed it.
GraceBetweenPolls ==
  \A n \in DOMAIN yielded :
    yielded[n].kind = "not_found" => span[yielded[n].id] = Grace

\* The documentation of triage_poll (an absent id "ends the wait with
\* TaskNotFound when it is absent on the next poll as well"), of PollTriage and
\* of a purge: no id is waited for any longer once two polls in a row did not
\* see it and the second one was sorted.
TwoPollsSuffice ==
  pc # "answer" => \A n \in DOMAIN remaining : missed[remaining[n]] < 2
=============================================================================
