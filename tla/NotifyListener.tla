--------------------------- MODULE NotifyListener ---------------------------
(***************************************************************************)
(* The notification path of one queue: the statement-level trigger that    *)
(* announces inserted rows in chunks, the listener thread of               *)
(* notify_task_ids, and NotifyTaskIds, the stream its fetcher polls.       *)
(* Hints may be lost; the end of the listener may not go unnoticed.        *)
(***************************************************************************)
EXTENDS Naturals, Sequences, FiniteSets, SequencesExt, FiniteSetsExt

CONSTANTS
  Id,           \* task ids, ordered: a set of naturals
  QueueOf,      \* the queue of each task
  Due,          \* tasks whose run_at has passed when they are inserted
  Statement,    \* the INSERT statements that may commit: sets of tasks
  Own,          \* the queue of this listener
  ChunkSize,    \* how many ids one notification carries (100)
  IdsCap,       \* INSERT_EVENT_IDS_CAP
  Capacity      \* how many hints the channel holds

\* The trigger's 100 ids a chunk are far below INSERT_EVENT_IDS_CAP (65536).
ASSUME ListenAssumption ==
  /\ Id \subseteq Nat /\ DOMAIN QueueOf = Id
  /\ \A s \in Statement : s \subseteq Id /\ IsFiniteSet(s)
  /\ ChunkSize \in Nat \ {0} /\ IdsCap \in Nat /\ ChunkSize <= IdsCap
  /\ Capacity \in Nat

VARIABLES
  inserted,     \* statements that committed
  announced,    \* every notification sent, with the statement it is for
  inbox,        \* notifications waiting on the listener's connection
  thread,       \* where the listener thread is
  listening,    \* its connection LISTENs, so that notifications reach it
  held,         \* the rest of the ids of the notification in hand
  cancel,       \* the cancel flag
  consumer,     \* live, cancelled (flag stored), or gone (receiver dropped)
  poll,         \* where the consumer's task is
  notified,     \* woken since its poll began
  waker,        \* its waker is registered in NotificationErrors
  pending,      \* NotificationErrors.pending is Some
  seen,         \* history: errors were yielded by the stream
  channel, read \* ids sent into the channel, and how many were received

threadVars == <<thread, listening, held, inbox>>
pollVars   == <<poll, notified, waker, pending>>
listenVars == <<inserted, announced, threadVars, cancel, consumer, pollVars, seen, channel, read>>

ThreadPC == {"connecting", "testing", "iterating", "sending", "publishing", "waking",
             "unlistening", "dropping", "ended"}
PollPC   == {"ready", "registered", "receiving", "rechecking", "asleep", "ended"}

Notification == [queue : Range(QueueOf), ids : Seq(Id)]

\* The types; the channel never holds more than it may.
ListenerTypeOK ==
  /\ inserted \subseteq Statement
  /\ \A a \in announced : a.note \in Notification /\ a.of \in Statement
  /\ inbox \in Seq(Notification)
  /\ thread \in ThreadPC
  /\ held \in Seq(Id)
  /\ {listening, cancel, notified, waker, pending, seen} \subseteq BOOLEAN
  /\ consumer \in {"live", "cancelled", "gone"}
  /\ poll \in PollPC
  /\ channel \in Seq(Id) /\ read \in 0 .. Len(channel)
  /\ Len(channel) - read <= Capacity

\* notify_task_ids has created the channel and the thread, or has published
\* that the thread could not be created.
ListenInit ==
  /\ inserted = {} /\ announced = {}
  /\ inbox = <<>> /\ listening = FALSE /\ held = <<>>
  /\ \/ thread = "connecting" /\ pending = FALSE
     \/ thread = "ended" /\ pending = TRUE
  /\ cancel = FALSE /\ consumer = "live"
  /\ poll = "ready" /\ notified = FALSE /\ waker = FALSE
  /\ seen = FALSE /\ channel = <<>> /\ read = 0

-----------------------------------------------------------------------------
\* The trigger.

\* row_number() OVER (PARTITION BY job_type ORDER BY id) - 1 of the due rows.
Rank(s, i) == Cardinality({j \in s : j < i /\ QueueOf[j] = QueueOf[i]})

\* Mutated form: rows that are not due yet are announced too.
AnnouncedAll(s) == s

\* The rows of new_jobs that are due.
AnnouncedOf(s) == s \intersect Due

\* The group of a due row: its queue and its chunk.
ChunkOf(due, i) == <<QueueOf[i], Rank(due, i) \div ChunkSize>>
InChunk(due, c) == {i \in due : ChunkOf(due, i) = c}
Chunks(due)     == {ChunkOf(due, i) : i \in due}

\* json_agg(id): the ids of each group, in no order that is promised.
JsonAggs(due) ==
  {agg \in [Chunks(due) -> UNION {SetToSeqs(InChunk(due, c)) : c \in Chunks(due)}] :
     \A c \in Chunks(due) : Range(agg[c]) = InChunk(due, c)}

Note(agg, c) == [queue |-> c[1], ids |-> agg[c]]

\* An INSERT commits.  notify_new_jobs has sent one notification per group, in
\* any order; a single due row takes the fast path to the same payload.
Insert(s) ==
  /\ s \in Statement \ inserted
  /\ inserted' = inserted \union {s}
  /\ \E agg \in JsonAggs(AnnouncedOf(s)), order \in SetToSeqs(Chunks(AnnouncedOf(s))) :
       /\ announced' = announced \union
                       {[note |-> Note(agg, c), of |-> s] : c \in Chunks(AnnouncedOf(s))}
       /\ inbox' = IF listening THEN inbox \o [n \in DOMAIN order |-> Note(agg, order[n])]
                   ELSE inbox
  /\ UNCHANGED <<thread, listening, held, cancel, consumer, pollVars, seen, channel, read>>

-----------------------------------------------------------------------------
\* The listener thread.

Goto(pc) == thread' = pc /\ UNCHANGED <<listening, held, inbox>>

\* pool.get and LISTEN; a failure is published and ends the thread.
Connect ==
  /\ thread = "connecting"
  /\ \/ thread' = "testing" /\ listening' = TRUE /\ UNCHANGED <<held, inbox>>
     \/ Goto("publishing")
  /\ UNCHANGED <<inserted, announced, cancel, consumer, pollVars, seen, channel, read>>

\* The loop condition: the cancel flag.
TestCancel ==
  /\ thread = "testing"
  /\ Goto(IF cancel THEN "unlistening" ELSE "iterating")
  /\ UNCHANGED <<inserted, announced, cancel, consumer, pollVars, seen, channel, read>>

\* InsertEvent::into_ids: at most the cap.  The trigger of the migrated schema
\* always sends ids; the single id of older triggers, and payloads that do not
\* parse and are skipped, come from outside and are left out.
IntoIds(n) == SubSeq(n.ids, 1, IF Len(n.ids) > IdsCap THEN IdsCap ELSE Len(n.ids))

\* Mutated form: the hints of every queue are passed on.
ForAnyQueue(n) == TRUE

\* event_queue = queue.
ForThisQueue(n) == n.queue = Own

\* The next notification: of another queue it is skipped.  A raised cancel
\* flag leaves the loop; an empty iterator sleeps and tests it again.
Iterate ==
  /\ thread = "iterating"
  /\ IF inbox = <<>> THEN Goto("testing")
     ELSE /\ inbox' = Tail(inbox)
          /\ UNCHANGED listening
          /\ IF cancel THEN thread' = "unlistening" /\ UNCHANGED held
             ELSE IF ForThisQueue(Head(inbox))
               THEN thread' = "sending" /\ held' = IntoIds(Head(inbox))
               ELSE UNCHANGED <<thread, held>>
  /\ UNCHANGED <<inserted, announced, cancel, consumer, pollVars, seen, channel, read>>

\* notifications_iter yields an error.
IterateError ==
  /\ thread = "iterating"
  /\ Goto(IF cancel THEN "unlistening" ELSE "publishing")
  /\ UNCHANGED <<inserted, announced, cancel, consumer, pollVars, seen, channel, read>>

Wake == /\ notified' = (poll # "asleep")
        /\ poll' = IF poll = "asleep" THEN "ready" ELSE poll

\* Mutated form: one hint too many fits.
FullPastCapacity == Len(channel) - read > Capacity

ChannelFull == Len(channel) - read >= Capacity

\* classify_delivery of one try_send: delivered, full (the rest is dropped)
\* or the receiver gone (the thread leaves).
Deliver ==
  /\ thread = "sending"
  /\ IF held = <<>> THEN Goto("iterating") /\ UNCHANGED <<channel, poll, notified>>
     ELSE IF consumer = "gone" THEN Goto("unlistening") /\ UNCHANGED <<channel, poll, notified>>
     ELSE IF ChannelFull
       THEN /\ thread' = "iterating" /\ held' = <<>>
            /\ UNCHANGED <<listening, inbox, channel, poll, notified>>
       ELSE /\ channel' = Append(channel, Head(held))
            /\ held' = Tail(held)
            /\ Wake
            /\ UNCHANGED <<thread, listening, inbox>>
  /\ UNCHANGED <<inserted, announced, cancel, consumer, waker, pending, seen, read>>

\* NotificationErrors::publish: set, then wake.
Publish ==
  /\ thread = "publishing"
  /\ pending' = TRUE
  /\ Goto("waking")
  /\ UNCHANGED <<inserted, announced, cancel, consumer, poll, notified, waker, seen, channel, read>>

\* ... then the thread returns, past UNLISTEN if it LISTENs.
PublishWake ==
  /\ thread = "waking"
  /\ waker' = FALSE
  /\ IF waker THEN Wake ELSE UNCHANGED <<poll, notified>>
  /\ Goto(IF listening THEN "unlistening" ELSE "dropping")
  /\ UNCHANGED <<inserted, announced, cancel, consumer, pending, seen, channel, read>>

\* UNLISTEN; the connection returns to the pool with nothing buffered.
Unlisten ==
  /\ thread = "unlistening"
  /\ thread' = "dropping" /\ listening' = FALSE /\ inbox' = <<>> /\ UNCHANGED held
  /\ UNCHANGED <<inserted, announced, cancel, consumer, pollVars, seen, channel, read>>

\* The closure is dropped, its sender with it: the receiver is woken.
DropSender ==
  /\ thread = "dropping"
  /\ Goto("ended")
  /\ Wake
  /\ UNCHANGED <<inserted, announced, cancel, consumer, waker, pending, seen, channel, read>>

-----------------------------------------------------------------------------
\* The stream.

PollUnchanged == UNCHANGED <<inserted, announced, threadVars, cancel, consumer, channel>>

\* Mutated form: take does not register the waker.
PollUnregistered ==
  /\ consumer = "live" /\ poll = "ready"
  /\ notified' = FALSE /\ poll' = "registered"
  /\ PollUnchanged /\ UNCHANGED <<waker, pending, seen, read>>

\* NotificationErrors::take: register the waker, then look.
PollRegister ==
  /\ consumer = "live" /\ poll = "ready"
  /\ waker' = TRUE /\ notified' = FALSE /\ poll' = "registered"
  /\ PollUnchanged /\ UNCHANGED <<pending, seen, read>>

PollTake ==
  /\ poll = "registered"
  /\ pending' = FALSE
  /\ seen' = (seen \/ pending)
  /\ poll' = IF pending THEN "ready" ELSE "receiving"
  /\ PollUnchanged /\ UNCHANGED <<notified, waker, read>>

\* Mutated form: the end of the channel ends the stream at once.
AtEnd == "ended"

\* At the end of the channel the errors are looked at once more.
AfterEnd == "rechecking"

\* The receiver: a hint, nothing yet, or the end.
PollReceive ==
  /\ poll = "receiving"
  /\ IF read < Len(channel) THEN read' = read + 1 /\ poll' = "ready"
     ELSE /\ UNCHANGED read
          /\ poll' = IF thread = "ended" THEN AfterEnd
                     ELSE IF notified THEN "ready" ELSE "asleep"
  /\ PollUnchanged /\ UNCHANGED <<notified, waker, pending, seen>>

\* The second take: publication precedes the sender's drop.
PollRecheck ==
  /\ poll = "rechecking"
  /\ waker' = TRUE
  /\ pending' = FALSE
  /\ seen' = (seen \/ pending)
  /\ poll' = IF pending THEN "ready" ELSE "ended"
  /\ PollUnchanged /\ UNCHANGED <<notified, read>>

\* Mutated form: dropping the stream raises no flag.
CancelForgotten ==
  /\ consumer = "live" /\ poll \in {"ready", "asleep", "ended"}
  /\ consumer' = "cancelled" /\ UNCHANGED cancel
  /\ UNCHANGED <<inserted, announced, threadVars, pollVars, seen, channel, read>>

\* Drop for NotifyTaskIds raises the flag; its receiver is dropped after.
DropTaskIds ==
  /\ consumer = "live" /\ poll \in {"ready", "asleep", "ended"}
  /\ consumer' = "cancelled" /\ cancel' = TRUE
  /\ UNCHANGED <<inserted, announced, threadVars, pollVars, seen, channel, read>>

DropReceiver ==
  /\ consumer = "cancelled"
  /\ consumer' = "gone"
  /\ UNCHANGED <<inserted, announced, threadVars, cancel, pollVars, seen, channel, read>>

ThreadStep == \/ Connect \/ TestCancel \/ Iterate \/ IterateError \/ Deliver
              \/ Publish \/ PublishWake \/ Unlisten \/ DropSender

PollNext == PollRegister \/ PollTake \/ PollReceive \/ PollRecheck

ListenNext ==
  \/ \E s \in Statement : Insert(s)
  \/ ThreadStep
  \/ PollNext
  \/ DropTaskIds
  \/ DropReceiver

ListenSpec == ListenInit /\ [][ListenNext]_listenVars

-----------------------------------------------------------------------------
\* Properties.

\* The trigger announces every due row of a statement exactly once, to its
\* own queue, in payloads the listener does not truncate, and no other row.
AnnouncedOnce ==
  \A s \in inserted : \A i \in s :
    LET of == {a \in announced : a.of = s /\ i \in Range(a.note.ids)}
    IN IF i \in Due
         THEN /\ Cardinality(of) = 1
              /\ \A a \in of : /\ a.note.queue = QueueOf[i]
                              /\ Len(a.note.ids) <= ChunkSize
                              /\ IntoIds(a.note) = a.note.ids
         ELSE of = {}

\* What the stream yields was inserted, is due and belongs to its queue, so
\* that a claim by id, which checks the row again, is not made in vain.
HintsAreOwn ==
  \A n \in DOMAIN channel :
    QueueOf[channel[n]] = Own /\ \E s \in inserted : channel[n] \in s \intersect Due

\* The stream of a live consumer ends only after it yielded the error that
\* ended its listener, even when that error is published between the look at
\* the errors and the look at the channel.
EndIsExplained == poll = "ended" => seen

\* A published error never sleeps: its publisher is still to wake the task.
NoSleepOnError == (consumer = "live" /\ poll = "asleep" /\ pending) => thread = "waking"

\* Every due row is announced exactly once to its queue, the channel keeps its
\* bound and carries only ids of its queue, and neither the end of the stream
\* nor an error goes unnoticed.
HintsSound ==
  ListenerTypeOK /\ AnnouncedOnce /\ HintsAreOwn /\ EndIsExplained /\ NoSleepOnError

\* A dropped stream gives back its thread and connection.
DroppedListenerEnds == (consumer # "live") ~> (thread = "ended")
=============================================================================
