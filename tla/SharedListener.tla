--------------------------- MODULE SharedListener ---------------------------
(***************************************************************************)
(* SharedPostgresStorage: one listener thread hands the ids of a NOTIFY to *)
(* every consumer registered on the event's queue.  The registry lock      *)
(* orders make_shared, the listener's exit and the drop of a registration; *)
(* a consumer's own polls take neither that lock nor any other that a      *)
(* publisher holds while it wakes.                                         *)
(*                                                                         *)
(* Steps that hold the registry lock from start to end are one action.     *)
(* The broadcast of an error is several, because polls interleave with it: *)
(* while a thread is "failing" it holds the lock and every action that     *)
(* needs it waits.  A poisoned lock (a panic while it is held) is left     *)
(* out: no code runs under the lock that can panic.                        *)
(***************************************************************************)
EXTENDS Naturals, Sequences, FiniteSets, SequencesExt

CONSTANTS
  Consumer,      \* the storages made by make_shared, one registration each
  Queue,
  QueueOf,       \* the queue of a consumer's config
  Payload,       \* the NOTIFY payloads the environment may send, once each
  Garbage,       \* those that do not decode as an InsertEvent
  Thread,        \* bound: the listener threads that may be started
  Capacity,      \* how many hints a consumer's channel holds
  IdsCap,        \* INSERT_EVENT_IDS_CAP
  NoOne

ASSUME QueueOfAssumption == QueueOf \in [Consumer -> Queue]
ASSUME BoundAssumption ==
  /\ Capacity \in Nat \ {0} /\ IdsCap \in Nat \ {0}
  /\ Garbage \subseteq Payload /\ NoOne \notin Consumer \union Thread

VARIABLES
  registry,    \* RegistryMap: the consumers of each queue that has an entry
  alive,       \* listener_alive
  maker,       \* the make_shared call (&mut self) that must still spawn
  thread,      \* where each listener thread is
  subscribed,  \* the threads whose connection LISTENs
  inbox,       \* notifications waiting on a thread's connection
  todo,        \* senders a failing thread has yet to visit
  wakeNext,    \* the consumer it published to and has yet to wake
  state,       \* each consumer: none, live, closed (receiver gone), gone
  poll,        \* where its task is: asleep, ready, or inside poll_next
  notified,    \* its task was woken since its poll began
  errorWaker,  \* its task's waker is registered in NotificationErrors
  pending,     \* NotificationErrors.pending is Some
  hints,       \* every id sent into its channel, in order
  read,        \* how many of them it has received
  told,        \* history: informed of the end of the last listener
  unsent       \* payloads not sent yet

listenerVars == <<registry, alive, maker, thread, subscribed, todo, wakeNext, told>>
pollVars     == <<poll, notified, errorWaker, pending, read>>
vars         == <<listenerVars, pollVars, inbox, state, hints, unsent>>

ThreadPC == {"none", "connecting", "iterating", "checking", "failing", "unlistening", "ended"}
Running  == {"connecting", "iterating", "checking", "failing"}
PollPC   == {"asleep", "ready", "registered", "receiving"}

Id == (UNION {Range(p.ids) : p \in Payload}) \union {p.id : p \in Payload}

\* InsertEvent.ids is a list of ids.
ASSUME PayloadAssumption == \A p \in Payload : p.ids \in Seq(Id)

\* The types; in particular no queue keeps an empty entry, which would keep
\* the listener from ever leaving.
TypeOK ==
  /\ DOMAIN registry \subseteq Queue
  /\ \A q \in DOMAIN registry : registry[q] \in (SUBSET Consumer) \ {{}}
  /\ alive \in BOOLEAN
  /\ maker \in Consumer \union {NoOne}
  /\ thread \in [Thread -> ThreadPC]
  /\ subscribed \subseteq Thread
  /\ inbox \in [Thread -> Seq(Payload)]
  /\ todo \subseteq Consumer
  /\ wakeNext \in Consumer \union {NoOne}
  /\ state \in [Consumer -> {"none", "live", "closed", "gone"}]
  /\ poll \in [Consumer -> PollPC]
  /\ {notified, errorWaker, pending, told} \subseteq [Consumer -> BOOLEAN]
  /\ hints \in [Consumer -> Seq(Id)]
  /\ read \in [Consumer -> Nat]
  /\ \A c \in Consumer : Len(hints[c]) - read[c] \in 0 .. Capacity
  /\ unsent \subseteq Payload

\* SharedPostgresStorage::new.
Init ==
  /\ registry = <<>>
  /\ alive = FALSE
  /\ maker = NoOne
  /\ thread = [l \in Thread |-> "none"]
  /\ subscribed = {}
  /\ inbox = [l \in Thread |-> <<>>]
  /\ todo = {}
  /\ wakeNext = NoOne
  /\ state = [c \in Consumer |-> "none"]
  /\ poll = [c \in Consumer |-> "asleep"]
  /\ notified = [c \in Consumer |-> FALSE]
  /\ errorWaker = [c \in Consumer |-> FALSE]
  /\ pending = [c \in Consumer |-> FALSE]
  /\ hints = [c \in Consumer |-> <<>>]
  /\ read = [c \in Consumer |-> 0]
  /\ told = [c \in Consumer |-> FALSE]
  /\ unsent = Payload

-----------------------------------------------------------------------------
\* The registry.

LockFree == \A l \in Thread : thread[l] # "failing"

Registered == UNION Range(registry)

\* Mutated form: an entry left empty stays in the map.
RebindKeepingEmpty(q, members) ==
  [k \in DOMAIN registry \union {q} |-> IF k = q THEN members ELSE registry[k]]

\* The map with queue q bound to members, or without q when none is left.
Rebind(q, members) ==
  [k \in IF members = {} THEN DOMAIN registry \ {q} ELSE DOMAIN registry \union {q} |->
     IF k = q THEN members ELSE registry[k]]

EntryOf(q) == IF q \in DOMAIN registry THEN registry[q] ELSE {}

\* Mutated form: decided by the registry being empty, as it once was.
ClaimWhenEmpty == registry = <<>>

\* The swap of listener_alive: whether this registration spawns.
ClaimListenerSpawn == ~alive

\* make_shared_with_config under the registry lock: push the sender, swap.
MakeShared(c) ==
  /\ state[c] = "none" /\ maker = NoOne /\ LockFree
  /\ registry' = Rebind(QueueOf[c], EntryOf(QueueOf[c]) \union {c})
  /\ alive' = TRUE
  /\ maker' = IF ClaimListenerSpawn THEN c ELSE NoOne
  /\ told' = IF ClaimListenerSpawn THEN [k \in Consumer |-> FALSE] ELSE told
  /\ state' = [state EXCEPT ![c] = "live"]
  /\ poll' = [poll EXCEPT ![c] = "ready"]
  /\ UNCHANGED <<thread, subscribed, todo, wakeNext, notified, errorWaker, pending, read,
                 inbox, hints, unsent>>

\* exit_listener takes the lock and starts to visit the senders.
BeginExit(l) ==
  /\ LockFree
  /\ thread' = [thread EXCEPT ![l] = "failing"]
  /\ todo' = Registered

\* spawn_registry_listener: the thread starts, or its creation fails.
SpawnListener(l) ==
  /\ maker # NoOne /\ thread[l] = "none"
  /\ maker' = NoOne
  /\ \/ thread' = [thread EXCEPT ![l] = "connecting"] /\ UNCHANGED todo
     \/ BeginExit(l)
  /\ UNCHANGED <<registry, alive, subscribed, wakeNext, told, pollVars, inbox, state,
                 hints, unsent>>

\* AtomicWaker::wake: take the registered waker, schedule its task again.
WakeErrors(c) ==
  /\ errorWaker' = [errorWaker EXCEPT ![c] = FALSE]
  /\ notified' = [notified EXCEPT ![c] = notified[c] \/ (errorWaker[c] /\ poll[c] # "asleep")]
  /\ poll' = [poll EXCEPT ![c] = IF errorWaker[c] /\ poll[c] = "asleep" THEN "ready" ELSE @]

\* broadcast_notify_error_locked, one sender: a closed one is pruned, the
\* others get the error unless one is pending already (publish).
PublishError(l, c) ==
  /\ thread[l] = "failing" /\ wakeNext = NoOne /\ c \in todo
  /\ todo' = todo \ {c}
  /\ IF state[c] # "live"
       THEN /\ registry' = Rebind(QueueOf[c], EntryOf(QueueOf[c]) \ {c})
            /\ UNCHANGED <<pending, wakeNext, told>>
       ELSE /\ pending' = [pending EXCEPT ![c] = TRUE]
            /\ wakeNext' = c
            /\ told' = [told EXCEPT ![c] = TRUE]
            /\ UNCHANGED registry
  /\ UNCHANGED <<alive, maker, thread, subscribed, poll, notified, errorWaker, read, inbox,
                 state, hints, unsent>>

\* ... and the second half of publish: wake.
PublishWake(l) ==
  /\ thread[l] = "failing" /\ wakeNext # NoOne
  /\ WakeErrors(wakeNext)
  /\ wakeNext' = NoOne
  /\ UNCHANGED <<registry, alive, maker, thread, subscribed, todo, told, pending, read,
                 inbox, state, hints, unsent>>

\* Mutated form: the error is broadcast only by a listener that had LISTENed.
AllVisitedOrUnheard(l) == wakeNext = NoOne /\ (todo = {} \/ l \notin subscribed)

AllVisited(l) == wakeNext = NoOne /\ todo = {}

\* The end of exit_listener: store false, release the lock.
EndExit(l) ==
  /\ thread[l] = "failing" /\ AllVisited(l)
  /\ alive' = FALSE
  /\ todo' = {}
  /\ thread' = [thread EXCEPT ![l] = IF l \in subscribed THEN "unlistening" ELSE "ended"]
  /\ UNCHANGED <<registry, maker, subscribed, wakeNext, told, pollVars, inbox, state, hints,
                 unsent>>

-----------------------------------------------------------------------------
\* The listener thread.

\* pool.get and LISTEN, either of which may fail.
Connect(l) ==
  /\ thread[l] = "connecting"
  /\ \/ /\ thread' = [thread EXCEPT ![l] = "iterating"]
        /\ subscribed' = subscribed \union {l}
        /\ UNCHANGED todo
     \/ BeginExit(l) /\ UNCHANGED subscribed
  /\ UNCHANGED <<registry, alive, maker, wakeNext, told, pollVars, inbox, state, hints,
                 unsent>>

\* notifications_iter returns an error.
ReceiveError(l) ==
  /\ thread[l] = "iterating"
  /\ BeginExit(l)
  /\ UNCHANGED <<registry, alive, maker, subscribed, wakeNext, told, pollVars, inbox, state,
                 hints, unsent>>

\* InsertEvent::into_ids: at most the cap, the legacy single id otherwise.
IntoIds(e) ==
  IF e.ids # <<>> THEN SubSeq(e.ids, 1, IF Len(e.ids) > IdsCap THEN IdsCap ELSE Len(e.ids))
  ELSE IF e.id = NoOne THEN <<>> ELSE <<e.id>>

\* try_send of each id in turn: what fits of them.
TrySendAll(c, ids) ==
  hints[c] \o SubSeq(ids, 1, IF Len(ids) > Capacity - (Len(hints[c]) - read[c])
                               THEN Capacity - (Len(hints[c]) - read[c]) ELSE Len(ids))

\* Mutated form: a full channel is taken for a disconnected one.
KeptUnlessFull(q, ids) ==
  {c \in EntryOf(q) : ids = <<>> \/ (state[c] = "live" /\ Len(hints[c]) - read[c] + Len(ids) <= Capacity)}

\* The senders of the queue that deliver_to_queue keeps.
Kept(q, ids) == {c \in EntryOf(q) : ids = <<>> \/ state[c] = "live"}

\* deliver_to_queue: broadcast to every sender of the queue; a disconnected
\* one is pruned, a full one loses the hint and stays.
DeliverToQueue(e) ==
  LET ids == IntoIds(e)
      to  == {c \in EntryOf(e.queue) : state[c] = "live"}
      got == {c \in to : Len(TrySendAll(c, ids)) > Len(hints[c])}
  IN /\ hints' = [c \in Consumer |-> IF c \in to THEN TrySendAll(c, ids) ELSE hints[c]]
     /\ registry' = IF e.queue \in DOMAIN registry
                      THEN Rebind(e.queue, Kept(e.queue, ids)) ELSE registry
     /\ notified' = [c \in Consumer |-> notified[c] \/ (c \in got /\ poll[c] # "asleep")]
     /\ poll' = [c \in Consumer |-> IF c \in got /\ poll[c] = "asleep" THEN "ready" ELSE poll[c]]

\* One notification; a payload that does not decode is skipped.
Receive(l) ==
  /\ thread[l] = "iterating" /\ inbox[l] # <<>>
  /\ inbox' = [inbox EXCEPT ![l] = Tail(@)]
  /\ IF Head(inbox[l]) \in Garbage
       THEN UNCHANGED <<hints, registry, notified, poll>>
       ELSE LockFree /\ DeliverToQueue(Head(inbox[l]))
  /\ UNCHANGED <<alive, maker, thread, subscribed, todo, wakeNext, told, errorWaker, pending,
                 read, state, unsent>>

\* The iterator has nothing more to give.
Drained(l) ==
  /\ thread[l] = "iterating" /\ inbox[l] = <<>>
  /\ thread' = [thread EXCEPT ![l] = "checking"]
  /\ UNCHANGED <<registry, alive, maker, subscribed, todo, wakeNext, told, pollVars, inbox,
                 state, hints, unsent>>

\* listener_should_exit.
ListenerShouldExit == registry = <<>>

\* Under the lock: leave once the registry is empty, or sleep and iterate.
CheckExit(l) ==
  /\ thread[l] = "checking" /\ LockFree
  /\ alive' = IF ListenerShouldExit THEN FALSE ELSE alive
  /\ thread' = [thread EXCEPT ![l] = IF ListenerShouldExit THEN "unlistening" ELSE "iterating"]
  /\ UNCHANGED <<registry, maker, subscribed, todo, wakeNext, told, pollVars, inbox, state,
                 hints, unsent>>

\* UNLISTEN, best effort; the connection goes back to the pool.
Unlisten(l) ==
  /\ thread[l] = "unlistening"
  /\ thread' = [thread EXCEPT ![l] = "ended"]
  /\ subscribed' = subscribed \ {l}
  /\ inbox' = [inbox EXCEPT ![l] = <<>>]
  /\ UNCHANGED <<registry, alive, maker, todo, wakeNext, told, pollVars, state, hints, unsent>>

\* The NOTIFY of an INSERT commits: every LISTENing connection receives it.
Notify(p) ==
  /\ p \in unsent
  /\ unsent' = unsent \ {p}
  /\ inbox' = [l \in Thread |-> IF l \in subscribed THEN Append(inbox[l], p) ELSE inbox[l]]
  /\ UNCHANGED <<listenerVars, pollVars, state, hints>>

-----------------------------------------------------------------------------
\* A consumer: SharedFetcher::poll_next, and its drop.

\* Mutated form: take looks without registering its waker.
PollUnregistered(c) ==
  /\ state[c] = "live" /\ poll[c] = "ready"
  /\ notified' = [notified EXCEPT ![c] = FALSE]
  /\ poll' = [poll EXCEPT ![c] = "registered"]
  /\ UNCHANGED <<listenerVars, errorWaker, pending, read, inbox, state, hints, unsent>>

\* NotificationErrors::take registers the waker before it looks.
PollRegister(c) ==
  /\ state[c] = "live" /\ poll[c] = "ready"
  /\ errorWaker' = [errorWaker EXCEPT ![c] = TRUE]
  /\ notified' = [notified EXCEPT ![c] = FALSE]
  /\ poll' = [poll EXCEPT ![c] = "registered"]
  /\ UNCHANGED <<listenerVars, pending, read, inbox, state, hints, unsent>>

\* Mutated form: the error is yielded and stays pending.
PollTakeCloned(c) ==
  /\ poll[c] = "registered"
  /\ poll' = [poll EXCEPT ![c] = IF pending[c] THEN "ready" ELSE "receiving"]
  /\ UNCHANGED <<listenerVars, pending, notified, errorWaker, read, inbox, state, hints, unsent>>

\* ... then takes the pending error, which the stream yields.
PollTake(c) ==
  /\ poll[c] = "registered"
  /\ pending' = [pending EXCEPT ![c] = FALSE]
  /\ poll' = [poll EXCEPT ![c] = IF pending[c] THEN "ready" ELSE "receiving"]
  /\ UNCHANGED <<listenerVars, notified, errorWaker, read, inbox, state, hints, unsent>>

\* The receiver: the next hint, or asleep with its waker registered there.
PollReceive(c) ==
  /\ poll[c] = "receiving"
  /\ LET more == read[c] < Len(hints[c])
     IN /\ read' = [read EXCEPT ![c] = IF more THEN @ + 1 ELSE @]
        /\ poll' = [poll EXCEPT ![c] = IF more \/ notified[c] THEN "ready" ELSE "asleep"]
  /\ UNCHANGED <<listenerVars, notified, errorWaker, pending, inbox, state, hints, unsent>>

\* Something else in the same task, such as its poll timer, wakes it.
WokenOtherwise(c) ==
  /\ state[c] = "live" /\ poll[c] = "asleep"
  /\ poll' = [poll EXCEPT ![c] = "ready"]
  /\ UNCHANGED <<listenerVars, notified, errorWaker, pending, read, inbox, state, hints,
                 unsent>>

\* The fetcher is dropped between polls: its receiver goes first ...
DropReceiver(c) ==
  /\ state[c] = "live" /\ poll[c] \in {"asleep", "ready"} /\ maker # c
  /\ state' = [state EXCEPT ![c] = "closed"]
  /\ UNCHANGED <<listenerVars, pollVars, inbox, hints, unsent>>

\* Mutated form: a dropped consumer's sender stays until it is found closed.
OthersAndOwn(c) == EntryOf(QueueOf[c])

\* The members of its queue that SharedRegistration::drop leaves.
OthersOf(c) == EntryOf(QueueOf[c]) \ {c}

\* ... then its registration, which removes its own sender only.
DropRegistration(c) ==
  /\ state[c] = "closed" /\ LockFree
  /\ state' = [state EXCEPT ![c] = "gone"]
  /\ registry' = IF QueueOf[c] \in DOMAIN registry
                   THEN Rebind(QueueOf[c], OthersOf(c)) ELSE registry
  /\ UNCHANGED <<alive, maker, thread, subscribed, todo, wakeNext, told, pollVars, inbox,
                 hints, unsent>>

ListenerStep(l) ==
  \/ SpawnListener(l)
  \/ \E c \in Consumer : PublishError(l, c)
  \/ PublishWake(l)
  \/ EndExit(l)
  \/ Connect(l)
  \/ ReceiveError(l)
  \/ Receive(l)
  \/ Drained(l)
  \/ CheckExit(l)
  \/ Unlisten(l)

PollStep(c) == PollRegister(c) \/ PollTake(c) \/ PollReceive(c)

Next ==
  \/ \E l \in Thread : ListenerStep(l)
  \/ \E c \in Consumer : \/ MakeShared(c)
                         \/ PollStep(c)
                         \/ WokenOtherwise(c)
                         \/ DropReceiver(c)
                         \/ DropRegistration(c)
  \/ \E p \in Payload : Notify(p)

Spec == Init /\ [][Next]_vars

\* Threads and tasks run; nothing makes a caller register or drop, and the
\* poll timer's wake-ups are not relied upon.
FairSpec ==
  /\ Spec
  /\ \A l \in Thread : WF_vars(ListenerStep(l))
  /\ \A c \in Consumer : WF_vars(PollStep(c)) /\ WF_vars(DropRegistration(c))

-----------------------------------------------------------------------------
\* Properties.

\* listener_alive says exactly whether a listener runs or its spawn is
\* pending, and there is never more than one: neither a registration left
\* without a listener nor two that deliver the same event.
AliveExact ==
  LET n == Cardinality({l \in Thread : thread[l] \in Running}) + (IF maker # NoOne THEN 1 ELSE 0)
  IN n = (IF alive THEN 1 ELSE 0)

\* A consumer whose receiver lives is never cut off: a full channel, the drop
\* of another consumer of its queue and a listener's failure all leave its
\* sender registered.
NeverSevered == \A c \in Consumer : state[c] = "live" => c \in Registered

\* When no listener is left, every consumer still registered was told so
\* since the last one was claimed: it knows that it is deaf.
DeafAreTold == ~alive => \A c \in Consumer : state[c] = "live" => told[c]

\* A consumer whose receiver lives stays registered whatever happens to its
\* channel and to its neighbours, and when no listener is left it was told.
NeverCutOff == TypeOK /\ NeverSevered /\ DeafAreTold

\* A task never sleeps on an error published to it: the wake is still to
\* come from the publisher.
NoLostErrorWakeup ==
  \A c \in Consumer : (state[c] = "live" /\ poll[c] = "asleep" /\ pending[c]) => wakeNext = c

\* A consumer that is not dropped takes the error published to it and goes on
\* with its hints, however full its channel is.
ErrorObserved == \A c \in Consumer : pending[c] ~> (~pending[c] \/ state[c] # "live")

\* Once every consumer is gone for good, the listener's thread and its
\* connection are given back.
IdleListenerEnds ==
  \A l \in Thread :
    (thread[l] \in Running /\ \A c \in Consumer : state[c] \in {"none", "gone"})
      ~> (thread[l] = "ended" \/ \E c \in Consumer : state[c] \in {"live", "closed"})
=============================================================================
