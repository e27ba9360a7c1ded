------------------------ MODULE SharedListenerProofs ------------------------
(***************************************************************************)
(* Proofs of the safety of SharedListener for any number of consumers,     *)
(* queues, listener threads and notifications, and any channel capacity.   *)
(*                                                                         *)
(* The inductive invariant: at most one listener runs or is being spawned, *)
(* and listener_alive says whether one does (OneListener); every entry of  *)
(* the registry holds consumers of its own queue, the live ones all        *)
(* (RegistryExact); a listener that leaves has visited every live consumer *)
(* that was not told yet (Informed); and the waker of a task that will     *)
(* sleep is registered, or the task was woken since (WakeInv).             *)
(***************************************************************************)
EXTENDS SharedListener, FiniteSetTheorems, SequenceTheorems, TLAPS

\* listener_alive, the spawn that is owed and the threads agree.
OneListener ==
  /\ alive <=> (maker # NoOne \/ \E l \in Thread : thread[l] \in Running)
  /\ maker # NoOne => \A l \in Thread : thread[l] \notin Running
  /\ \A l, m \in Thread : thread[l] \in Running /\ thread[m] \in Running => l = m

\* Consumers are registered under their own queue, and the live ones are.
RegistryExact ==
  /\ \A q \in DOMAIN registry : \A c \in registry[q] : QueueOf[c] = q
  /\ \A c \in Consumer : state[c] = "live" => c \in EntryOf(QueueOf[c])

\* A failing listener tells every live consumer before it leaves.
Informed ==
  /\ DeafAreTold
  /\ \A l \in Thread : thread[l] = "failing" =>
       \A c \in Consumer : state[c] = "live" => c \in todo \/ told[c]

\* The waker of a polled task is registered or was taken by a wake-up, and an
\* error it has not looked at will still wake it.
WakeInv(c) ==
  /\ poll[c] \in {"registered", "receiving"} => errorWaker[c] \/ notified[c]
  /\ poll[c] = "asleep" /\ state[c] # "none" => errorWaker[c]
  /\ poll[c] = "receiving" /\ pending[c] => wakeNext = c \/ notified[c]
  /\ poll[c] = "asleep" /\ pending[c] => wakeNext = c
  /\ wakeNext = c => state[c] # "none"

\* The inductive invariant.
ListenerInv ==
  /\ TypeOK
  /\ OneListener
  /\ RegistryExact
  /\ Informed
  /\ \A c \in Consumer : WakeInv(c)

-----------------------------------------------------------------------------
(* The registry. *)

\* What Rebind changes.
LEMMA RebindEntry ==
  ASSUME TypeOK, NEW q \in Queue, NEW members \in SUBSET Consumer,
         registry' = Rebind(q, members)
  PROVE  /\ DOMAIN registry' \subseteq Queue
         /\ \A k \in DOMAIN registry' : registry'[k] \in (SUBSET Consumer) \ {{}}
         /\ \A k \in Queue : EntryOf(k)' = IF k = q THEN members ELSE EntryOf(k)
<1>1. DOMAIN registry' = IF members = {} THEN DOMAIN registry \ {q} ELSE DOMAIN registry \union {q}
  BY DEF Rebind
<1>2. \A k \in DOMAIN registry' : registry'[k] = IF k = q THEN members ELSE registry[k]
  BY DEF Rebind
<1> QED BY <1>1, <1>2 DEF TypeOK, EntryOf

\* A registered consumer is an entry of its own queue.
LEMMA RegisteredEntry ==
  ASSUME RegistryExact, NEW c \in Consumer
  PROVE  c \in Registered <=> c \in EntryOf(QueueOf[c])
BY DEF RegistryExact, Registered, EntryOf, Range

\* A step that binds a queue to consumers of that queue, the live ones included.
LEMMA RegistryStep ==
  ASSUME TypeOK, RegistryExact, NEW q \in Queue, NEW members \in SUBSET Consumer,
         registry' = Rebind(q, members),
         \A c \in members : QueueOf[c] = q,
         \A c \in Consumer : state'[c] = "live" =>
           IF QueueOf[c] = q THEN c \in members ELSE state[c] = "live"
  PROVE  RegistryExact'
<1>1. /\ DOMAIN registry' \subseteq Queue
      /\ \A k \in Queue : EntryOf(k)' = IF k = q THEN members ELSE EntryOf(k)
  BY RebindEntry
<1>2. ASSUME NEW k \in DOMAIN registry', NEW c \in registry'[k] PROVE QueueOf[c] = k
  <2>1. k \in Queue /\ c \in EntryOf(k)'
    BY <1>1 DEF EntryOf
  <2>2. c \in IF k = q THEN members ELSE EntryOf(k)
    BY <1>1, <2>1
  <2> QED BY <2>2 DEF RegistryExact, EntryOf
<1>3. ASSUME NEW c \in Consumer, state'[c] = "live" PROVE c \in EntryOf(QueueOf[c])'
  BY <1>1, <1>3, QueueOfAssumption DEF RegistryExact
<1> QED BY <1>2, <1>3 DEF RegistryExact

\* A registry whose lock nobody uses, or that the step leaves alone.
LEMMA RegistryKept ==
  ASSUME RegistryExact, registry' = registry,
         \A c \in Consumer : state'[c] = "live" => state[c] = "live"
  PROVE  RegistryExact'
BY DEF RegistryExact, EntryOf

-----------------------------------------------------------------------------
(* The channels. *)

\* What try_send adds fits the channel.
LEMMA SentFits ==
  ASSUME TypeOK, NEW c \in Consumer, NEW ids \in Seq(Id)
  PROVE  /\ TrySendAll(c, ids) \in Seq(Id)
         /\ Len(TrySendAll(c, ids)) - read[c] \in 0 .. Capacity
<1> DEFINE room == Capacity - (Len(hints[c]) - read[c])
           n == IF Len(ids) > room THEN room ELSE Len(ids)
<1>1. hints[c] \in Seq(Id) /\ read[c] \in Nat /\ Capacity \in Nat /\ Len(hints[c]) \in Nat
  BY BoundAssumption, LenProperties DEF TypeOK
<1>2. Len(hints[c]) - read[c] \in 0 .. Capacity /\ Len(ids) \in Nat
  BY LenProperties DEF TypeOK
<1>3. room \in Nat /\ n \in Nat /\ n <= Len(ids) /\ n <= room
  BY <1>1, <1>2
<1> HIDE DEF n
<1>4. SubSeq(ids, 1, n) \in Seq(Id) /\ Len(SubSeq(ids, 1, n)) = n
  <2>1. \A i \in 1 .. n : ids[i] \in Id
    BY <1>2, <1>3
  <2> QED BY <1>3, <2>1, SubSeqProperties
<1>5. /\ hints[c] \o SubSeq(ids, 1, n) \in Seq(Id)
      /\ Len(hints[c] \o SubSeq(ids, 1, n)) = Len(hints[c]) + n
  BY <1>1, <1>4, ConcatProperties
<1> DEFINE h == Len(hints[c])
           r == read[c]
<1>6. (Len(hints[c]) + n) - read[c] \in 0 .. Capacity
  <2>1. h \in Nat /\ r \in Nat /\ n \in Nat /\ Capacity \in Nat
    BY <1>1, <1>3
  <2>2. h - r >= 0 /\ n <= Capacity - (h - r)
    BY <1>2, <1>3
  <2> HIDE DEF h, r
  <2>3. (h + n) - r \in 0 .. Capacity
    BY <2>1, <2>2
  <2> QED BY <2>3 DEF h, r
<1>7. TrySendAll(c, ids) = hints[c] \o SubSeq(ids, 1, n)
  BY DEF TrySendAll, n
<1> QED BY <1>5, <1>6, <1>7

\* The ids of an event.
LEMMA EventIds ==
  ASSUME NEW e \in Payload
  PROVE  IntoIds(e) \in Seq(Id)
<1>1. e.ids \in Seq(Id)
  BY PayloadAssumption
<1>2. Len(e.ids) \in Nat /\ IdsCap \in Nat
  BY <1>1, LenProperties, BoundAssumption
<1>3. SubSeq(e.ids, 1, IF Len(e.ids) > IdsCap THEN IdsCap ELSE Len(e.ids)) \in Seq(Id)
  <2> DEFINE n == IF Len(e.ids) > IdsCap THEN IdsCap ELSE Len(e.ids)
  <2>1. n \in Nat /\ \A i \in 1 .. n : e.ids[i] \in Id
    BY <1>1, <1>2
  <2> HIDE DEF n
  <2>2. SubSeq(e.ids, 1, n) \in Seq(Id)
    BY <2>1, SubSeqProperties
  <2> QED BY <2>2 DEF n
<1>4. e.id \in Id
  <2>1. e.id \in {p.id : p \in Payload}
    OBVIOUS
  <2> QED BY <2>1, Zenon DEF Id
<1> QED BY <1>1, <1>3, <1>4 DEF IntoIds

-----------------------------------------------------------------------------
(* The listener thread. *)

\* Only threads that run hold the lock.
LEMMA FailingRuns ==
  ASSUME NEW l \in Thread, thread[l] = "failing"
  PROVE  thread[l] \in Running
BY DEF Running

\* A step of a thread that visits no consumer.
LEMMA ThreadInv ==
  ASSUME ListenerInv, NEW l \in Thread,
         \/ SpawnListener(l) \/ EndExit(l) \/ Connect(l) \/ ReceiveError(l)
         \/ Drained(l) \/ CheckExit(l) \/ Unlisten(l)
  PROVE  ListenerInv'
<1>1. TypeOK /\ OneListener /\ RegistryExact /\ Informed
  BY DEF ListenerInv
<1>2. UNCHANGED <<registry, wakeNext, told, poll, notified, errorWaker, pending, read, state,
                  hints, unsent>>
  BY DEF SpawnListener, EndExit, Connect, ReceiveError, Drained, CheckExit, Unlisten, BeginExit,
         pollVars
<1>3. /\ thread' \in [Thread -> ThreadPC] /\ thread'[l] # thread[l]
      /\ \A m \in Thread : m # l => thread'[m] = thread[m]
      /\ thread'[l] = "failing" => todo' = Registered
      /\ thread'[l] # "failing" => todo' = todo \/ thread[l] = "failing"
      /\ \/ /\ thread[l] = "none" /\ maker # NoOne /\ maker' = NoOne /\ alive' = alive
            /\ thread'[l] \in {"connecting", "failing"}
         \/ /\ maker' = maker /\ alive' = alive
            /\ thread[l] \in {"connecting", "iterating", "checking"}
            /\ thread'[l] \in {"iterating", "checking", "failing"}
         \/ /\ maker' = maker /\ alive' = FALSE /\ thread[l] = "failing" /\ AllVisited(l)
            /\ thread'[l] \in {"unlistening", "ended"}
         \/ /\ maker' = maker /\ alive' = FALSE /\ thread[l] = "checking" /\ registry = <<>>
            /\ thread'[l] = "unlistening"
         \/ /\ maker' = maker /\ alive' = alive /\ thread[l] = "unlistening"
            /\ thread'[l] = "ended"
  <2>1. thread \in [Thread -> ThreadPC]
    BY <1>1 DEF TypeOK
  <2>2. CASE SpawnListener(l)
    BY <2>1, <2>2 DEF SpawnListener, BeginExit, ThreadPC
  <2>3. CASE EndExit(l)
    BY <2>1, <2>3 DEF EndExit, ThreadPC
  <2>4. CASE Connect(l) \/ ReceiveError(l)
    BY <2>1, <2>4 DEF Connect, ReceiveError, BeginExit, ThreadPC
  <2>5. CASE Drained(l) \/ Unlisten(l)
    BY <2>1, <2>5 DEF Drained, Unlisten, ThreadPC
  <2>6. CASE CheckExit(l)
    BY <2>1, <2>6 DEF CheckExit, ListenerShouldExit, ThreadPC
  <2> QED BY <2>2, <2>3, <2>4, <2>5, <2>6
<1>4. TypeOK'
  <2>1. inbox' \in [Thread -> Seq(Payload)] /\ subscribed' \subseteq Thread
    <3>1. inbox \in [Thread -> Seq(Payload)] /\ subscribed \subseteq Thread /\ <<>> \in Seq(Payload)
      BY <1>1 DEF TypeOK
    <3>2. inbox' = inbox \/ inbox' = [inbox EXCEPT ![l] = <<>>]
      BY DEF SpawnListener, EndExit, Connect, ReceiveError, Drained, CheckExit, Unlisten
    <3>3. subscribed' \in {subscribed, subscribed \union {l}, subscribed \ {l}}
      BY DEF SpawnListener, EndExit, Connect, ReceiveError, Drained, CheckExit, Unlisten
    <3>4. inbox' \in [Thread -> Seq(Payload)]
      BY <3>1, <3>2
    <3> QED BY <3>1, <3>3, <3>4
  <2>2. todo' \subseteq Consumer
    <3>1. Registered \subseteq Consumer
      BY <1>1 DEF TypeOK, Registered, Range
    <3> QED BY <1>1, <3>1 DEF SpawnListener, EndExit, Connect, ReceiveError, Drained, CheckExit,
                              Unlisten, BeginExit, TypeOK
  <2>3. alive' \in BOOLEAN /\ maker' \in Consumer \union {NoOne}
    BY <1>1, <1>3 DEF TypeOK
  <2> QED BY <1>1, <1>2, <1>3, <2>1, <2>2, <2>3 DEF TypeOK
<1>5. OneListener'
  BY <1>1, <1>3 DEF OneListener, Running
<1>6. RegistryExact'
  BY <1>1, <1>2, RegistryKept
<1>7. Informed'
  <2>1. \A c \in Consumer : state[c] = "live" => c \in Registered
    BY <1>1, RegisteredEntry DEF RegistryExact
  <2>2. ASSUME registry = <<>>, NEW c \in Consumer, state[c] = "live" PROVE FALSE
    BY <1>1, <2>2 DEF RegistryExact, EntryOf
  <2>3. DeafAreTold'
    BY <1>1, <1>2, <1>3, <2>2 DEF Informed, DeafAreTold, AllVisited
  <2>4. ASSUME NEW m \in Thread, thread'[m] = "failing", NEW c \in Consumer, state'[c] = "live"
        PROVE  c \in todo' \/ told'[c]
    <3>1. CASE m = l
      BY <1>2, <1>3, <2>1, <2>4, <3>1
    <3>2. CASE m # l
      <4>1. thread[m] = "failing" /\ thread[l] \notin {"connecting", "iterating", "checking", "failing"}
            /\ maker = NoOne
        BY <1>1, <1>3, <2>4, <3>2 DEF OneListener, Running
      <4>2. todo' = todo
        BY <1>3, <4>1
      <4> QED BY <1>1, <1>2, <2>4, <4>1, <4>2 DEF Informed
    <3> QED BY <3>1, <3>2
  <2> QED BY <2>3, <2>4 DEF Informed
<1>8. ASSUME NEW c \in Consumer PROVE WakeInv(c)'
  BY <1>2 DEF ListenerInv, WakeInv
<1> QED BY <1>4, <1>5, <1>6, <1>7, <1>8 DEF ListenerInv

\* One consumer is told, or found closed and pruned.
LEMMA PublishErrorInv ==
  ASSUME ListenerInv, NEW l \in Thread, NEW c \in Consumer, PublishError(l, c)
  PROVE  ListenerInv'
<1>1. TypeOK /\ OneListener /\ RegistryExact /\ Informed /\ QueueOf[c] \in Queue
  BY QueueOfAssumption DEF ListenerInv
<1>2. /\ UNCHANGED <<alive, maker, thread, subscribed, poll, notified, errorWaker, read, inbox,
                     state, hints, unsent>>
      /\ thread[l] = "failing" /\ wakeNext = NoOne /\ todo' = todo \ {c}
      /\ \/ /\ state[c] # "live" /\ pending' = pending /\ wakeNext' = NoOne /\ told' = told
            /\ registry' = Rebind(QueueOf[c], EntryOf(QueueOf[c]) \ {c})
         \/ /\ state[c] = "live" /\ wakeNext' = c /\ registry' = registry
            /\ pending' = [pending EXCEPT ![c] = TRUE] /\ told' = [told EXCEPT ![c] = TRUE]
  BY DEF PublishError
<1>3. EntryOf(QueueOf[c]) \subseteq Consumer
  BY <1>1 DEF TypeOK, EntryOf
<1>4. TypeOK'
  <2>1. /\ DOMAIN registry' \subseteq Queue
        /\ \A q \in DOMAIN registry' : registry'[q] \in (SUBSET Consumer) \ {{}}
    <3>1. CASE registry' = registry
      BY <1>1, <3>1 DEF TypeOK
    <3>2. CASE registry' # registry
      <4>1. EntryOf(QueueOf[c]) \ {c} \in SUBSET Consumer
        BY <1>3
      <4>2. registry' = Rebind(QueueOf[c], EntryOf(QueueOf[c]) \ {c})
        BY <1>2, <3>2
      <4> QED BY <1>1, <4>1, <4>2, RebindEntry
    <3> QED BY <3>1, <3>2
  <2>2. pending' \in [Consumer -> BOOLEAN] /\ told' \in [Consumer -> BOOLEAN]
    <3>1. pending \in [Consumer -> BOOLEAN] /\ told \in [Consumer -> BOOLEAN]
      BY <1>1 DEF TypeOK
    <3> QED BY <1>2, <3>1
  <2> QED BY <1>1, <1>2, <2>1, <2>2 DEF TypeOK
<1>5. OneListener'
  BY <1>1, <1>2 DEF OneListener
<1>6. RegistryExact'
  <2>1. CASE state[c] = "live"
    BY <1>1, <1>2, <2>1, RegistryKept
  <2>2. CASE state[c] # "live"
    <3> DEFINE others == EntryOf(QueueOf[c]) \ {c}
    <3>1. \A d \in others : QueueOf[d] = QueueOf[c]
      BY <1>1 DEF RegistryExact, EntryOf
    <3>2. \A d \in Consumer : state'[d] = "live" =>
            IF QueueOf[d] = QueueOf[c] THEN d \in others ELSE state[d] = "live"
      BY <1>1, <1>2, <2>2 DEF RegistryExact
    <3>3. others \in SUBSET Consumer /\ registry' = Rebind(QueueOf[c], others)
      BY <1>2, <1>3, <2>2
    <3> QED BY <1>1, <3>1, <3>2, <3>3, RegistryStep
  <2> QED BY <2>1, <2>2
<1>7. Informed'
  BY <1>1, <1>2 DEF Informed, DeafAreTold, TypeOK
<1>8. ASSUME NEW d \in Consumer PROVE WakeInv(d)'
  <2>1. WakeInv(d) /\ c # NoOne /\ d # NoOne
    BY BoundAssumption DEF ListenerInv
  <2>2. pending'[d] => pending[d] \/ (d = c /\ wakeNext' = c)
    BY <1>1, <1>2 DEF TypeOK
  <2> QED BY <1>2, <2>1, <2>2 DEF WakeInv
<1> QED BY <1>4, <1>5, <1>6, <1>7, <1>8 DEF ListenerInv

\* The wake-up of the consumer it was published to.
LEMMA PublishWakeInv ==
  ASSUME ListenerInv, NEW l \in Thread, PublishWake(l)
  PROVE  ListenerInv'
<1>1. /\ TypeOK /\ OneListener /\ RegistryExact /\ Informed
      /\ wakeNext \in Consumer
  BY DEF ListenerInv, TypeOK, PublishWake
<1>2. /\ UNCHANGED <<registry, alive, maker, thread, subscribed, todo, told, pending, read,
                     inbox, state, hints, unsent>>
      /\ wakeNext' = NoOne
      /\ errorWaker' = [errorWaker EXCEPT ![wakeNext] = FALSE]
  BY DEF PublishWake, WakeErrors
<1>3. /\ poll' \in [Consumer -> PollPC] /\ notified' \in [Consumer -> BOOLEAN]
      /\ \A d \in Consumer : d # wakeNext => poll'[d] = poll[d] /\ notified'[d] = notified[d]
      /\ poll'[wakeNext] = IF errorWaker[wakeNext] /\ poll[wakeNext] = "asleep" THEN "ready"
                           ELSE poll[wakeNext]
      /\ notified'[wakeNext] = (notified[wakeNext] \/ (errorWaker[wakeNext] /\ poll[wakeNext] # "asleep"))
  BY <1>1 DEF PublishWake, WakeErrors, TypeOK, PollPC
<1>4. errorWaker' \in [Consumer -> BOOLEAN] /\ \A d \in Consumer : d # wakeNext => errorWaker'[d] = errorWaker[d]
  BY <1>1, <1>2 DEF TypeOK
<1>5. TypeOK'
  <2>1. {notified', errorWaker', pending', told'} \subseteq [Consumer -> BOOLEAN]
    BY <1>1, <1>2, <1>3, <1>4 DEF TypeOK
  <2>2. wakeNext' \in Consumer \union {NoOne}
    BY <1>2
  <2> QED BY <1>1, <1>2, <1>3, <2>1, <2>2 DEF TypeOK
<1>6. OneListener' /\ Informed'
  BY <1>1, <1>2 DEF OneListener, Informed, DeafAreTold
<1>7. RegistryExact'
  BY <1>1, <1>2, RegistryKept
<1>8. ASSUME NEW d \in Consumer PROVE WakeInv(d)'
  <2>1. WakeInv(d) /\ d # NoOne
    BY BoundAssumption DEF ListenerInv
  <2>2. CASE d # wakeNext
    BY <1>2, <1>3, <1>4, <2>1, <2>2 DEF WakeInv
  <2>3. CASE d = wakeNext
    <3>1. errorWaker'[d] = FALSE
      BY <1>1, <1>2, <2>3 DEF TypeOK
    <3>2. /\ poll'[d] # "asleep"
          /\ poll'[d] \in {"registered", "receiving"} => notified'[d]
      BY <1>2, <1>3, <2>1, <2>3 DEF WakeInv
    <3> QED BY <1>2, <2>1, <3>1, <3>2 DEF WakeInv
  <2> QED BY <2>2, <2>3
<1> QED BY <1>5, <1>6, <1>7, <1>8 DEF ListenerInv

\* deliver_to_queue keeps every live sender and fills no channel past its
\* capacity.
LEMMA DeliverStep ==
  ASSUME TypeOK, RegistryExact, NEW e \in Payload, DeliverToQueue(e), state' = state
  PROVE  /\ hints' \in [Consumer -> Seq(Id)]
         /\ \A c \in Consumer : Len(hints'[c]) - read[c] \in 0 .. Capacity
         /\ DOMAIN registry' \subseteq Queue
         /\ \A q \in DOMAIN registry' : registry'[q] \in (SUBSET Consumer) \ {{}}
         /\ RegistryExact'
         /\ poll' \in [Consumer -> PollPC] /\ notified' \in [Consumer -> BOOLEAN]
         /\ \A c \in Consumer : /\ notified[c] => notified'[c]
                                /\ poll'[c] = poll[c] \/ (poll[c] = "asleep" /\ poll'[c] = "ready")
<1> DEFINE ids == IntoIds(e)
           to  == {c \in EntryOf(e.queue) : state[c] = "live"}
           got == {c \in to : Len(TrySendAll(c, ids)) > Len(hints[c])}
<1>1. ids \in Seq(Id)
  BY EventIds
<1>2. /\ hints' = [c \in Consumer |-> IF c \in to THEN TrySendAll(c, ids) ELSE hints[c]]
      /\ registry' = IF e.queue \in DOMAIN registry
                       THEN Rebind(e.queue, Kept(e.queue, ids)) ELSE registry
      /\ notified' = [c \in Consumer |-> notified[c] \/ (c \in got /\ poll[c] # "asleep")]
      /\ poll' = [c \in Consumer |-> IF c \in got /\ poll[c] = "asleep" THEN "ready" ELSE poll[c]]
  BY DEF DeliverToQueue
<1> HIDE DEF ids, to, got
<1>3. /\ hints' \in [Consumer -> Seq(Id)]
      /\ \A c \in Consumer : Len(hints'[c]) - read[c] \in 0 .. Capacity
  <2>1. \A c \in Consumer : /\ hints[c] \in Seq(Id) /\ Len(hints[c]) - read[c] \in 0 .. Capacity
                            /\ TrySendAll(c, ids) \in Seq(Id)
                            /\ Len(TrySendAll(c, ids)) - read[c] \in 0 .. Capacity
    BY <1>1, SentFits DEF TypeOK
  <2>2. \A c \in Consumer : hints'[c] = IF c \in to THEN TrySendAll(c, ids) ELSE hints[c]
    BY <1>2
  <2> QED BY <1>2, <2>1, <2>2
<1>4. /\ DOMAIN registry' \subseteq Queue
      /\ \A q \in DOMAIN registry' : registry'[q] \in (SUBSET Consumer) \ {{}}
      /\ RegistryExact'
  <2>1. CASE e.queue \notin DOMAIN registry
    <3>1. registry' = registry
      BY <1>2, <2>1
    <3> QED BY <3>1, RegistryKept DEF TypeOK
  <2>2. CASE e.queue \in DOMAIN registry
    <3> DEFINE q == e.queue
               members == Kept(q, ids)
    <3>1. /\ q \in Queue /\ members \in SUBSET Consumer /\ registry' = Rebind(q, members)
          /\ EntryOf(q) = registry[q]
      BY <1>2, <2>2 DEF TypeOK, Kept, EntryOf
    <3>2. \A c \in members : QueueOf[c] = q
      BY <2>2, <3>1 DEF Kept, RegistryExact
    <3>3. \A c \in Consumer : state'[c] = "live" =>
            IF QueueOf[c] = q THEN c \in members ELSE state[c] = "live"
      BY DEF Kept, RegistryExact
    <3> HIDE DEF q, members
    <3> QED BY <3>1, <3>2, <3>3, RebindEntry, RegistryStep
  <2> QED BY <2>1, <2>2
<1>5. /\ poll' \in [Consumer -> PollPC] /\ notified' \in [Consumer -> BOOLEAN]
      /\ \A c \in Consumer : /\ notified[c] => notified'[c]
                             /\ poll'[c] = poll[c] \/ (poll[c] = "asleep" /\ poll'[c] = "ready")
  BY <1>2 DEF TypeOK, PollPC
<1> QED BY <1>3, <1>4, <1>5

\* A notification reaches the consumers of its queue.
LEMMA ReceiveInv ==
  ASSUME ListenerInv, NEW l \in Thread, Receive(l)
  PROVE  ListenerInv'
<1>1. TypeOK /\ OneListener /\ RegistryExact /\ Informed
  BY DEF ListenerInv
<1>2. /\ UNCHANGED <<alive, maker, thread, subscribed, todo, wakeNext, told, errorWaker, pending,
                     read, state, unsent>>
      /\ inbox[l] # <<>> /\ inbox' = [inbox EXCEPT ![l] = Tail(inbox[l])]
  BY DEF Receive
<1>3. Head(inbox[l]) \in Payload /\ inbox' \in [Thread -> Seq(Payload)]
  <2>1. inbox \in [Thread -> Seq(Payload)] /\ inbox[l] \in Seq(Payload)
    BY <1>1 DEF TypeOK
  <2>2. Head(inbox[l]) \in Payload /\ Tail(inbox[l]) \in Seq(Payload)
    BY <1>2, <2>1
  <2> QED BY <1>2, <2>1, <2>2
<1>4. /\ hints' \in [Consumer -> Seq(Id)]
      /\ \A c \in Consumer : Len(hints'[c]) - read[c] \in 0 .. Capacity
      /\ DOMAIN registry' \subseteq Queue
      /\ \A q \in DOMAIN registry' : registry'[q] \in (SUBSET Consumer) \ {{}}
      /\ RegistryExact'
      /\ poll' \in [Consumer -> PollPC] /\ notified' \in [Consumer -> BOOLEAN]
      /\ \A c \in Consumer : /\ notified[c] => notified'[c]
                             /\ poll'[c] = poll[c] \/ (poll[c] = "asleep" /\ poll'[c] = "ready")
  <2>1. CASE Head(inbox[l]) \in Garbage
    <3>1. UNCHANGED <<hints, registry, notified, poll>>
      BY <2>1 DEF Receive
    <3> QED BY <1>1, <1>2, <3>1, RegistryKept DEF TypeOK
  <2>2. CASE Head(inbox[l]) \notin Garbage
    <3>1. DeliverToQueue(Head(inbox[l])) /\ state' = state
      BY <2>2 DEF Receive
    <3> QED BY <1>1, <1>3, <3>1, DeliverStep
  <2> QED BY <2>1, <2>2
<1>5. TypeOK'
  BY <1>1, <1>2, <1>3, <1>4 DEF TypeOK
<1>6. OneListener' /\ Informed'
  BY <1>1, <1>2 DEF OneListener, Informed, DeafAreTold
<1>7. ASSUME NEW c \in Consumer PROVE WakeInv(c)'
  <2>1. WakeInv(c)
    BY DEF ListenerInv
  <2> QED BY <1>2, <1>4, <2>1 DEF WakeInv
<1> QED BY <1>4, <1>5, <1>6, <1>7 DEF ListenerInv

-----------------------------------------------------------------------------
(* The consumers. *)

\* A NOTIFY is delivered to the connections that LISTEN.
LEMMA NotifyInv ==
  ASSUME ListenerInv, NEW p \in Payload, Notify(p)
  PROVE  ListenerInv'
<1>1. TypeOK /\ OneListener /\ RegistryExact /\ Informed
  BY DEF ListenerInv
<1>2. UNCHANGED <<registry, alive, maker, thread, subscribed, todo, wakeNext, told, poll, notified,
                  errorWaker, pending, read, state, hints>>
  BY DEF Notify, listenerVars, pollVars
<1>3. inbox' \in [Thread -> Seq(Payload)] /\ unsent' \subseteq Payload
  <2>1. \A l \in Thread : inbox[l] \in Seq(Payload) /\ Append(inbox[l], p) \in Seq(Payload)
    BY <1>1 DEF TypeOK
  <2> QED BY <1>1, <2>1 DEF Notify, TypeOK
<1>4. TypeOK'
  BY <1>1, <1>2, <1>3 DEF TypeOK
<1>5. OneListener' /\ Informed' /\ RegistryExact'
  BY <1>1, <1>2, RegistryKept DEF OneListener, Informed, DeafAreTold
<1>6. ASSUME NEW c \in Consumer PROVE WakeInv(c)'
  BY <1>2 DEF ListenerInv, WakeInv
<1> QED BY <1>4, <1>5, <1>6 DEF ListenerInv

\* A step of a consumer's task that touches neither the registry nor the
\* listener.
LEMMA PollMove ==
  ASSUME ListenerInv, NEW c \in Consumer,
         UNCHANGED <<listenerVars, inbox, hints, unsent>>,
         TypeOK', WakeInv(c)',
         \A d \in Consumer : state'[d] = "live" => state[d] = "live",
         \A d \in Consumer : d # c =>
           /\ poll'[d] = poll[d] /\ notified'[d] = notified[d] /\ errorWaker'[d] = errorWaker[d]
           /\ pending'[d] = pending[d] /\ state'[d] = state[d]
  PROVE  ListenerInv'
<1>1. TypeOK /\ OneListener /\ RegistryExact /\ Informed
  BY DEF ListenerInv
<1>2. OneListener' /\ Informed' /\ RegistryExact'
  BY <1>1, RegistryKept DEF OneListener, Informed, DeafAreTold, listenerVars
<1>3. ASSUME NEW d \in Consumer, d # c PROVE WakeInv(d)'
  BY <1>3 DEF ListenerInv, WakeInv, listenerVars
<1> QED BY <1>2, <1>3 DEF ListenerInv

\* SharedFetcher::poll_next, step by step, and a wake-up for another reason.
LEMMA PollInv ==
  ASSUME ListenerInv, NEW c \in Consumer, PollStep(c) \/ WokenOtherwise(c) \/ DropReceiver(c)
  PROVE  ListenerInv'
<1>1. TypeOK /\ WakeInv(c)
  BY DEF ListenerInv
<1>2. /\ poll \in [Consumer -> PollPC] /\ notified \in [Consumer -> BOOLEAN]
      /\ errorWaker \in [Consumer -> BOOLEAN] /\ pending \in [Consumer -> BOOLEAN]
      /\ read \in [Consumer -> Nat]
      /\ state \in [Consumer -> {"none", "live", "closed", "gone"}]
  BY <1>1 DEF TypeOK
<1>3. UNCHANGED <<listenerVars, inbox, hints, unsent>>
  BY DEF PollStep, PollRegister, PollTake, PollReceive, WokenOtherwise, DropReceiver
<1>4. CASE PollRegister(c)
  <2>1. TypeOK' /\ WakeInv(c)'
    BY <1>1, <1>2, <1>4 DEF PollRegister, TypeOK, WakeInv, PollPC, listenerVars
  <2> QED BY <1>2, <1>3, <1>4, <2>1, PollMove DEF PollRegister
<1>5. CASE PollTake(c)
  <2>1. TypeOK' /\ WakeInv(c)'
    BY <1>1, <1>2, <1>5 DEF PollTake, TypeOK, WakeInv, PollPC, listenerVars
  <2> QED BY <1>2, <1>3, <1>5, <2>1, PollMove DEF PollTake
<1>6. CASE PollReceive(c)
  <2> DEFINE more == read[c] < Len(hints[c])
  <2>1. /\ UNCHANGED <<notified, errorWaker, pending, state>>
        /\ poll[c] = "receiving"
        /\ read' = [read EXCEPT ![c] = IF more THEN read[c] + 1 ELSE read[c]]
        /\ poll' = [poll EXCEPT ![c] = IF more \/ notified[c] THEN "ready" ELSE "asleep"]
    BY <1>6 DEF PollReceive
  <2>2. /\ read' \in [Consumer -> Nat]
        /\ \A d \in Consumer : Len(hints[d]) - read'[d] \in 0 .. Capacity
    <3>1. \A d \in Consumer : read[d] \in Nat /\ Len(hints[d]) - read[d] \in 0 .. Capacity
      BY <1>1 DEF TypeOK
    <3>2. Len(hints[c]) \in Nat /\ Capacity \in Nat
      BY <1>1, BoundAssumption, LenProperties DEF TypeOK
    <3>3. CASE more
      <4>1. read[c] + 1 \in Nat /\ Len(hints[c]) - (read[c] + 1) \in 0 .. Capacity
        BY <3>1, <3>2, <3>3
      <4>2. read' = [read EXCEPT ![c] = read[c] + 1]
        BY <2>1, <3>3
      <4> QED BY <1>2, <3>1, <4>1, <4>2
    <3>4. CASE ~more
      <4>1. read' = [read EXCEPT ![c] = read[c]]
        BY <2>1, <3>4
      <4> QED BY <1>2, <3>1, <4>1
    <3> QED BY <3>3, <3>4
  <2> HIDE DEF more
  <2>3. \/ poll' = [poll EXCEPT ![c] = "ready"]
        \/ ~notified[c] /\ poll' = [poll EXCEPT ![c] = "asleep"]
    BY <2>1
  <2>4. poll' \in [Consumer -> PollPC]
    BY <1>2, <2>3 DEF PollPC
  <2>5. TypeOK'
    BY <1>1, <1>3, <2>1, <2>2, <2>4 DEF TypeOK, listenerVars
  <2>6. WakeInv(c)'
    BY <1>1, <1>2, <1>3, <2>1, <2>3 DEF WakeInv, listenerVars
  <2> QED BY <1>2, <1>3, <2>1, <2>3, <2>5, <2>6, PollMove
<1>7. CASE WokenOtherwise(c)
  <2>1. TypeOK' /\ WakeInv(c)'
    BY <1>1, <1>2, <1>7 DEF WokenOtherwise, TypeOK, WakeInv, PollPC, listenerVars
  <2> QED BY <1>2, <1>3, <1>7, <2>1, PollMove DEF WokenOtherwise
<1>8. CASE DropReceiver(c)
  <2>1. TypeOK' /\ WakeInv(c)'
    BY <1>1, <1>2, <1>8 DEF DropReceiver, TypeOK, WakeInv, listenerVars, pollVars
  <2> QED BY <1>2, <1>3, <1>8, <2>1, PollMove DEF DropReceiver, pollVars
<1> QED BY <1>4, <1>5, <1>6, <1>7, <1>8 DEF PollStep

\* SharedRegistration::drop removes its own sender only.
LEMMA DropRegistrationInv ==
  ASSUME ListenerInv, NEW c \in Consumer, DropRegistration(c)
  PROVE  ListenerInv'
<1>1. TypeOK /\ OneListener /\ RegistryExact /\ Informed /\ WakeInv(c) /\ QueueOf[c] \in Queue
  BY QueueOfAssumption DEF ListenerInv
<1>2. /\ UNCHANGED <<alive, maker, thread, subscribed, todo, wakeNext, told, poll, notified,
                     errorWaker, pending, read, inbox, hints, unsent>>
      /\ state[c] = "closed" /\ state' = [state EXCEPT ![c] = "gone"]
      /\ registry' = IF QueueOf[c] \in DOMAIN registry
                       THEN Rebind(QueueOf[c], OthersOf(c)) ELSE registry
  BY DEF DropRegistration, pollVars
<1>3. /\ state' \in [Consumer -> {"none", "live", "closed", "gone"}] /\ state'[c] = "gone"
      /\ \A d \in Consumer : d # c => state'[d] = state[d]
  BY <1>1, <1>2 DEF TypeOK
<1>4. /\ DOMAIN registry' \subseteq Queue
      /\ \A q \in DOMAIN registry' : registry'[q] \in (SUBSET Consumer) \ {{}}
      /\ RegistryExact'
  <2>1. CASE QueueOf[c] \notin DOMAIN registry
    <3>1. registry' = registry /\ \A d \in Consumer : state'[d] = "live" => state[d] = "live"
      BY <1>2, <1>3, <2>1
    <3> QED BY <1>1, <3>1, RegistryKept DEF TypeOK
  <2>2. CASE QueueOf[c] \in DOMAIN registry
    <3> DEFINE others == OthersOf(c)
    <3>1. others \in SUBSET Consumer /\ registry' = Rebind(QueueOf[c], others)
      BY <1>1, <1>2, <2>2 DEF TypeOK, OthersOf, EntryOf
    <3>2. \A d \in others : QueueOf[d] = QueueOf[c]
      BY <1>1 DEF RegistryExact, OthersOf, EntryOf
    <3>3. \A d \in Consumer : state'[d] = "live" =>
            IF QueueOf[d] = QueueOf[c] THEN d \in others ELSE state[d] = "live"
      BY <1>1, <1>3 DEF RegistryExact, OthersOf
    <3> HIDE DEF others
    <3> QED BY <1>1, <3>1, <3>2, <3>3, RebindEntry, RegistryStep
  <2> QED BY <2>1, <2>2
<1>5. TypeOK'
  BY <1>1, <1>2, <1>3, <1>4 DEF TypeOK
<1>6. OneListener' /\ Informed'
  BY <1>1, <1>2, <1>3 DEF OneListener, Informed, DeafAreTold
<1>7. ASSUME NEW d \in Consumer PROVE WakeInv(d)'
  <2>1. WakeInv(d)
    BY DEF ListenerInv
  <2> QED BY <1>2, <1>3, <2>1 DEF WakeInv
<1> QED BY <1>4, <1>5, <1>6, <1>7 DEF ListenerInv

\* make_shared registers its sender and claims the spawn in one critical section.
LEMMA MakeSharedInv ==
  ASSUME ListenerInv, NEW c \in Consumer, MakeShared(c)
  PROVE  ListenerInv'
<1>1. TypeOK /\ OneListener /\ RegistryExact /\ Informed /\ WakeInv(c) /\ QueueOf[c] \in Queue
  BY QueueOfAssumption DEF ListenerInv
<1>2. /\ UNCHANGED <<thread, subscribed, todo, wakeNext, notified, errorWaker, pending, read,
                     inbox, hints, unsent>>
      /\ state[c] = "none" /\ maker = NoOne /\ LockFree /\ alive' = TRUE
      /\ registry' = Rebind(QueueOf[c], EntryOf(QueueOf[c]) \union {c})
      /\ maker' = IF ~alive THEN c ELSE NoOne
      /\ told' = IF ~alive THEN [k \in Consumer |-> FALSE] ELSE told
      /\ state' = [state EXCEPT ![c] = "live"]
      /\ poll' = [poll EXCEPT ![c] = "ready"]
  BY DEF MakeShared, ClaimListenerSpawn
<1>3. /\ state' \in [Consumer -> {"none", "live", "closed", "gone"}]
      /\ poll' \in [Consumer -> PollPC] /\ poll'[c] = "ready" /\ state'[c] = "live"
      /\ \A d \in Consumer : d # c => state'[d] = state[d] /\ poll'[d] = poll[d]
      /\ told' \in [Consumer -> BOOLEAN]
  BY <1>1, <1>2 DEF TypeOK, PollPC
<1>4. /\ DOMAIN registry' \subseteq Queue
      /\ \A q \in DOMAIN registry' : registry'[q] \in (SUBSET Consumer) \ {{}}
      /\ RegistryExact'
  <2> DEFINE members == EntryOf(QueueOf[c]) \union {c}
  <2>1. members \in SUBSET Consumer /\ registry' = Rebind(QueueOf[c], members)
    BY <1>1, <1>2 DEF TypeOK, EntryOf
  <2>2. \A d \in members : QueueOf[d] = QueueOf[c]
    BY <1>1 DEF RegistryExact, EntryOf
  <2>3. \A d \in Consumer : state'[d] = "live" =>
          IF QueueOf[d] = QueueOf[c] THEN d \in members ELSE state[d] = "live"
    BY <1>1, <1>3 DEF RegistryExact
  <2> HIDE DEF members
  <2> QED BY <1>1, <2>1, <2>2, <2>3, RebindEntry, RegistryStep
<1>5. TypeOK'
  <2>1. maker' \in Consumer \union {NoOne} /\ alive' \in BOOLEAN
    BY <1>2
  <2>2. UNCHANGED <<thread, subscribed, todo, wakeNext, notified, errorWaker, pending, read,
                    inbox, hints, unsent>>
    BY <1>2
  <2>3. {notified', errorWaker', pending', told'} \subseteq [Consumer -> BOOLEAN]
    BY <1>1, <1>3, <2>2 DEF TypeOK
  <2>4. \A d \in Consumer : Len(hints'[d]) - read'[d] \in 0 .. Capacity
    BY <1>1, <2>2 DEF TypeOK
  <2> QED BY <1>1, <1>3, <1>4, <2>1, <2>2, <2>3, <2>4 DEF TypeOK
<1>6. c # NoOne
  BY BoundAssumption
<1>7. OneListener'
  BY <1>1, <1>2, <1>6 DEF OneListener
<1>8. Informed'
  BY <1>2 DEF Informed, DeafAreTold, LockFree
<1>9. ASSUME NEW d \in Consumer PROVE WakeInv(d)'
  <2>1. WakeInv(d)
    BY DEF ListenerInv
  <2> QED BY <1>2, <1>3, <2>1 DEF WakeInv
<1> QED BY <1>4, <1>5, <1>7, <1>8, <1>9 DEF ListenerInv

-----------------------------------------------------------------------------
(* The theorems. *)

\* The inductive invariant holds initially and after every step.
THEOREM ListenerSafe == Spec => []ListenerInv
<1>1. Init => ListenerInv
  <2> SUFFICES ASSUME Init PROVE ListenerInv
    OBVIOUS
  <2>1. DOMAIN registry = {}
    BY DEF Init
  <2>2. TypeOK
    <3>1. <<>> \in Seq(Payload) /\ <<>> \in Seq(Id) /\ Len(<<>>) = 0 /\ 0 - 0 \in 0 .. Capacity
      BY BoundAssumption
    <3>2. /\ hints \in [Consumer -> Seq(Id)] /\ read \in [Consumer -> Nat]
          /\ \A c \in Consumer : Len(hints[c]) - read[c] \in 0 .. Capacity
          /\ inbox \in [Thread -> Seq(Payload)]
      BY <3>1 DEF Init
    <3> QED BY <2>1, <3>2 DEF Init, TypeOK, ThreadPC, PollPC
  <2>3. OneListener /\ Informed
    BY DEF Init, OneListener, Informed, DeafAreTold, Running
  <2>4. RegistryExact
    BY <2>1 DEF Init, RegistryExact
  <2>5. ASSUME NEW c \in Consumer PROVE WakeInv(c)
    BY BoundAssumption DEF Init, WakeInv
  <2> QED BY <2>2, <2>3, <2>4, <2>5 DEF ListenerInv
<1>2. ListenerInv /\ [Next]_vars => ListenerInv'
  <2> SUFFICES ASSUME ListenerInv, [Next]_vars PROVE ListenerInv'
    OBVIOUS
  <2>1. ASSUME NEW l \in Thread, ListenerStep(l) PROVE ListenerInv'
    BY <2>1, ThreadInv, PublishErrorInv, PublishWakeInv, ReceiveInv DEF ListenerStep
  <2>2. ASSUME NEW c \in Consumer,
               MakeShared(c) \/ PollStep(c) \/ WokenOtherwise(c) \/ DropReceiver(c) \/ DropRegistration(c)
        PROVE  ListenerInv'
    BY <2>2, MakeSharedInv, PollInv, DropRegistrationInv
  <2>3. CASE UNCHANGED vars
    <3>1. TypeOK'
      BY <2>3 DEF ListenerInv, TypeOK, vars, listenerVars, pollVars
    <3>2. OneListener' /\ Informed' /\ RegistryExact'
      BY <2>3, RegistryKept
      DEF ListenerInv, OneListener, Informed, DeafAreTold, vars, listenerVars, pollVars
    <3>3. ASSUME NEW c \in Consumer PROVE WakeInv(c)'
      BY <2>3 DEF ListenerInv, WakeInv, vars, listenerVars, pollVars
    <3> QED BY <3>1, <3>2, <3>3 DEF ListenerInv
  <2> QED BY <2>1, <2>2, <2>3, NotifyInv DEF Next
<1> QED BY <1>1, <1>2, PTL DEF Spec

\* listener_alive never claims a listener that does not run, nor denies one
\* that does, and no two listeners run (exit_listener, make_shared).
THEOREM ListenerAliveExact == Spec => []AliveExact
<1>1. ASSUME ListenerInv PROVE AliveExact
  <2> DEFINE R == {l \in Thread : thread[l] \in Running}
  <2>1. OneListener
    BY <1>1 DEF ListenerInv
  <2>2. CASE R = {}
    <3>1. Cardinality(R) = 0 /\ (alive <=> maker # NoOne)
      BY <2>1, <2>2, FS_EmptySet DEF OneListener
    <3> QED BY <3>1 DEF AliveExact
  <2>3. CASE R # {}
    <3>1. PICK l \in Thread : thread[l] \in Running
      BY <2>3
    <3>2. R = {l}
      BY <2>1, <3>1 DEF OneListener
    <3>3. Cardinality(R) = 1 /\ maker = NoOne /\ alive
      BY <2>1, <3>1, <3>2, FS_Singleton DEF OneListener
    <3> QED BY <3>3 DEF AliveExact
  <2> QED BY <2>2, <2>3
<1> QED BY <1>1, ListenerSafe, PTL

\* A live consumer stays registered, its channel keeps its bound, and it is
\* told when the last listener leaves.
THEOREM ConsumersNeverCutOff == Spec => []NeverCutOff
<1>1. ASSUME ListenerInv PROVE NeverCutOff
  <2>1. NeverSevered
    BY <1>1, RegisteredEntry DEF ListenerInv, RegistryExact, NeverSevered
  <2> QED BY <1>1, <2>1 DEF ListenerInv, Informed, NeverCutOff
<1> QED BY <1>1, ListenerSafe, PTL

\* An error published to a consumer never finds its task asleep for good
\* (NotificationErrors::publish and take).
THEOREM ErrorsWake == Spec => []NoLostErrorWakeup
<1>1. ListenerInv => NoLostErrorWakeup
  BY DEF ListenerInv, WakeInv, NoLostErrorWakeup
<1> QED BY <1>1, ListenerSafe, PTL

=============================================================================
