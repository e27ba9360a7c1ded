------------------------------ MODULE TaskSink ------------------------------
(***************************************************************************)
(* PgSink: tasks accepted one by one, written in batches by a closure on   *)
(* the blocking pool.  The closure outlives the sink that submitted it,    *)
(* and the executor may report a failure of a closure that still runs: the *)
(* batch waits in a slot that either of them empties, once.                *)
(*                                                                         *)
(* Callers follow the Sink contract: a start_send uses up one poll_ready.  *)
(* Each offers its own tasks in order.                                     *)
(***************************************************************************)
EXTENDS Naturals, Sequences, FiniteSets, SequencesExt

CONSTANTS
  Sink,         \* a storage's sink and its clones
  First,        \* the sink that is there from the start
  Offer,        \* the tasks each sink's caller offers, in order
  Invalid,      \* tasks no batch could write (validate_task)
  BufferSize,   \* Config::buffer_size
  Flush,        \* bound: the flushes whose closures may be unfinished at once
  None

Task == UNION {Range(Offer[s]) : s \in Sink}

\* Every task is offered once: its id is fresh.
SinkAssumption ==
  /\ \A s \in Sink : Offer[s] \in Seq(Task) /\ IsInjective(Offer[s])
  /\ \A s, u \in Sink : s # u => Range(Offer[s]) \intersect Range(Offer[u]) = {}
  /\ BufferSize \in Nat
  /\ Flush \subseteq Nat
  /\ None \notin Flush \union Seq(Task)

VARIABLES
  state,      \* none (not cloned yet), live, dropped
  next,       \* how many tasks a caller has offered
  granted,    \* poll_ready returned Ok and no start_send used it
  buffer,     \* PgSink.buffer
  future,     \* PgSink.flush_future: the flush it waits for
  failed,     \* PgSink.failed
  closure,    \* where the blocking closure of each flush is
  slot,       \* its batch, until somebody takes it
  batch,      \* what the closure took
  executor,   \* whether the executor reported the flush failed
  table,      \* the tasks written, in order
  accepted,   \* history: tasks start_send took, in order
  promised,   \* history: accepted tasks a flush said were written
  told        \* history: sinks whose caller saw a permanent failure

sinkVars  == <<state, next, granted, buffer, future, failed>>
flushVars == <<closure, slot, batch, executor>>
vars      == <<sinkVars, flushVars, table, accepted, promised, told>>

ClosurePC == {"free", "queued", "connected", "writing", "ok", "notStarted", "rejected",
              "uncertain", "panicked"}

\* PgSink::capacity.
Capacity == IF BufferSize = 0 THEN 1 ELSE BufferSize

\* Types; a caller that follows the contract never overfills the buffer, not
\* even when a batch is handed back to it.
TypeOK ==
  /\ state \in [Sink -> {"none", "live", "dropped"}]
  /\ next \in [Sink -> Nat]
  /\ {granted, failed} \subseteq [Sink -> BOOLEAN]
  /\ buffer \in [Sink -> Seq(Task)] /\ \A s \in Sink : Len(buffer[s]) <= Capacity
  /\ future \in [Sink -> Flush \union {None}]
  /\ closure \in [Flush -> ClosurePC]
  /\ slot \in [Flush -> Seq(Task) \union {None}]
  /\ batch \in [Flush -> Seq(Task)]
  /\ executor \in [Flush -> BOOLEAN]
  /\ table \in Seq(Task)
  /\ accepted \in [Sink -> Seq(Task)]
  /\ promised \subseteq Task
  /\ told \subseteq Sink

\* PgSink::new; the clones come later.
Init ==
  /\ state = [s \in Sink |-> IF s = First THEN "live" ELSE "none"]
  /\ next = [s \in Sink |-> 0]
  /\ granted = [s \in Sink |-> FALSE]
  /\ buffer = [s \in Sink |-> <<>>]
  /\ future = [s \in Sink |-> None]
  /\ failed = [s \in Sink |-> FALSE]
  /\ closure = [f \in Flush |-> "free"]
  /\ slot = [f \in Flush |-> None]
  /\ batch = [f \in Flush |-> <<>>]
  /\ executor = [f \in Flush |-> FALSE]
  /\ table = <<>>
  /\ accepted = [s \in Sink |-> <<>>]
  /\ promised = {} /\ told = {}

-----------------------------------------------------------------------------
\* The sink.

\* Mutated form: a clone takes the buffer along.
ClonedBuffer(s) == buffer[s]

\* A clone starts empty.
BufferOfClone(s) == <<>>

Clone(s, u) ==
  /\ state[s] = "live" /\ state[u] = "none"
  /\ state' = [state EXCEPT ![u] = "live"]
  /\ buffer' = [buffer EXCEPT ![u] = BufferOfClone(s)]
  /\ UNCHANGED <<next, granted, future, failed, flushVars, table, accepted, promised, told>>

NeedsFlushBeforeReady(s) == failed[s] \/ future[s] # None \/ Len(buffer[s]) >= Capacity

\* poll_ready with room and no flush in flight.
PollReady(s) ==
  /\ state[s] = "live" /\ ~NeedsFlushBeforeReady(s)
  /\ granted' = [granted EXCEPT ![s] = TRUE]
  /\ UNCHANGED <<state, next, buffer, future, failed, flushVars, table, accepted, promised, told>>

\* Mutated form: what no batch can write is buffered all the same.
Unvalidated(t) == TRUE

\* validate_task.
Validated(t) == t \notin Invalid

\* start_send: try_push accepts the next task, or refuses it.
StartSend(s) ==
  /\ state[s] = "live" /\ granted[s] /\ next[s] < Len(Offer[s])
  /\ granted' = [granted EXCEPT ![s] = FALSE]
  /\ next' = [next EXCEPT ![s] = @ + 1]
  /\ LET t == Offer[s][next[s] + 1]
     IN IF ~failed[s] /\ Len(buffer[s]) < Capacity /\ Validated(t)
          THEN /\ buffer' = [buffer EXCEPT ![s] = Append(@, t)]
               /\ accepted' = [accepted EXCEPT ![s] = Append(@, t)]
          ELSE UNCHANGED <<buffer, accepted>>
  /\ UNCHANGED <<state, future, failed, flushVars, table, promised, told>>

\* A closure that is over and that no sink but s waits for is forgotten.
Reusable(s, f) ==
  /\ closure[f] \in {"free", "ok", "notStarted", "rejected", "uncertain", "panicked"}
  /\ \A u \in Sink \ {s} : state[u] = "live" => future[u] # f

\* Mutated form: the flush is given a copy of the buffer.
SubmitCopy(s, f) ==
  /\ Reusable(s, f) /\ \A g \in Flush : Reusable(s, g) => f <= g
  /\ closure' = [closure EXCEPT ![f] = "queued"]
  /\ slot' = [slot EXCEPT ![f] = buffer[s]]
  /\ batch' = [batch EXCEPT ![f] = <<>>]
  /\ executor' = [executor EXCEPT ![f] = FALSE]
  /\ future' = [future EXCEPT ![s] = f]
  /\ UNCHANGED buffer

\* get_or_insert_with: the whole buffer moves into a new flush, whose first
\* poll submits its closure.
Submit(s, f) ==
  /\ Reusable(s, f) /\ \A g \in Flush : Reusable(s, g) => f <= g
  /\ closure' = [closure EXCEPT ![f] = "queued"]
  /\ slot' = [slot EXCEPT ![f] = buffer[s]]
  /\ batch' = [batch EXCEPT ![f] = <<>>]
  /\ executor' = [executor EXCEPT ![f] = FALSE]
  /\ buffer' = [buffer EXCEPT ![s] = <<>>]
  /\ future' = [future EXCEPT ![s] = f]

\* poll_flush_inner, from poll_ready, poll_flush or poll_close: start one.
StartFlush(s, f) ==
  /\ state[s] = "live" /\ ~failed[s] /\ future[s] = None /\ buffer[s] # <<>>
  /\ Submit(s, f)
  /\ UNCHANGED <<state, next, granted, failed, table, accepted, promised, told>>

\* Mutated form: the flush in flight answers for what was accepted since.
PromiseAtOnce(s) == TRUE

\* Completion is promised only once the buffer was revisited.
MayPromise(s) == buffer[s] = <<>>

\* The flush succeeded.  Tasks accepted meanwhile are flushed before Ok.
FlushOk(s) ==
  /\ state[s] = "live" /\ future[s] # None
  /\ closure[future[s]] = "ok" /\ ~executor[future[s]]
  /\ IF MayPromise(s)
       THEN /\ future' = [future EXCEPT ![s] = None]
            /\ promised' = promised \union Range(accepted[s])
            /\ UNCHANGED <<buffer, flushVars>>
       ELSE /\ \E f \in Flush : Submit(s, f)
            /\ UNCHANGED promised
  /\ UNCHANGED <<state, next, granted, failed, table, accepted, told>>

\* Mutated form: the batch goes behind the tasks accepted meanwhile.
BackBehind(s, tasks) == buffer[s] \o tasks

HandBack(s, tasks) == tasks \o buffer[s]

\* Mutated form: a closure that found no connection is submitted again.
FlushResubmitted(s) ==
  /\ state[s] = "live" /\ future[s] # None
  /\ LET f == future[s]
     IN IF closure[f] = "notStarted" /\ ~executor[f]
          THEN closure' = [closure EXCEPT ![f] = "queued"] /\ UNCHANGED <<slot, buffer, future>>
          ELSE /\ executor[f] /\ slot[f] # None
               /\ buffer' = [buffer EXCEPT ![s] = HandBack(s, slot[f])]
               /\ slot' = [slot EXCEPT ![f] = None]
               /\ future' = [future EXCEPT ![s] = None]
               /\ UNCHANGED closure
  /\ UNCHANGED <<state, next, granted, failed, batch, executor, table, accepted, promised, told>>

\* No statement was issued: by the closure's word, or because the executor
\* failed with the batch still in the slot.
FlushNotStarted(s) ==
  /\ state[s] = "live" /\ future[s] # None
  /\ LET f == future[s]
     IN /\ closure[f] = "notStarted" \/ (executor[f] /\ slot[f] # None)
        /\ buffer' = [buffer EXCEPT ![s] = HandBack(s, slot[f])]
        /\ slot' = [slot EXCEPT ![f] = None]
  /\ future' = [future EXCEPT ![s] = None]
  /\ UNCHANGED <<state, next, granted, failed, closure, batch, executor, table, accepted,
                 promised, told>>

\* An uncertain batch fails the sink for good.
Uncertain(s, f) ==
  /\ failed' = [failed EXCEPT ![s] = TRUE]
  /\ UNCHANGED buffer

\* A statement was issued, or may have been.  A batch that validation refused
\* is dropped and the sink stays usable.
FlushFailed(s) ==
  /\ state[s] = "live" /\ future[s] # None
  /\ LET f == future[s]
     IN /\ closure[f] \in {"uncertain", "rejected"} \/ (executor[f] /\ slot[f] = None)
        /\ IF closure[f] = "rejected" /\ ~executor[f] THEN UNCHANGED <<buffer, failed, told>>
           ELSE Uncertain(s, f) /\ told' = told \union {s}
  /\ future' = [future EXCEPT ![s] = None]
  /\ UNCHANGED <<state, next, granted, flushVars, table, accepted, promised>>

\* The sink is dropped, its future with it; the closure is not.
Drop(s) ==
  /\ state[s] = "live"
  /\ state' = [state EXCEPT ![s] = "dropped"]
  /\ UNCHANGED <<next, granted, buffer, future, failed, flushVars, table, accepted, promised, told>>

-----------------------------------------------------------------------------
\* The closure of a flush, on the blocking pool.

Awaited(f) == \E s \in Sink : state[s] = "live" /\ future[s] = f

\* Mutated form: a closure still queued is skipped when its waiter is gone.
RunsWhileAwaited(f) == Awaited(f)

\* run_blocking: a submitted closure runs whether or not it is awaited.
Runs(f) == TRUE

\* pool.get.
GetConnection(f) ==
  /\ closure[f] = "queued" /\ Runs(f)
  /\ \E pc \in {"connected", "notStarted"} : closure' = [closure EXCEPT ![f] = pc]
  /\ UNCHANGED <<sinkVars, slot, batch, executor, table, accepted, promised, told>>

\* Take the batch and validate it again; a batch taken back by the waiter is
\* a panic.
TakeBatch(f) ==
  /\ closure[f] = "connected"
  /\ slot' = [slot EXCEPT ![f] = None]
  /\ IF slot[f] = None
       THEN closure' = [closure EXCEPT ![f] = "panicked"] /\ UNCHANGED batch
       ELSE /\ batch' = [batch EXCEPT ![f] = slot[f]]
            /\ closure' = [closure EXCEPT ![f] =
                 IF Range(slot[f]) \intersect Invalid = {} THEN "writing" ELSE "rejected"]
  /\ UNCHANGED <<sinkVars, executor, table, accepted, promised, told>>

\* The INSERT: it commits, fails (a conflict rolls the batch back), or
\* commits while its caller sees an error.
Write(f) ==
  /\ closure[f] = "writing"
  /\ \/ /\ table' = table \o batch[f]
        /\ \E pc \in {"ok", "uncertain"} : closure' = [closure EXCEPT ![f] = pc]
     \/ closure' = [closure EXCEPT ![f] = "uncertain"] /\ UNCHANGED table
  /\ UNCHANGED <<sinkVars, slot, batch, executor, accepted, promised, told>>

\* The executor reports a failure of a closure it may still run (a torn down
\* arbiter), or of one that panicked.
ExecutorFails(f) ==
  /\ Awaited(f) /\ closure[f] \in {"queued", "connected", "writing", "panicked"} /\ ~executor[f]
  /\ executor' = [executor EXCEPT ![f] = TRUE]
  /\ UNCHANGED <<sinkVars, closure, slot, batch, table, accepted, promised, told>>

ClosureStep(f) == GetConnection(f) \/ TakeBatch(f) \/ Write(f)

PollFlush(s) == \/ \E f \in Flush : StartFlush(s, f)
                \/ FlushOk(s) \/ FlushNotStarted(s) \/ FlushFailed(s)

Next == \/ \E s \in Sink : PollReady(s) \/ StartSend(s) \/ PollFlush(s) \/ Drop(s)
        \/ \E s, u \in Sink : Clone(s, u)
        \/ \E f \in Flush : ClosureStep(f) \/ ExecutorFails(f)

Spec == Init /\ [][Next]_vars

-----------------------------------------------------------------------------
\* Properties.

OnTheWay(s) == Range(buffer[s]) \union
               (IF future[s] = None THEN {}
                ELSE Range(batch[future[s]]) \union
                     (IF slot[future[s]] = None THEN {} ELSE Range(slot[future[s]])))

\* An accepted task is never lost behind its caller's back: while the sink
\* lives it is buffered, in flight or written, unless its caller saw the
\* permanent failure.
NothingLost ==
  \A s \in Sink : (state[s] = "live" /\ s \notin told) =>
    Range(accepted[s]) \subseteq OnTheWay(s) \union Range(table)

\* No task is written twice: not when a batch is handed back to the buffer,
\* not when a closure runs on after its failure was reported, not by a clone.
NeverTwice == IsInjective(table)

\* A flush that returns Ok has written everything accepted before it.
PromiseKept == promised \subseteq Range(table)

\* Tasks of one sink are written in the order they were accepted, also when
\* a batch came back and was flushed again.
OrderKept ==
  \A s \in Sink : \A i, j \in DOMAIN table, k, l \in DOMAIN accepted[s] :
    (i < j /\ table[i] = accepted[s][k] /\ table[j] = accepted[s][l]) => k < l

\* What a producer may rely on, whatever fails around a flush: its tasks are
\* neither lost nor written twice nor reordered, and an Ok of poll_flush covers
\* everything accepted before it.
PushExact == TypeOK /\ NothingLost /\ NeverTwice /\ PromiseKept /\ OrderKept

\* A flush that was started is settled while its caller polls.
FlushSettled == \A s \in Sink : (future[s] # None) ~> (future[s] = None \/ state[s] = "dropped")

\* A batch that left the buffer is written, refused or failed even when its
\* sink is dropped at once: no closure stays queued on the blocking pool.
DroppedFlushRuns == \A f \in Flush : (closure[f] = "queued") ~> (closure[f] # "queued")
=============================================================================
