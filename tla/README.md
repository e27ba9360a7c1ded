# TLA+ specification of apalis-diesel-postgres

A PostgreSQL task queue backend for Apalis. Workers in several processes claim
rows of `apalis.jobs`, execute them and acknowledge them; `apalis.workers` says
who is alive; everything else (leases, guards, heartbeats, notifications) exists
so that a row is never executed twice for one attempt and never forgotten.

## 1. The system

| Component | State | Operations | Hard part |
|---|---|---|---|
| Claims (`queries/fetch.rs`, `queries/ack.rs`) | a row of `apalis.jobs`: status, attempts, `lock_by`, `lock_at`, `done_at`, `run_at` | fetch a batch, claim by id, start, lock (claim and start), acknowledge, fail an undecodable row, kill a malformed row | the epoch (owner, second, attempts) is all that tells one claim from another; a commit the client cannot confirm |
| Registrations (`queries/worker.rs`) | a row of `apalis.workers`: `lease_token`, `last_seen` | startup sweep, register or take over, renew, sweep orphans, release, admin registration | takeover, sweep, release and claims of the same rows; the stale boundary |
| Retention (`queries/retention.rs`) | the same tables | purge terminal rows, prune stale registrations | the foreign key of `lock_by` against claims in flight |
| Local leases (`lease.rs`) | per storage and name: `retired`, `registered`, settled and pending attempts, waiters | retire, begin and settle an attempt, wait, guard | atomics without a common lock, wakers |
| Claim record, acknowledger, middleware (`ack.rs`) | per claim: `done`, `started`, `start_attempted`, a lock; per future: a completion obligation | `LockTaskService::call`, `PgAck::start`, `PgAck::ack` | clones of one task handled concurrently, futures dropped at any await |
| Task streams (`fetcher.rs`) | buffer, poller, registration progress, retry state of the decode stage | poll | a claim in flight when the stream is dropped; bounded release retries |
| Shared listener, NOTIFY (`shared.rs`, `queries/notify.rs`, `notify_event.rs`) | channels per queue, listener thread, generation | subscribe, notify, reconnect, unsubscribe | lost and duplicated notifications, overflow, teardown against registration |
| Sink and push (`sink.rs`, `queries/push.rs`) | buffer, flush in flight, slot of the batch; a caller's own transaction | start_send, flush, close, push, push on a connection | a failed flush, a cancelled flush, idempotency conflicts between uncommitted transactions |
| Waiting for completion (`queries/admin.rs`) | the ids still awaited, absences, backoff, error streak | poll, triage | purge against the poll, a slow answer against the grace |
| Runtime bridge (`runtime.rs`) | none | `run_blocking` | not cancelled when the future is dropped |
| Migrations (`queries/migrations.rs`) | schema version | run once under an advisory lock | concurrent start-up |
| Listings, statistics, results (`queries/admin.rs`, `queries/metrics.rs`, `models.rs`) | the materialized snapshot; `last_result` | list, metrics, refresh, check_status | pages over a table that changes, three SQL texts for one statistic, every writer of the result column |

How they interact. A task stream registers its worker name (first item), then
claims; claimed tasks go through the middleware, which starts the row, runs the
handler and acknowledges. The heartbeat stream renews the registration and sweeps
the claims of stale workers. Every place that can lose a claim holds a guard: the
stream, the dispatch, `PgAck::start`, the acknowledgement. A guard that is dropped
armed *retires* the name in the storage's memory, which stops the renewals, so that
the registration becomes stale and another worker's sweep or takeover recovers the
rows. The database is the only thing processes share; a process shares a lease
between the clones of a storage.

What must hold: an attempt is executed by one claim; an execution costs an attempt;
an acknowledgement writes only the row of its own execution; no active row is left
with a live registration and nobody in memory to answer for it; a healthy worker
keeps its claims; heartbeats start after the registration and stop after a
retirement.

A queue is woken by hints (`NOTIFY`), which may be lost, and by polling, which may
not; a listener that fails says so to every consumer. Enqueueing is buffered
(`PgSink`) or part of the caller's transaction (outbox). Retention deletes what is
finished and unreferenced while all of this goes on.

## 2. Modules

| Module | Models | Run |
|---|---|---|
| `JobLifecycle` | abstract specification: what a queue promises about each task | as a property of `job_queue_tokens` |
| `JobQueue` | both tables, all transactions on them, the claims held in memory, crashes | `job_queue`, `job_queue_tokens` (`MCJobQueue`) |
| `Ownership` | abstract specification: ownership transactions as atomic steps | as a property of `tables` |
| `WorkerFence` | the same transactions statement by statement, with row locks and waits | `tables` (`MCTables`) |
| `ClaimDispatch` | one claim inside its process: flags, obligations, serial lock | `claim_dispatch` |
| `LeaseRegistration` | the lease of one name inside its process: attempts, waiters, wake-ups, both streams | `lease_registration` (`MCLeaseRegistration`), `lease_documented` |
| `SharedListener` | one listener for several queues and consumers | `shared_listener` (`MCSharedListener`) |
| `TaskStream` | both fetchers and the decode stage of one worker | `task_stream` (`MCTaskStream`) |
| `NotifyListener` | trigger, listener thread and stream of one queue | `task_stream` |
| `TaskSink` | buffered enqueueing: sink, flush closure, executor failures | `producer` (`MCProducer`) |
| `WaitForCompletion` | the result stream of `wait_for` | `producer`; `wait_documented`, `absence_documented` (`MCWaitForCompletion`) |
| `LeaseRecovery` | renewals, sweeps and stale deadlines in time | `upkeep` (`MCUpkeep`) |
| `Retention` | the batch loops of purge and prune | `upkeep` |
| `Migrations` | `setup` and `verify_schema` | `upkeep` |
| `Outbox` | enqueueing on the caller's connection, uncommitted keys, deadlocks | `tables` |
| `Subsequence` | the part of a sequence at some of its positions, for `Outbox` and `WaitForCompletion` | `tables`, `producer` |
| `TaskListing` | listings, their filters and conversions | `tables` |
| `QueueStats` | statistics, three SQL texts, the snapshot and its refresh | `tables` |
| `TaskResults` | the result column: its writers and `check_status` | `tables` |
| `QueueStatements` | every statement as a whole: several rows and queues, LIMIT, ORDER BY, SKIP LOCKED, i32 edges | through the next three |
| `WorkerSpecs`, `FetchSpecs`, `LifecycleSpecs` | the programs, fixtures and expectations of `src/query_specs` | `tables` |
| `JobQueueProofs`, `WorkerFenceProofs`, `ClaimDispatchProofs`, `LeaseRegistrationProofs`, `SharedListenerProofs`, `TaskStreamProofs` | theorems about the module each is named after | TLAPS |
| `TaskStreamProofs` | also theorems about `NotifyListener` | TLAPS |
| `ProducerProofs` | theorems about `TaskSink`, `Outbox` and `WaitForCompletion`, lemmas about `Subsequence` | TLAPS |
| `UpkeepProofs` | theorems about `Retention`, `LeaseRecovery`, `Migrations`, `TaskResults`, `TaskListing` and `QueueStats` | TLAPS |

Three views of one table. `JobQueue` takes a transaction as a step and one row at a
time, for the life of a task; `QueueStatements` takes a statement over a whole table,
for what it selects and in which order; `WorkerFence` takes one statement of a
transaction as a step, for locks and snapshots. `WorkerFence` implements `Ownership`,
which is how `JobQueue` reads the same transactions: that one SQL transaction may be
one action is itself checked.

Worlds. Where one run is about several components or several instances of one, its MC
module instantiates them side by side and chooses one in its initial state: `world` is
a variable that never changes, `MCNext` lets only the chosen component step, and the
others keep one idle state. Such components do not share state in the code either, or
only the tables `JobQueue` already models; the worlds are a way to check them with one
configuration, not a composition. The same is true of `kind` in `ClaimDispatch` (the
ways the clones of a claim are handled) and `endless` in `TaskStream` (a poll strategy
that ends, or one that does not).

A comment "Mutated form" precedes an operator that no specification uses: it is the
definition below it with a plausible mistake, kept to show that a property notices.

### JobQueue

`jobs`, `lease_token` and `last_seen` are the tables; `claims` holds the
`ClaimAttempt` records (epoch and stage); `registering`, `retired` and `crashed`
are process memory; `starts` is a history of rows moved to `Running`.

- One SQL transaction is one action. Every transaction takes the worker row before
  any job row (`FOR KEY SHARE` for claims, starts and acknowledgements, `FOR UPDATE`
  for takeover, release, sweep and prune), which makes them serialisable. The
  startup sweep and the registration are two transactions and two actions.
- A batch is a sequence of rows; a takeover and a release recover all the claims of
  a name in one step, as the code does; a startup sweep recovers a subset (its LIMIT).
- A storage is identified with its lease token. `None` is a caller without one
  (`get_jobs`, the low-level fetcher, `lock_task`, `PgAck::new`): the foreign key
  demands a registered name, nothing checks a token, and no lease is retired.
- `FetchUnconfirmed`, `LockUnconfirmed`, `StartUnconfirmed` and `AckUnconfirmed`
  commit while the client sees an error or is dropped; they may commit after a local
  retirement, because `run_blocking` does not cancel a transaction in flight.
- `lock_at` is truncated to a second (`Second` clock units), so two claims can carry
  the same epoch after a release within the second. Stale deadlines are compared in
  clock units, so they may be shorter than a second.
- A released row keeps its place with `last_seen` 0; the clock starts at `StaleAfter`
  so that 0 is stale, like the Unix epoch.
- A release keeps the attempts of a `Queued` row; a sweep and a takeover charge it
  (`Recovery::charges_unstarted`). The comments at `fetch.rs:62-67` and `230-233`, which
  say that a recovered `Queued` row is not charged, are about a release.
- `lock_task` of a `Running` row by its owner is the documented idempotent
  exception; such a claim has the stage `relocked`.
- A purged task id is not used again (ULIDs). One queue: queues share no rows.

### ClaimDispatch

One claim and several clones of its task. A step ends at every access to a shared
flag and at every await; futures are dropped only at awaits; the lock of an
acknowledgement is freed before its guard is dropped, as Rust drops them. The row is
reduced to what this claim's statements tell apart: `Queued`, `Running`, `Taken`
(a later claim with an equal epoch started it), `Lost`, `Acked`, `Stolen`. A consumer
that executed a task and has not acknowledged it yet owes the result itself: the
crate documents that it does not manage that interval, and the properties name it
(`Owed`). Acknowledging without a start is `AckTask` of a `Queued` row in `JobQueue`.

### LeaseRegistration

The lease of one name, shared by workers on clones of a storage. Every atomic load
and store is a step; the waiter list is a set that is taken as a whole;
`finish_registration` is its four steps in their order; `Registration::poll` is two
readings of `is_settled` around the insertion of the waker. `LeaseStream::poll_next`
checks the lease first and acts later in the same poll (`checked`, and `due` for a
heartbeat), so a retirement can fall in between. Registrations are sent and commit on
their own, also for a dropped stream. `excused` is a history of refusals and losses.

### WorkerFence and Ownership

A session is a database connection; `tx` holds its transaction: the next statement
(`pc`), the registrations and rows it has locked, the candidates it still has to lock.
`Following` is the order of the statements of each operation. A lock that is refused
is a step that is not enabled; `WaitsFor` says for whom. The decision of a statement
that waited is taken in the step that gets the lock, on the row as it then is, as
READ COMMITTED re-evaluates it. A takeover and a release take their candidates from a
snapshot and then lock them one by one in the order of ids, looking again at each; a
sweep, a prune and a claim skip what is held. `CutOff` ends a transaction at any
statement. `tok` is a history of the token a claim was made under. Callers without a
token are left to `JobQueue`, except an acknowledgement without one.

### QueueStatements, WorkerSpecs, FetchSpecs, LifecycleSpecs

A behaviour is a program, a sequence of calls against a fixture; the state is the two
tables, what the calls returned, and the rows an open transaction holds. The fixtures,
characteristics and expectations come from `src/query_specs`, whose tests list some of
the combinations; the runs take the whole product. `I32Max` stands for the width of
the counters: overflow is an error of the statement, as in PostgreSQL.

### LeaseRecovery

Time in ticks. A worker's two loops wait `keep_alive` after the previous statement
ended; a statement has a duration; the settings are those `validate_liveness` admits.
A stopped worker's last statements may still be executed (`LateRenewal`, `LateClaim`).

### TaskStream

The stream as it is composed, `select(lazy, eager)` under the decode stage. A claim is
a task and the number of the claim; a transaction that was sent commits or fails on its
own, with any part of the claimable rows up to the batch (`FOR UPDATE SKIP LOCKED`). A release is tried `RetryLimit` times, then the lease is retired. A drop is
possible at every await.

### NotifyListener, SharedListener

The trigger announces the due rows of an INSERT in chunks, a row's chunk being its rank
among the due rows of its queue divided by the chunk size; `json_agg` has no `ORDER BY`, so
the ids of a chunk, and the chunks, come in any order. The listener thread decodes, filters
and sends into a bounded channel; errors are published beside the channel. In
`SharedListener` what happens under the registry lock is one action, except the
broadcast of an error, which consumers' polls interleave with.

### TaskSink, Outbox

A flush closure runs on the blocking pool and outlives its sink; the batch lies in a
slot that the closure or the sink empties, once. `Outbox` takes an INSERT row by row,
because rows wait for uncommitted keys of others; a deadlock aborts one of them.
`insert_reporting_conflicts` walks the submitted keys and uses up inserted rows; the
model says which submission is the first to find none left, by counting (`Submissions`,
`Inserted`).

### WaitForCompletion, TaskResults, TaskListing, QueueStats, Retention, Migrations

A poll is two steps, reading and sorting, with time in between; the loop that sorts is
the subsequences of the settled and of the other ids. A result text is the
sequence of the byte offsets at which its characters end. A page is read from any sequence its ORDER BY
allows, so that ties are really ties. Statistics are one operator per SQL text, over
the rows that text scans. A prune's two statements have their own snapshots. A
database is what `schema_contract.sql` tells apart, and a history of the migrations
really executed on it.

## 3. Runs

| Run | Question | Bounds |
|---|---|---|
| `job_queue` | do the row shape, the foreign key, the budget and the epochs survive all callers, with and without tokens? | 1 name, 2 storages and `None`, 1 task with 2 attempts, 2 claims, clock 3, 2 units a second |
| `job_queue_tokens` | with tokens everywhere, is a claim ever stranded or taken from a healthy worker, and does each task follow `JobLifecycle`? | as above without `None`, clock 4 |
| `claim_dispatch` | is a claim answered for, recorded once, and only for its own execution; does every acknowledgement end and every dispatch settle? | 2 clones of every two kinds, 2 acknowledgements each |
| `lease_registration` | what releases a heartbeat, what may it report and renew, is a wake-up lost, does a retirement reach it? | 2 task streams and a heartbeat; 1 task stream and 2 heartbeats; 1 worker with release and takeovers |
| `lease_documented` | does a heartbeat wait for its own worker's attempt, as documented? (violated) | 2 task streams, 1 heartbeat |
| `shared_listener` | is the flag exact, is anyone cut off or deaf without being told, are errors seen, does an unused listener end? | 2 consumers, 1 queue, 2 listeners, channel of 1 |
| `task_stream` | does a claim hide behind a live heartbeat, get delivered and released, or wait unannounced for ever? Is every due row announced once and every end explained? | 2 tasks, 1 undecodable, 2 permits or endlessly many, 2 claims a task, buffer 2, 1 retry; a listener of 6 rows, 2 queues, chunks of 2, channel of 1 |
| `producer` | is a task lost, doubled, reordered or promised too early, also by a dropped sink? Has every awaited id one answer, for a cause, and does a wait end? | a sink and its clone, batches of 2, 2 flushes; 2 ids, one twice, grace 2, backoff to 5 |
| `wait_documented` | is the grace kept between two polls, as documented? (violated) | the same ids |
| `absence_documented` | do two polls in a row that miss an id end its wait, as documented? (violated) | the same ids |
| `upkeep` | is a worker that renews when due ever stale, is every orphan recovered, what may be deleted and is anything left, is the schema complete, once, or untouched? | 3 workers and 1 task, 2 workers and 2 tasks that run late; 2 purges with limit 0; 2 prunes and a purge, limit 1; 3 processes and a verifier on every recognised kind of database |
| `tables` | do transactions that lock, wait and look again have the effect of atomic ones; does a claim of a replaced token survive or arrive late; is there a deadlock? Is what was answered what is stored; is a row hidden or shown twice; do the statistics agree; is the verdict the last one; do the statements do what the repository's matrices expect, on every combination? | 3 connections, 1 name, 2 tokens and 2 tasks under locks; 2 connections, 3 keys, 2 pushes of up to 2; 3 tasks, pages of 1 and 2, u32 as 0..15 and i32 to 7; 2 tasks, 3 hours, 2 refreshers; cap 4; the fixtures of `src/query_specs`, batches of 3 |

What the properties are made of. A property of a run is often a conjunction of named
parts, each stated with its own comment where the component or its world is defined, and
each with its own mutated form of the code that breaks it:

| Property | Parts |
|---|---|
| `AcksOwnExecution` | `ResultBacked`, `OwnAckNeverStale` |
| `ClaimProgress` | `AckEnds`, `ClaimSettles` |
| `HeartbeatForCause` | `UnregisteredForCause`, `AtMostOneLateRenewal` |
| `HeartbeatPromise` | `PendingAttemptKept`, `BeatReleased`, `RetirementEndsBeats` |
| `NeverCutOff` | `NeverSevered`, `DeafAreTold` |
| `ListenerProgress` | `ErrorObserved`, `IdleListenerEnds` |
| `FetchExact` | `PermitPerFetch`, `DeliveredOrReleased` |
| `HintsSound` | `ListenerTypeOK` with the channel's bound, `AnnouncedOnce`, `HintsAreOwn`, `EndIsExplained`, `NoSleepOnError` |
| `StreamPromise` | `StaleStopsDelivery`, `ReleaseSettled`, `PolledWithoutHints`, `DroppedListenerEnds` |
| `PushExact` | `TaskSink`'s `TypeOK`, `NothingLost`, `NeverTwice`, `PromiseKept`, `OrderKept` |
| `AnsweredForCause` | `OneAnswerPerId`, `NotFoundForCause`, `GivesUpForCause` |
| `ProducerEnds` | `FlushSettled`, `DroppedFlushRuns`, `WaitReturns` |
| `RegistrationsKept` | `PromptFresh` and the foreign key of `lock_by` under recovery and retention |
| `SetupSound` | `SetupCompletes`, `NotReplayed`, `VerifySound` |
| `UpkeepExact` | `PurgeWindow`, `PurgeDrains`, `PruneDrains`, `AllOrNothing` |
| `UpkeepEnds` | `OrphansRecovered`, `PurgeEnds`, `SetupEnds` |
| `OutboxExact` | `TableExact`, `OrderAndTasks` |
| `ReadersSound` | `WalkExact`, `PageInRange`, `FailureForCause`, `StatsNeverDropped`, `StatsAgree` (`PagesAgree`, `TotalsAgree`), `WorkersListed`, `RefreshAccepted` |
| `ResultsSound` | `PayloadBounded`, `VerdictIsLast`, `ChargedIsExplained`, `StatusSound` |
| `StatementSpecs` | one part per matrix of `src/query_specs` (`OrphanRecoverySpec` to `PruneSpec`) |
| `AnswersExact` | `ConflictKeysExact`, `SnapshotAgrees` |

A type invariant, where a module has one, is a conjunct of one of its run's invariants.

Why the bounds are enough. Two storages of one name are the smallest takeover, two
claims of one task the smallest race of epochs, a budget of two has a retry and an
exhaustion, and a clock that crosses a second boundary and a stale deadline gives
equal and unequal epochs. Two names, or two tasks with two storages, exceed TLC's
reach in `JobQueue`; `WorkerFence` has two tokens and two tasks of one name, and `Ownership`
treats names alike. A deadlock of row locks needs two transactions and two rows; a third
lets one wait behind a waiter. Two clones cover every pair of ways to handle a claim
concurrently, because `kind` ranges over all of them. Two streams are needed
for one attempt to be refused while the other is pending; two heartbeats for the list
of waiters. Channels of one slot are full after one hint. Two connections and two keys
are the smallest opposite order. A limit of one makes every second row another batch.
Integer widths are scaled down, with values on both sides of each edge.

`CHECK_DEADLOCK FALSE` where the modelled part legitimately stops: a settled claim, an
ended worker, stream, listener or wait, a bounded number of pushes, a finished setup.
The `JobQueue` runs check deadlock. (TLC's deadlock, a state with no step, says nothing about
`WorkerFence`, where a connection can always be cut off: `NoWaitCycle` is about waits.) The one
symmetry of `tables` is of connections and tokens under locks, and of pushed ids.

Fairness is stated in the MC modules, next to the world it is about. `ClaimDispatch`: the executor polls a future that can make progress,
statements finish and handlers return; drops, errors and new calls are not assumed.
`LeaseRegistration`: a task stream whose first poll happened is polled until it ends or
is dropped, statements finish, timers fire, woken tasks are polled. `LeaseRecovery`:
time passes, and the loops of the workers that stay alive run when they are due; who
stays alive is not assumed beyond one. `TaskStream`: the consumer polls and statements
end; strong fairness that a claim succeeds, with no row locked by others, now and then
and that `select`, which alternates, gives each fetcher its turn. `NotifyListener` and `SharedListener`: the
listener thread runs and consumers poll. `TaskSink`: closures submitted to the pool run
and the caller polls its flush. `WaitForCompletion`: the stream is polled, time passes,
tasks that exist finish. `Retention`: a purge goes on; the queue is not assumed to
pause. `Migrations`: a process that called `setup` goes on or fails. `JobQueue` and
`WorkerFence` state none: PostgreSQL promises nothing to a `FOR UPDATE` waiter while
new `KEY SHARE` locks keep arriving.

### The findings

`lease_documented` is violated. `lease.rs` says that a heartbeat created before an
attempt waits for that attempt to settle, and `docs/lifecycle.md` that the heartbeat
waits for the first item of the task stream. With two workers of a name on clones of
a storage, the refusal or drop of one attempt releases the other worker's heartbeat
if that worker has not begun its own attempt yet; its first renewal, one
`keep_alive` later, can then find no row while the registration is being committed.
Attempts that have begun are protected (`PendingAttemptKept`).

`wait_documented` is violated. `admin.rs` says that an id is reported missing when a
poll does not find it and a poll at least one backoff interval later does not either.
The code measures the interval between the moments the answers are sorted: a late
answer makes it longer than the time between the two readings of the table, and an id
whose enqueue committed between them is reported missing.

`absence_documented` is violated, by the other side of the same rule. The documentation of
`triage_poll` and of `PollTriage` (`queries/admin.rs:157-168`), `docs/lifecycle.md:334-335` and a
test (`tests/postgres_queries.rs:1852`) say that an id's wait ends once two consecutive polls
missed it. A poll that yields a sibling's result is followed at once by the next; when both miss
the id, the code keeps waiting, because the absence is younger than the grace. The comment in
`wait_for_completion` (`queries/admin.rs:251-254`) says why, so the code is meant and the other
texts are out of date. `NotFoundForCause` states the rule of the code: two such polls are
necessary, a whole grace between them as well.

## 4. Proofs

Everything below is for every value of the constants under the named assumptions of the
modules. Each inductive invariant was an invariant of a TLC run first, on an instance
with at least two of everything that can race.

| Module | Theorem | Says |
|---|---|---|
| `JobQueueProofs` | `TypeCorrect`, `RowsWellShaped`, `OwnersRegistered`, `ExecutionsCharged`, `StartedClaimsExact`, `SingleExecution` | always `TypeOK`, `RowShape`, `OwnerRegistered`, `ChargedExecutions`, `StartedClaimExact`, `OneExecutionPerAttempt` |
| | `NothingStranded`, `HealthyClaimsKept`, `QueueImplementsLifecycle` | always `NoStrandedClaim`; `HealthyClaimKept`; the refinement of `JobLifecycle` |
| `WorkerFenceProofs` | `ClaimsCurrent`, `DeadlockFree`, `Atomic` | always `ClaimsAreCurrent`, `NoWaitCycle`; the refinement of `Ownership` |
| `ClaimDispatchProofs` | `TypeCorrect`, `ObligationAlwaysKept`, `RetiredOnlyForCause`, `AcknowledgesOwnExecution` | always `TypeOK`, `ObligationKept`, `RetiredForCause`, `AcksOwnExecution` |
| `LeaseRegistrationProofs` | `WakeupsArrive`, `HeartbeatSafe`, `AttemptsAwaited` | always `NoLostWakeup`, `HeartbeatForCause`; `PendingAttemptKept` |
| `SharedListenerProofs` | `ListenerAliveExact`, `ConsumersNeverCutOff`, `ErrorsWake` | always `AliveExact`, `NeverCutOff`, `NoLostErrorWakeup` |
| `TaskStreamProofs` | `DeliveryExact`, `ClaimsAccounted`, `NothingDeliveredStale` | always `FetchExact`, `ClaimAccounted`; `StaleStopsDelivery` |
| | `HintsAreSound` | always `NotifyListener`'s `HintsSound` |
| `ProducerProofs` | `PushesExact` | always `PushExact` |
| | `OutboxIsExact`, `ConflictsNamed` | always `OutboxExact`; every step `ConflictKeysExact`'s |
| | `WaitAnswersForCause` | always `AnsweredForCause` |
| `UpkeepProofs` | `NoReferencePruned`, `PurgesInWindow`, `PurgesDrain`, `PrunesDrain` | always `Retention`'s `TypeOK` (the foreign key); every step `DeletesInWindow`, `ReturnsDrained`, `ReturnsPruned` |
| | `PromptWorkersFresh`, `PromptClaimsKept` | always `LeaseRecovery`'s `TypeOK` and `PromptIsFresh`; no step takes a claim from a worker that renews when due |
| | `SetupIsSound`, `SetupCommitsAllOrNothing` | always `SetupSound`; `AllOrNothing` |
| | `ResultsAreSound` | always `TaskResults`' `ResultsSound` |
| | `ListingsExact` | always `TaskListing`'s `TypeOK`, `WalkExact`, `PageInRange`, `FailureForCause` |
| | `StatsAreSound` | always `QueueStats`' `TypeOK`, `StatsNeverDropped`, `PagesAgree`, `WorkersListed`, `RefreshAccepted` |
| | `SnapshotIsExact` | every step `QueueStats`' `RefreshAgrees` |

Assumptions. Null values differ from what they stand beside; counters and clocks are
naturals; budgets are positive (`jobs_max_attempts_check`); tables are finite where a
batch or a wait is counted (`FenceAssumption`, `TaskAssumption`, `RetentionAssumption`,
`RecoveryConstants`); ids are ordered where a statement orders by them; a payload carries a
sequence of ids (`PayloadAssumption`); a task is offered to one sink once, because its id
is fresh (`SinkAssumption`). Limits are any integer, as the retention API accepts them.
A wait's backoff is positive and not above its cap (`WaitAssumption`); the value for no
journal is not one (`SetupAssumption`); `OutboxAssumption` is about null values and bounds.
TLC evaluates all of them: as `ASSUME`s of the extended modules, or, for the
modules that are instantiated, in `MCProducer`, `MCUpkeep` and `MCTables`. `ListenAssumption`: ids are
ordered, a statement inserts finitely many rows, and a chunk (100) is not larger than what the
listener reads of a payload (65536). `ResultAssumption`: a character has at least one byte.
`ListingAssumption` and `StatsAssumption`: ids and times are ordered, tables are finite, and SQL
NULL is no number, worker or rendered time.

### The invariants and why they are needed

`JobQueue`. `QueueInv` is the conjunction of its six invariants, which need each
other: exactness of a started claim needs the row shape (an owner that is not null)
to rule out a match with a freed row, and the single execution of an attempt needs
exactness of both claims. The argument is about writes, not about actions:
`SoundWrite` says that a row never loses attempts, keeps its epoch while it stays
`Running`, pays an attempt to leave `Running`, and keeps its shape. One lemma per
group of statements shows that every write is sound (`SoundStep`); a sound step
keeps the exactness of the claims that were already started; and an action that
starts a claim is looked at by itself, where the status `Queued` required by
`start_task` excludes another started claim of the same attempt. The refinement uses
the same shape: `LifeWrite` is what one task may go through in a step and `LifeStep` that
every action is one for every task. `NoStrandedClaim` is inductive beside `QueueInv`: each
row owned under a lease that renews (`Managed`) is backed by a held claim with its epoch
(`Backs`), and an action either keeps the claim that backs a row, or retires the lease, or frees the row.
`HealthyClaimKept` looks at the rows an action may free: its own, or those of a stale or
replaced registration.

`WorkerFence`. `FenceInv` says of each transaction what its locks have established
(`RegHeld`, `RowsHeld`, `PcOK`), and of each pair that their locks agree (`PairOK`). A
commit changes only rows it holds, so what another transaction knows of its own rows
survives (`JobStable`, `RegStable`). `ClaimsAreCurrent` alone is not inductive: that a
takeover has freed every claim of the old token at its commit depends on what the
lock of the registration has kept out since its snapshot. A cycle of waits would have a
greatest row that is held and waited for; the holder waits for a greater one, or
for a registration, which no holder of a row does.

`ClaimDispatch`. `ClaimInv` says of each clone what its place in `start_claim` and in
`PgAck::ack` tells of the flags, the row and the lease (`StartInv`, `AckInv`), and of the
row who answers for it (`RowInv`). Flags, retirement and faults only grow, so a step of one
clone leaves the others' part alone (`StartStable`, `AckStable`).

`LeaseRegistration`. `LeaseInv`: the counter of pending attempts is the cardinality of the
attempts that began and did not reach their decrement (`PendingExact`); whatever settled
left a registration or a cause (`CauseKept`); what the place of a stream tells
(`StreamInv`); what a heartbeat has loaded still holds, or it is woken again (`BeatInv`).

`SharedListener`. `ListenerInv`: at most one listener runs or is being spawned
(`OneListener`); the registry holds consumers under their own queue, the live ones all
(`RegistryExact`); a failing listener has told or will tell every live consumer
(`Informed`); the waker of a task that will sleep is registered, or it was woken since
(`WakeInv`).

`TaskStream`. `StreamInv`: the state of a fetcher says whether it has a claim out or rows
buffered (`FetcherInv`); a claim is in one place (`Separate`) and was made (`Past`); a
release that matched has taken the row (`ReleaseInv`); every row still claimed is in the
stream or delivered while the lease is active (`Accounted`).

`NotifyListener`. `HintInv`: a thread that leaves has published an error or was cancelled, and
the cancel flag is up exactly when the consumer is gone; a task about to sleep has its waker
registered or was woken since, and an error it has not seen is still to wake it. `PathInv`
follows the ids: a committed statement was announced by one notification per chunk and
nothing else; what waits on the connection is such a notification; what the thread holds and
what the channel carries are due ids of the queue. Two rows of a queue have different ranks,
so the rows of a chunk map one to one into the remainders of the chunk size
(`ChunkSmall`), and no payload is longer than the listener reads. A row has one chunk, hence
one announcement (`OnceOf`).

`TaskSink`. `SinkInv` follows an accepted task from the buffer through the slot and the
batch of a flush into the table: no place, and no two places one after the other, hold a
task twice or before one that must precede it (`InOrder`); a sink has tasks in one flush
(`OneFlush`); the phase of a flush says where its batch is (`FlushInv`); what a usable
sink accepted is in one of the places (`Kept`, `AcceptedInOrder`).

`Outbox`. `OutboxInv`: a statement has stored what its position in the batch says
(`StatementInv`); the rows of an open transaction are what it was assured, under its own
business row, and no two transactions share one (`TransactionInv`). That a conflict names
exactly the colliding keys needs the unique index as well (`KeyInv`): no key is held by two
of the committed rows and the transactions in flight, and each submitted key up to the
statement's position is stored by someone. `ConflictNames` then counts: a key is reported
when its submissions outnumber the rows inserted under it, which is when it was stored
before or submitted twice.

`WaitForCompletion`. `WaitInv`: the ids awaited are distinct, and with the yielded ones are
all that was asked (`YieldInv`); a recorded absence is never older than the run of polls
that missed the row (`AbsenceInv`), so a grace of the one is a grace of the other; the streak
is the number of failures in a row (`StreakInv`). The subsequences taken by `triage_poll`
and `distinct_ids` are covered by the lemmas about `At`: its length, its elements, its order.

`Retention`. `RetentionInv`: a row older than a cutoff stays finished as long as the purge
knows it (`Finished`); a batch holds the locks of its rows, and is all there was when it is
smaller than its limit (`PurgeInv`, `PruneInv`, from `FullBatch` and `SmallBatch`: the least
ids of a set, if fewer than the limit, are the set); a registration held by a prune has no
claim in progress (`NoClaimUnderLock`).

`LeaseRecovery`. `RecoveryInv`: while a worker renews when due, the age of its registration
and the time until its next renewal add up to at most `keep_alive` (`Fresh`), which
`validate_liveness` keeps below the stale deadline.

`Migrations`. `SetupInv`: the committed database is one whose history can be read from it
(`Known`): a journal holds what was executed and every destructive migration that was, and
a catalog without a journal shows which generation ran (`History`); a transaction holds
the lock and saw the committed database (`TxnInv`), so its commit overwrites nothing. That
each schema `setup` may meet is known is proved from their definitions.

`TaskResults`. `ResultInv`: a row holds a value some writer stores, has an attempt left while
it is claimed, was charged before it ended, and holds an Ok exactly when it is `Done`
(`ResultRow`). That `truncate_error_payload` never cuts within a character, and cuts off
nothing that fits, is `PayloadStored`: the greatest boundary not beyond the cap exists
(`FloorCharBoundary`) and the next one is beyond it, because the ends of characters increase.

`TaskListing`. `WalkInv` counts: `Ahead` is how many rows are before a row. The order is total
because the id breaks ties (`BeforeTotal`), so a row's place in any sequence the ORDER BY allows
is the number of rows ahead of it (`Places`), and a page shows exactly the rows whose number lies
between its offset and the next one (`PageShows`). As long as no row left, a row of the start
that was not shown has at least as many rows ahead of it as the walk has read: rows that enter
only push it back. As long as nothing moved, the rows shown have fewer, hence no repetition.

`QueueStats`. `StatsInv`: a row names a claimant that is registered for its queue, and names one
while it is claimed (`ClaimantsKnown`); a refresher that will run `CONCURRENTLY` found the view
populated, and a view stays so (`StatementFits`). That `LIST_QUEUES_SQL`, `build_metrics_sql` and
the view count the same rows is proved column by column from the three definitions.

### Only model-checked

- Liveness: `ClaimProgress`, `ListenerProgress`, `ProducerEnds`, `UpkeepEnds`, and the
  temporal parts of `HeartbeatPromise` and `StreamPromise`. TLAPS does not reason about
  fairness and `ENABLED` here.
- What recursive functions and folds compute for every input, which needs induction over
  data: `TotalsAgree` of `ReadersSound` (that the queues add up to the global metrics and the days
  to the week) and `StatementSpecs`. TLC evaluates them over bounded inputs. The other parts of
  `ReadersSound` and `AnswersExact` are proved one by one (`ListingsExact`, `StatsAreSound`,
  `SnapshotIsExact`, `ConflictsNamed`).
- `RegistrationsKept` is about several instances at once; its three parts are proved for one
  (`NoReferencePruned`, `PromptWorkersFresh`).

## 5. Plan

Every component of the inventory has its module, and every safety invariant of a component
that is a state machine of its own is proved. What would come next: the totals of the
statistics and the matrices of `StatementSpecs` stated by counting instead of folding, as the
pages of `TaskListing` are, so that they can be proved about as well.

## 6. Not modelled

- Payload codecs beyond success, failure and panic; the wording of errors, their hints
  and their `Display` forms (`error.rs`); the `DB_` size statistics.
- The retry counter the middleware increments for a refused dispatch: it informs
  layers outside the crate.
- The pool and the runtime bridge beyond their contract (transactions in flight are not
  cancelled, an executor may fail before or after a closure ran): a saturated pool
  appears as a failed statement.
- A poisoned registry lock in `shared.rs`: nothing panics while it is held.
- `validate_liveness` refusals: a refused configuration starts nothing.
- Notifications that the migrated trigger does not send: the single `id` of older
  triggers, to which `into_ids` falls back, and payloads that do not parse, which the
  listener skips.
- The decode stage's branch for a claim without id, `lock_at` or attempts
  (`fetcher.rs:221`): every claimed row has them.
- In `check_status`, the errors of an id or a status that does not parse and of a result
  that does not decode into the caller's type (`models.rs:207-209`): `StatusSound` is
  about missing results only.
- The columns of `queue_stats_snapshot` without a counterpart in `queue_stats`
  (`queued_jobs`, `jobs_past_day`, `most_recent_run_at`, `most_recent_done_at`,
  `snapshot_at`): `SnapshotAgrees` compares the shared ones.
- In `LeaseRecovery`, the sweep at the start of a worker and the takeover of one that is
  alive but late, which `JobQueue` has.
- The DDL inside a migration: one migration is one change of the catalog.
- Builders, accessors and trait plumbing in `lib.rs`, and the unit tests inside the
  source files. The tests under `src/query_specs` are modelled as far as they are
  matrices over statements; of the lines the map names, about four in ten are theirs.
  `worker_regressions.rs`, `notification_regressions.rs` and `claim_commit_rejection.rs`
  drive single interleavings that `JobQueue`, `NotifyListener` and `TaskStream` cover.
