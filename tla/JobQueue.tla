------------------------------ MODULE JobQueue ------------------------------
(***************************************************************************)
(* The ownership protocol of one queue: the tables apalis.jobs and         *)
(* apalis.workers, the storages that register worker names and the claims  *)
(* they hold in memory.                                                    *)
(*                                                                         *)
(* Every SQL transaction is one action.  The transactions lock the worker  *)
(* row before any job row and hold it to the commit (KEY SHARE for a       *)
(* claim, a start and an acknowledgement, FOR UPDATE for a takeover, a     *)
(* release, a sweep and a prune), so they are serialisable.  What the      *)
(* client learns of a commit is a separate matter: each claiming, starting *)
(* and acknowledging transaction has a form that commits while the client  *)
(* sees an error or is dropped.                                            *)
(*                                                                         *)
(* A storage is identified with the lease token it mints.  The caller None *)
(* presents no token: the compatibility function get_jobs, the low-level   *)
(* fetcher, lock_task and PgAck::new.  A batch is modelled row by row: the *)
(* rows of a batch do not depend on each other and every prefix of a batch *)
(* is itself a batch another LIMIT or a skipped row lock produces.         *)
(***************************************************************************)
EXTENDS Integers

CONSTANTS
  Task,          \* task ids (ULIDs: an id is never used again)
  Name,          \* worker names
  Storage,       \* storages, each with its own lease token
  Caller,        \* who may claim: storages, and None for callers without a token
  Claim,         \* slots for the claims held in memory: bounds their number
  MaxAttempts,   \* max_attempts of each task
  Delay,         \* delays a task may be enqueued with, in clock units
  Second,        \* clock units per second: lock_at is truncated to a second
  StaleAfter,    \* reenqueue_orphaned_after, in clock units
  MaxTime,       \* bound: the clock stops here
  None,          \* SQL NULL, and the token of a caller that presents none
  NoRow,         \* lease_token of a name that has no row in apalis.workers
  NoClaim        \* an unused claim slot

\* What the process knows of a claim: buffered, start attempted but not known
\* to have succeeded, started, or started by locking a row already Running.
Stage == {"claimed", "attempted", "started", "relocked"}

ClaimRecord == [task : Task, name : Name, storage : Caller,
                lock_at : Nat \union {None}, attempts : Nat, stage : Stage]

\* jobs_max_attempts_check
ASSUME BudgetAssumption == MaxAttempts \in [Task -> Nat \ {0}]

ASSUME ClockAssumption ==
  /\ Delay \subseteq Nat
  /\ Second \in Nat \ {0}
  /\ StaleAfter \in Nat \ {0}
  /\ MaxTime \in Nat

ASSUME NullAssumption ==
  /\ None \notin Name /\ None \notin Storage /\ None \notin Nat
  /\ NoRow \notin Storage /\ NoRow # None
  /\ NoClaim \notin ClaimRecord

ASSUME CallerAssumption == Caller \subseteq Storage \union {None}

VARIABLES
  jobs,          \* apalis.jobs, a row per task
  lease_token,   \* apalis.workers.lease_token, by name
  last_seen,     \* apalis.workers.last_seen, by name
  now,           \* the server clock
  claims,        \* ClaimAttempt records held by the processes
  registering,   \* <<storage, name>>: between the startup sweep and the registration
  retired,       \* <<storage, name>>: names retired in the storage's LeaseRegistry
  crashed,       \* storages whose process died
  starts         \* history: how often a task's row was moved to Running

dbVars  == <<jobs, lease_token, last_seen>>
memVars == <<claims, registering, retired, crashed>>
vars    == <<jobs, lease_token, last_seen, now, claims, registering, retired,
             crashed, starts>>

Status == {"Absent", "Pending", "Queued", "Running", "Failed", "Done", "Killed", "Purged"}
Active == {"Queued", "Running"}

JobRow == [status : Status, attempts : Nat, lock_by : Name \union {None},
           lock_at : Nat \union {None}, done_at : {"null", "set"}, run_at : Nat]

TypeOK ==
  /\ jobs \in [Task -> JobRow]
  /\ lease_token \in [Name -> Storage \union {None, NoRow}]
  /\ last_seen \in [Name -> Nat]
  /\ now \in Nat
  /\ claims \in [Claim -> ClaimRecord \union {NoClaim}]
  /\ registering \in SUBSET (Storage \X Name)
  /\ retired \in SUBSET (Storage \X Name)
  /\ crashed \in SUBSET Storage
  /\ starts \in [Task -> Nat]

NewRow == [status |-> "Absent", attempts |-> 0, lock_by |-> None,
           lock_at |-> None, done_at |-> "null", run_at |-> 0]

\* The clock starts where the epoch, the last_seen of a released row, is stale.
Init ==
  /\ jobs = [t \in Task |-> NewRow]
  /\ lease_token = [n \in Name |-> NoRow]
  /\ last_seen = [n \in Name |-> 0]
  /\ now = StaleAfter
  /\ claims = [c \in Claim |-> NoClaim]
  /\ registering = {}
  /\ retired = {}
  /\ crashed = {}
  /\ starts = [t \in Task |-> 0]

-----------------------------------------------------------------------------
(* Helpers. *)

\* date_trunc('second', statement_timestamp())
ThisSecond == now \div Second

Stale(n) == now - last_seen[n] >= StaleAfter

Registered(n) == lease_token[n] # NoRow

\* worker_registration: the caller's token owns the registration, or the
\* caller presents none and the registration exists.
CurrentWorker(s, n) == IF s = None THEN Registered(n) ELSE lease_token[n] = s

\* WorkerLease::ensure_active; a caller without a storage has no lease.
LeaseActive(s, n) == s = None \/ (s \notin crashed /\ <<s, n>> \notin retired)

\* The process still runs: its transactions in flight commit, whatever became
\* of the lease since ensure_active was called (run_blocking is not cancelled).
InFlight(s) == s \notin crashed

\* Mutated form: a caller without a lease is retired too.
RetireWithoutLease(s, n) == retired \union {<<s, n>>}

\* LeaseGuard::drop, armed.
Retire(s, n) == IF s = None THEN retired ELSE retired \union {<<s, n>>}

\* Mutated form: the claimable predicate reads the budget, not the status.
ClaimableByBudget(t) ==
  /\ jobs[t].status \in {"Pending", "Failed", "Done"}
  /\ jobs[t].attempts < MaxAttempts[t]
  /\ jobs[t].run_at <= now

\* CLAIMABLE_PREDICATE, and due.
Claimable(t) ==
  /\ jobs[t].status \in {"Pending", "Failed"}
  /\ jobs[t].attempts < MaxAttempts[t]
  /\ jobs[t].run_at <= now

\* TERMINAL_PREDICATE
Terminal(t) ==
  \/ jobs[t].status \in {"Done", "Killed"}
  \/ jobs[t].status = "Failed" /\ jobs[t].attempts >= MaxAttempts[t]

Owned(n) == {t \in Task : jobs[t].status \in Active /\ jobs[t].lock_by = n}

Orphaned == {t \in Task : \E n \in Name : t \in Owned(n) /\ Registered(n) /\ Stale(n)}

WriteRow(t, row) == jobs' = [jobs EXCEPT ![t] = row]

\* LEAST(attempts + 1, max_attempts)
Charged(t) == IF jobs[t].attempts + 1 <= MaxAttempts[t]
              THEN jobs[t].attempts + 1 ELSE MaxAttempts[t]

\* Mutated form: recovery always makes the row Pending.
RecoveredPending(t, charged) ==
  LET next == IF jobs[t].status \in charged
              THEN Charged(t) ELSE jobs[t].attempts
  IN [jobs[t] EXCEPT !.status = "Pending", !.attempts = next, !.lock_by = None,
                     !.lock_at = None, !.done_at = "null"]

\* Mutated form: a release keeps the budget of a started claim too.
RecoveredUncharged(t, charged) ==
  LET next == IF charged = Active THEN Charged(t) ELSE jobs[t].attempts
      dead == next >= MaxAttempts[t]
  IN [jobs[t] EXCEPT !.status = IF dead THEN "Killed" ELSE "Pending",
                     !.attempts = next, !.lock_by = None, !.lock_at = None,
                     !.done_at = IF dead THEN "set" ELSE "null"]

\* recover_owned for one row of a worker; `charged` holds the statuses that
\* consume an attempt: both, but only Running when the worker released its
\* registration (Recovery::charges_unstarted).
Recovered(t, charged) ==
  LET next == IF jobs[t].status \in charged
              THEN Charged(t) ELSE jobs[t].attempts
      dead == next >= MaxAttempts[t]
  IN [jobs[t] EXCEPT !.status = IF dead THEN "Killed" ELSE "Pending",
                     !.attempts = next, !.lock_by = None, !.lock_at = None,
                     !.done_at = IF dead THEN "set" ELSE "null"]

RecoverOwned(S, charged) ==
  jobs' = [t \in Task |-> IF t \in S THEN Recovered(t, charged) ELSE jobs[t]]

\* The predicate every statement of a claim pins: owner, claim timestamp and
\* attempts, on an active row.
EpochHolds(k) ==
  /\ jobs[k.task].status \in Active
  /\ jobs[k.task].lock_by = k.name
  /\ jobs[k.task].lock_at = k.lock_at
  /\ jobs[k.task].attempts = k.attempts

\* The predicate of ack_task and of fail_undecodable_task: the epoch, and the
\* token of a caller that presents one.
AckMatches(k) ==
  /\ k.storage # None => CurrentWorker(k.storage, k.name)
  /\ EpochHolds(k)

\* The obligation of claim c ends: its slot is free again.
Forget(c) == claims' = [claims EXCEPT ![c] = NoClaim]

Held(c) == claims[c] # NoClaim

\* record_claim
NewClaim(s, n, t, lockAt, stage) ==
  [task |-> t, name |-> n, storage |-> s, lock_at |-> lockAt,
   attempts |-> jobs[t].attempts, stage |-> stage]

-----------------------------------------------------------------------------
(* Enqueueing and retention. *)

\* push: a new row is Pending with no attempt consumed.
Enqueue(t, d) ==
  /\ jobs[t].status = "Absent"
  /\ WriteRow(t, [jobs[t] EXCEPT !.status = "Pending", !.run_at = now + d])
  /\ UNCHANGED <<lease_token, last_seen, now, memVars, starts>>

\* purge_terminal_batch: delete a terminal row.
Purge(t) ==
  /\ Terminal(t)
  /\ WriteRow(t, [jobs[t] EXCEPT !.status = "Purged", !.lock_by = None,
                                 !.lock_at = None, !.done_at = "null"])
  /\ UNCHANGED <<lease_token, last_seen, now, memVars, starts>>

\* Mutated form: only active rows keep a registration.
PruneWorkerOfHistory(n) ==
  /\ Registered(n) /\ Stale(n)
  /\ Owned(n) = {}
  /\ lease_token' = [lease_token EXCEPT ![n] = NoRow]
  /\ UNCHANGED <<jobs, last_seen, now, memVars, starts>>

\* prune_workers: delete a stale registration no job names, terminal history
\* included; validate_prune_window keeps the window at least StaleAfter.
PruneWorker(n) ==
  /\ Registered(n) /\ Stale(n)
  /\ \A t \in Task : jobs[t].lock_by # n
  /\ lease_token' = [lease_token EXCEPT ![n] = NoRow]
  /\ UNCHANGED <<jobs, last_seen, now, memVars, starts>>

-----------------------------------------------------------------------------
(* Registrations. *)

\* First transaction of initial_heartbeat: the startup sweep, whose LIMIT and
\* SKIP LOCKED leave it any subset of the orphaned rows.
StartupSweep(s, n, S) ==
  /\ LeaseActive(s, n)
  /\ <<s, n>> \notin registering
  /\ RecoverOwned(S, Active)
  /\ registering' = registering \union {<<s, n>>}
  /\ UNCHANGED <<lease_token, last_seen, now, claims, retired, crashed, starts>>

\* Mutated form: the registration takes the name over from a live incumbent.
RegisterOverLive(s, n) ==
  /\ <<s, n>> \in registering
  /\ LET lost == Registered(n) /\ (lease_token[n] # s \/ Stale(n))
     IN RecoverOwned(IF lost THEN Owned(n) ELSE {}, Active)
  /\ lease_token' = [lease_token EXCEPT ![n] = s]
  /\ last_seen' = [last_seen EXCEPT ![n] = now]
  /\ registering' = registering \ {<<s, n>>}
  /\ UNCHANGED <<now, claims, retired, crashed, starts>>

\* Second transaction of initial_heartbeat, register_worker_blocking.  It is
\* in flight on a blocking thread: a retirement in between does not stop it.
Register(s, n) ==
  /\ <<s, n>> \in registering
  /\ ~Registered(n) \/ lease_token[n] = s \/ Stale(n)
  /\ LET lost == Registered(n) /\ (lease_token[n] # s \/ Stale(n))
     IN RecoverOwned(IF lost THEN Owned(n) ELSE {}, Active)
  /\ lease_token' = [lease_token EXCEPT ![n] = s]
  /\ last_seen' = [last_seen EXCEPT ![n] = now]
  /\ registering' = registering \ {<<s, n>>}
  /\ UNCHANGED <<now, claims, retired, crashed, starts>>

\* AlreadyRegistered (a live incumbent, or a busy advisory lock) or a database
\* error: nothing is written.
RegisterRefused(s, n) ==
  /\ <<s, n>> \in registering
  /\ registering' = registering \ {<<s, n>>}
  /\ UNCHANGED <<dbVars, now, claims, retired, crashed, starts>>

\* register_worker_admin: a row without a token, renewed only while it has none.
AdminRegister(n) ==
  /\ lease_token' = [lease_token EXCEPT ![n] = IF Registered(n) THEN @ ELSE None]
  /\ last_seen' = [last_seen EXCEPT ![n] = IF lease_token[n] \in Storage THEN @ ELSE now]
  /\ UNCHANGED <<jobs, now, memVars, starts>>

KeepAlive(s, n) ==
  /\ LeaseActive(s, n)
  /\ lease_token[n] = s
  /\ last_seen' = [last_seen EXCEPT ![n] = now]
  /\ UNCHANGED <<jobs, lease_token, now, memVars, starts>>

\* reenqueue_orphaned, run by any storage's heartbeat stream, for one row.
Sweep(t) ==
  /\ t \in Orphaned
  /\ RecoverOwned({t}, Active)
  /\ UNCHANGED <<lease_token, last_seen, now, memVars, starts>>

\* The local half of PgReleaser::release_worker, and the drop of a registered
\* task stream: the name is retired in this storage.
RetireWorker(s, n) ==
  /\ LeaseActive(s, n)
  /\ retired' = Retire(s, n)
  /\ UNCHANGED <<dbVars, now, claims, registering, crashed, starts>>

\* The transaction of release_worker, after the local retirement.
ReleaseWorker(s, n) ==
  /\ s \notin crashed /\ <<s, n>> \in retired
  /\ lease_token[n] = s
  /\ RecoverOwned(Owned(n), {"Running"})
  /\ lease_token' = [lease_token EXCEPT ![n] = None]
  /\ last_seen' = [last_seen EXCEPT ![n] = 0]
  /\ UNCHANGED <<now, memVars, starts>>

\* The process of storage s dies: everything it held in memory is gone.
Crash(s) ==
  /\ s \notin crashed
  /\ crashed' = crashed \union {s}
  /\ claims' = [c \in Claim |-> IF Held(c) /\ claims[c].storage = s THEN NoClaim ELSE claims[c]]
  /\ registering' = {r \in registering : r[1] # s}
  /\ UNCHANGED <<dbVars, now, retired, starts>>

-----------------------------------------------------------------------------
(* Claims. *)

\* What fetch_next, queue_by_id and get_jobs require before they claim.
MayFetch(s, n, t) ==
  /\ CurrentWorker(s, n)
  /\ Claimable(t)

\* The claiming UPDATE of fetch_next, queue_by_id and get_jobs.
Fetched(n, t) ==
  [jobs[t] EXCEPT !.status = "Queued", !.lock_by = n, !.lock_at = ThisSecond,
                  !.done_at = "null"]

FetchNext(s, n, t, c) ==
  /\ LeaseActive(s, n)
  /\ MayFetch(s, n, t)
  /\ ~Held(c)
  /\ WriteRow(t, Fetched(n, t))
  /\ claims' = [claims EXCEPT ![c] = NewClaim(s, n, t, ThisSecond, "claimed")]
  /\ UNCHANGED <<lease_token, last_seen, now, registering, retired, crashed, starts>>

\* The claim commits but its outcome never reaches the stream: an unconfirmed
\* commit (ClaimOutcomeUnknown) or a dropped fetch.  The name is retired.
FetchUnconfirmed(s, n, t) ==
  /\ InFlight(s)
  /\ MayFetch(s, n, t)
  /\ WriteRow(t, Fetched(n, t))
  /\ retired' = Retire(s, n)
  /\ UNCHANGED <<lease_token, last_seen, now, claims, registering, crashed, starts>>

Quarantined(t) ==
  [jobs[t] EXCEPT !.status = "Killed", !.attempts = Charged(t), !.lock_by = None,
                  !.lock_at = None, !.done_at = "set"]

\* claimed_tasks: a structurally malformed row is quarantined by the
\* transaction that claimed it.
FetchMalformed(s, n, t) ==
  /\ InFlight(s)
  /\ MayFetch(s, n, t)
  /\ WriteRow(t, Quarantined(t))
  /\ UNCHANGED <<lease_token, last_seen, now, memVars, starts>>

Undecodable(t) ==
  [jobs[t] EXCEPT
     !.status = IF jobs[t].attempts + 1 >= MaxAttempts[t] THEN "Killed" ELSE "Failed",
     !.attempts = Charged(t), !.done_at = "set"]

\* fail_undecodable_task: the payload of an unstarted claim does not decode.
FailUndecodable(c) ==
  /\ Held(c) /\ claims[c].stage = "claimed"
  /\ AckMatches(claims[c])
  /\ WriteRow(claims[c].task, Undecodable(claims[c].task))
  /\ Forget(c)
  /\ UNCHANGED <<lease_token, last_seen, now, registering, retired, crashed, starts>>

\* Mutated form: locking a row again renews its claim timestamp.
LockedRestamped(n, t) ==
  [jobs[t] EXCEPT !.status = "Running", !.lock_by = n, !.done_at = "null",
                  !.lock_at = ThisSecond]

\* lock_task_with_token: claim and start in one statement.  A row the name
\* already owns is accepted again and keeps its claim timestamp.
Locked(n, t) ==
  LET own == jobs[t].status \in Active /\ jobs[t].lock_by = n
  IN [jobs[t] EXCEPT !.status = "Running", !.lock_by = n, !.done_at = "null",
                     !.lock_at = IF own THEN @ ELSE ThisSecond]

MayLock(s, n, t) ==
  /\ CurrentWorker(s, n)
  /\ Claimable(t) \/ (t \in Owned(n) /\ jobs[t].run_at <= now)

CountStart(t) ==
  starts' = [starts EXCEPT ![t] = IF jobs[t].status = "Running" THEN @ ELSE @ + 1]

LockTask(s, n, t, c) ==
  /\ LeaseActive(s, n)
  /\ MayLock(s, n, t)
  /\ ~Held(c)
  /\ WriteRow(t, Locked(n, t))
  /\ claims' = [claims EXCEPT ![c] =
       NewClaim(s, n, t, Locked(n, t).lock_at,
                IF jobs[t].status = "Running" THEN "relocked" ELSE "started")]
  /\ CountStart(t)
  /\ UNCHANGED <<lease_token, last_seen, now, registering, retired, crashed>>

\* An unconfirmed lock_task, or the public lock_task, which keeps no record.
LockUnconfirmed(s, n, t) ==
  /\ InFlight(s)
  /\ MayLock(s, n, t)
  /\ WriteRow(t, Locked(n, t))
  /\ retired' = Retire(s, n)
  /\ CountStart(t)
  /\ UNCHANGED <<lease_token, last_seen, now, claims, registering, crashed>>

-----------------------------------------------------------------------------
(* Starting and acknowledging a claim. *)

\* Mutated form: a start accepts a Running row of the epoch.
StartMatchesRunning(k) == CurrentWorker(k.storage, k.name) /\ EpochHolds(k)

\* The predicate of start_task for a claim this process has not started.
StartMatches(k) ==
  /\ CurrentWorker(k.storage, k.name)
  /\ EpochHolds(k)
  /\ jobs[k.task].status = "Queued"

StartRow(t) == /\ WriteRow(t, [jobs[t] EXCEPT !.status = "Running"])
               /\ CountStart(t)

StartTask(c) ==
  /\ Held(c) /\ claims[c].stage \in {"claimed", "attempted"}
  /\ LeaseActive(claims[c].storage, claims[c].name)
  /\ StartMatches(claims[c])
  /\ StartRow(claims[c].task)
  /\ claims' = [claims EXCEPT ![c].stage = "started"]
  /\ UNCHANGED <<lease_token, last_seen, now, registering, retired, crashed>>

\* Mutated form: a start whose commit is unconfirmed keeps the lease.
StartUnconfirmedKeepsLease(c) ==
  /\ Held(c) /\ claims[c].stage \in {"claimed", "attempted"}
  /\ StartMatches(claims[c])
  /\ StartRow(claims[c].task)
  /\ claims' = [claims EXCEPT ![c].stage = "attempted"]
  /\ UNCHANGED <<lease_token, last_seen, now, registering, retired, crashed>>

\* The start commits but the dispatch sees an error or is dropped: the claim
\* stays unstarted and its obligation retires the name.
StartUnconfirmed(c) ==
  /\ Held(c) /\ claims[c].stage \in {"claimed", "attempted"}
  /\ StartMatches(claims[c])
  /\ StartRow(claims[c].task)
  /\ claims' = [claims EXCEPT ![c].stage = "attempted"]
  /\ retired' = Retire(claims[c].storage, claims[c].name)
  /\ UNCHANGED <<lease_token, last_seen, now, registering, crashed>>

\* ClaimLost or WorkerRetired: the handler does not run, nothing is owed.
StartRefused(c) ==
  /\ Held(c) /\ claims[c].stage \in {"claimed", "attempted"}
  /\ \/ ~LeaseActive(claims[c].storage, claims[c].name)
     \/ ~StartMatches(claims[c])
  /\ Forget(c)
  /\ UNCHANGED <<dbVars, now, registering, retired, crashed, starts>>

\* calculate_status, from the attempts of the claim and the handler's result.
CalculateStatus(t, attempts, res) ==
  IF res = "Ok" THEN "Done" ELSE IF MaxAttempts[t] > attempts THEN "Failed" ELSE "Killed"

Acked(k, res) ==
  [jobs[k.task] EXCEPT !.status = CalculateStatus(k.task, k.attempts + 1, res),
                       !.attempts = k.attempts + 1, !.done_at = "set"]

\* PgAck::ack writes nothing for a claim whose start was refused; a consumer
\* that never calls start acknowledges a Queued row.
MayAck(c) == Held(c) /\ claims[c].stage # "attempted"

AckTask(c, res) ==
  /\ MayAck(c)
  /\ AckMatches(claims[c])
  /\ WriteRow(claims[c].task, Acked(claims[c], res))
  /\ Forget(c)
  /\ UNCHANGED <<lease_token, last_seen, now, registering, retired, crashed, starts>>

\* The acknowledgement commits but its future is dropped or sees an error: the
\* claim is not marked, its obligation retires the name.
AckUnconfirmed(c, res) ==
  /\ MayAck(c)
  /\ AckMatches(claims[c])
  /\ WriteRow(claims[c].task, Acked(claims[c], res))
  /\ retired' = Retire(claims[c].storage, claims[c].name)
  /\ UNCHANGED <<lease_token, last_seen, now, claims, registering, crashed, starts>>

\* An obligation ends without its row: StaleAcknowledgement, a failed or
\* dropped acknowledgement, a dropped task, an exhausted decode release.
Abandon(c) ==
  /\ Held(c)
  /\ Forget(c)
  /\ retired' = Retire(claims[c].storage, claims[c].name)
  /\ UNCHANGED <<dbVars, now, registering, crashed, starts>>

Tick ==
  /\ now < MaxTime
  /\ now' = now + 1
  /\ UNCHANGED <<dbVars, memVars, starts>>

RowStep(t) ==
  \/ \E d \in Delay : Enqueue(t, d)
  \/ Purge(t)
  \/ Sweep(t)

WorkerStep(n) ==
  \/ PruneWorker(n)
  \/ AdminRegister(n)

StorageStep(s, n) ==
  \/ \E S \in SUBSET Orphaned : StartupSweep(s, n, S)
  \/ Register(s, n)
  \/ RegisterRefused(s, n)
  \/ KeepAlive(s, n)
  \/ RetireWorker(s, n)
  \/ ReleaseWorker(s, n)

FetchStep(s, n, t) ==
  \/ \E c \in Claim : FetchNext(s, n, t, c) \/ LockTask(s, n, t, c)
  \/ FetchUnconfirmed(s, n, t)
  \/ FetchMalformed(s, n, t)
  \/ LockUnconfirmed(s, n, t)

ClaimStep(c) ==
  \/ FailUndecodable(c)
  \/ StartTask(c)
  \/ StartUnconfirmed(c)
  \/ StartRefused(c)
  \/ \E res \in {"Ok", "Err"} : AckTask(c, res) \/ AckUnconfirmed(c, res)
  \/ Abandon(c)

Next ==
  \/ \E t \in Task : RowStep(t)
  \/ \E n \in Name : WorkerStep(n)
  \/ \E s \in Storage, n \in Name : StorageStep(s, n)
  \/ \E s \in Storage : Crash(s)
  \/ \E s \in Caller, n \in Name, t \in Task : FetchStep(s, n, t)
  \/ \E c \in Claim : ClaimStep(c)
  \/ Tick

Spec == Init /\ [][Next]_vars

-----------------------------------------------------------------------------
(* Properties. *)

\* The shape of row j of task t.
ShapeOK(t, j) ==
  /\ j.attempts <= MaxAttempts[t]
  /\ j.status \in {"Absent", "Pending", "Purged"} => j.lock_by = None /\ j.lock_at = None
  /\ j.status \in Active => j.lock_by # None /\ j.lock_at # None
  /\ j.status \in {"Absent", "Pending", "Failed"} \union Active => j.attempts < MaxAttempts[t]
  /\ j.done_at = "set" <=> j.status \in {"Failed", "Done", "Killed"}

\* No statement of the protocol is refused by the schema, and none leaves a
\* row that no claim can take: jobs_attempts_lte_max_attempts_check and
\* jobs_state_shape_check hold, a waiting or active row has budget left
\* (recover_owned, calculate_status), and done_at is set exactly on a row whose
\* last execution ended.
RowShape ==
  \A t \in Task : ShapeOK(t, jobs[t])

\* The owner a row names, terminal history included, is registered: no prune
\* meets the foreign key of lock_by, and no takeover, release or sweep leaves
\* an active row that recovery, which goes through apalis.workers, cannot find.
OwnerRegistered ==
  \A t \in Task : jobs[t].lock_by # None => Registered(jobs[t].lock_by)

\* The retry budget bounds executions: every time a row is moved to Running,
\* leaving Running consumes an attempt, whichever of acknowledgement, sweep,
\* takeover, release or decode failure ends it.  So a task that keeps killing
\* its workers is started at most max_attempts times.
ChargedExecutions ==
  \A t \in Task :
    starts[t] <= jobs[t].attempts + (IF jobs[t].status = "Running" THEN 1 ELSE 0)

\* A started claim is either current or visibly over: while its row still has
\* the attempt count of the claim, the row is Running under the epoch of the
\* claim.  No recovery, re-lock or later claim leaves a row that an older
\* execution would take for its own.
StartedClaimExact ==
  \A c \in Claim : LET k == claims[c] IN
    Held(c) /\ k.stage \in {"started", "relocked"}
    => \/ jobs[k.task].attempts > k.attempts
       \/ EpochHolds(k) /\ jobs[k.task].status = "Running"

\* Each attempt of a task is executed by at most one claim, though a release
\* within the second of the claim lets two claims carry the same epoch
\* (start_task requires Queued for a claim that has not started); lock_task of
\* a Running row by its owner is the documented exception.
OneExecutionPerAttempt ==
  \A c, d \in Claim :
    /\ c # d /\ Held(c) /\ Held(d)
    /\ claims[c].task = claims[d].task
    /\ claims[c].stage = "started" /\ claims[d].stage = "started"
    => claims[c].attempts # claims[d].attempts

\* A storage keeps renewing a registration only while every active row of the
\* name has its claim in memory, unrefused: whatever loses a claim (a dropped
\* task, an unconfirmed commit, a stale or failed acknowledgement) retires the
\* name, so that recovery can reach the row.  It holds for claims that carry a
\* token; PgMiddleware::new and lock_task do not manage retirement.
NoStrandedClaim ==
  None \notin Caller =>
    \A t \in Task, n \in Name : LET s == lease_token[n] IN
      t \in Owned(n) /\ s \in Storage /\ LeaseActive(s, n)
      => \E c \in Claim : /\ Held(c)
                          /\ claims[c].task = t /\ claims[c].storage = s
                          /\ EpochHolds(claims[c])
                          /\ jobs[t].status = "Running"
                             => claims[c].stage \in {"started", "relocked"}

\* A claim of a healthy worker (token current, heartbeat fresh, name not
\* retired) is never taken by anyone else: a step that ends its epoch is a step
\* of the same storage, which retires the name or ends a claim of this task.
HealthyClaimKept ==
  [][None \notin Caller => \A k \in {claims[c] : c \in Claim} \ {NoClaim} :
       /\ LeaseActive(k.storage, k.name)
       /\ lease_token[k.name] = k.storage
       /\ ~Stale(k.name)
       /\ EpochHolds(k)
       => \/ EpochHolds(k)'
          \/ ~LeaseActive(k.storage, k.name)'
          \/ \E d \in Claim : /\ Held(d) /\ claims'[d] # claims[d]
                              /\ claims[d].task = k.task
                              /\ claims[d].storage = k.storage]_vars

\* The phase of a task in the abstract life cycle: a Failed row with budget
\* left waits like a Pending one.
PhaseOf(t) ==
  CASE jobs[t].status = "Absent" -> "absent"
    [] jobs[t].status \in {"Pending", "Failed"} -> "waiting"
    [] jobs[t].status = "Queued" -> "claimed"
    [] jobs[t].status = "Running" -> "running"
    [] jobs[t].status = "Done" -> "done"
    [] jobs[t].status = "Killed" -> "dead"
    [] OTHER -> "removed"

Lifecycle == INSTANCE JobLifecycle WITH
  phase <- [t \in Task |-> PhaseOf(t)],
  attempts <- [t \in Task |-> jobs[t].attempts]

\* The queue implements the life cycle: seen one task at a time, the claims,
\* sweeps, takeovers, releases, acknowledgements and quarantines of all the
\* workers only ever take the steps of JobLifecycle.
ImplementsLifecycle == Lifecycle!Spec

=============================================================================
