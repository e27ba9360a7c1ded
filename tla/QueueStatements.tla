-------------------------- MODULE QueueStatements --------------------------
(***************************************************************************)
(* The statements of src/queries as whole statements: what each returns    *)
(* and does to the tables when it meets several rows, several queues, a    *)
(* LIMIT, an ORDER BY and rows another transaction holds.  JobQueue models *)
(* one row of one queue at a time; here a statement sees the whole table.  *)
(*                                                                         *)
(* A behaviour runs a program: a sequence of calls against a fixture.  The *)
(* programs and the fixtures are those of src/query_specs, in the modules  *)
(* that extend this one.  One connection may leave its transaction open    *)
(* while the other calls run; only calls that never wait for a row lock    *)
(* are made against it (SKIP LOCKED, a try-lock).                          *)
(***************************************************************************)
EXTENDS Integers, Sequences, FiniteSets, SequencesExt

CONSTANTS
  I32Max,        \* the largest value of an integer column
  BatchLimit,    \* REENQUEUE_ORPHANED_BATCH_LIMIT
  None           \* SQL NULL

VARIABLES
  setup,         \* the fixture and program of this behaviour
  db,            \* the committed tables: [jobs, workers]
  open,          \* the transaction a connection holds open, or NoTx
  program,       \* the calls still to make
  out            \* the outcomes of the calls made, in order

vars == <<setup, db, open, program, out>>

\* The server clock, in seconds: late enough for every age of the fixtures.
Now == 5000

Active == {"Queued", "Running"}

\* A transaction left open: the rows it wrote or locked, and its tables.
NoTx == [db |-> None, rows |-> {}, names |-> {}, advisory |-> {}]

Result(outcome, n, ids) == [outcome |-> outcome, n |-> n, ids |-> ids]
Count(n) == Result("ok", n, <<>>)
Refused(outcome) == Result(outcome, 0, <<>>)

\* A statement gives a set of [db, res]: its tables and what the call returns.
Effect(d, res) == [db |-> d, res |-> res]

\* The next statement of a transaction; an error rolls all of it back.
Then(e, d, res) == IF e.res.outcome = "ok" THEN Effect(d, res) ELSE e

-----------------------------------------------------------------------------
(* Tables.  jobs is a function from the ids in use to rows, workers one from *)
(* <<name, queue>>.  Ids and names are numbers, compared like the text ids.  *)

JobsOf(d, q, P(_)) == {i \in DOMAIN d.jobs : d.jobs[i].queue = q /\ P(d.jobs[i])}

Update(d, S, New(_)) ==
  [d EXCEPT !.jobs = [i \in DOMAIN d.jobs |-> IF i \in S THEN New(d.jobs[i]) ELSE d.jobs[i]]]

DeleteJobs(d, S) == [d EXCEPT !.jobs = [i \in DOMAIN d.jobs \ S |-> d.jobs[i]]]

DeleteWorkers(d, S) ==
  [d EXCEPT !.workers = [w \in DOMAIN d.workers \ S |-> d.workers[w]]]

SetWorker(d, w, row) ==
  [d EXCEPT !.workers = [v \in DOMAIN d.workers \union {w} |->
                           IF v = w THEN row ELSE d.workers[v]]]

\* ORDER BY id LIMIT n
FirstOf(S, n) == {i \in S : Cardinality({j \in S : j < i}) < n}

\* A value an integer column can hold.
Fits32(n) == n <= I32Max

-----------------------------------------------------------------------------
(* src/queries/worker.rs *)

\* LEAST(attempts::bigint + 1, max_attempts): the sum is wider than the column.
Charged(r) ==
  IF r.attempts + 1 < r.max_attempts THEN r.attempts + 1 ELSE r.max_attempts

Stale(d, w, after) == Now - d.workers[w].last_seen >= after

Marker(recovery) ==
  IF recovery = "release" THEN "worker released its registration" ELSE "worker heartbeat timeout"

\* Mutated form: the reason replaces a result that was recorded before.
RecoveredOverwriting(r, recovery) ==
  LET charged == r.status = "Running" \/ recovery # "release"
      next    == IF charged THEN Charged(r) ELSE r.attempts
      dead    == next >= r.max_attempts
  IN [r EXCEPT !.status = IF dead THEN "Killed" ELSE "Pending",
               !.done_at = IF dead THEN Now ELSE None,
               !.lock_by = None, !.lock_at = None, !.attempts = next,
               !.last_result = IF dead \/ charged THEN Marker(recovery) ELSE @]

\* Mutated form: only a sweep charges a claim no handler started.
RecoveredUnstartedFree(r, recovery) ==
  LET charged == r.status = "Running" \/ recovery = "sweep"
      next    == IF charged THEN Charged(r) ELSE r.attempts
      dead    == next >= r.max_attempts
  IN [r EXCEPT !.status = IF dead THEN "Killed" ELSE "Pending",
               !.done_at = IF dead THEN Now ELSE None,
               !.lock_by = None, !.lock_at = None, !.attempts = next,
               !.last_result = IF dead \/ (charged /\ @ = None) THEN Marker(recovery) ELSE @]

\* The row recover_owned leaves.
Recovered(r, recovery) ==
  LET charged == r.status = "Running" \/ recovery # "release"
      next    == IF charged THEN Charged(r) ELSE r.attempts
      dead    == next >= r.max_attempts
  IN [r EXCEPT !.status = IF dead THEN "Killed" ELSE "Pending",
               !.done_at = IF dead THEN Now ELSE None,
               !.lock_by = None, !.lock_at = None, !.attempts = next,
               !.last_result = IF dead \/ (charged /\ @ = None) THEN Marker(recovery) ELSE @]

\* Mutated form: the candidates are selected again after each update.
CandidatesRescanned(S, recovery) == S

\* The candidates of recover_owned: a bounded set, selected once, for a sweep.
Candidates(S, recovery) == IF recovery = "sweep" THEN FirstOf(S, BatchLimit) ELSE S

\* recover_owned of the names W, skipping the rows `held` of another transaction.
RecoverOwned(d, q, W, recovery, held) ==
  LET owned == JobsOf(d, q, LAMBDA r : r.status \in Active /\ r.lock_by \in W)
      S     == Candidates(owned \ held, recovery)
  IN IF \A i \in S : Fits32(Recovered(d.jobs[i], recovery).attempts)
     THEN Effect(Update(d, S, LAMBDA r : Recovered(r, recovery)), Count(Cardinality(S)))
     ELSE Effect(d, Refused("integer out of range"))

\* The workers a sweep locks: stale, with an active row, not held by another.
StaleOwners(d, q, after, tx) ==
  LET stale == {v \in DOMAIN d.workers \ tx.names : v[2] = q /\ Stale(d, v, after)}
  IN FirstOf({w[1] : w \in {v \in stale :
                JobsOf(d, q, LAMBDA r : r.status \in Active /\ r.lock_by = v[1]) # {}}},
             BatchLimit)

\* reenqueue_orphaned_blocking
ReenqueueOrphaned(d, q, after, tx) ==
  {RecoverOwned(d, q, StaleOwners(d, q, after, tx), "sweep", tx.rows)}

\* Mutated form: a registration without a token never holds its name.
RegisterOverTokenFree(d, q, n, token, after, tx) ==
  LET w       == <<n, q>>
      known   == w \in DOMAIN d.workers
      aged    == known /\ Stale(d, w, after)
      allowed == known => d.workers[w].lease_token \in {token, None} \/ aged
      lost    == known /\ (d.workers[w].lease_token # token \/ aged)
      rec     == IF lost THEN RecoverOwned(d, q, {n}, "takeover", {}) ELSE Effect(d, Count(0))
  IN IF w \in tx.advisory \/ ~allowed THEN {Effect(d, Refused("already registered"))}
     ELSE {Then(rec, SetWorker(rec.db, w, [lease_token |-> token, last_seen |-> Now]), Count(1))}

\* register_worker_blocking: the advisory try-lock, the decision on the locked
\* row, the recovery of a lost incumbent's claims, and the upsert.
RegisterWorker(d, q, n, token, after, tx) ==
  LET w       == <<n, q>>
      known   == w \in DOMAIN d.workers
      aged    == known /\ Stale(d, w, after)
      allowed == known => d.workers[w].lease_token = token \/ aged
      lost    == known /\ (d.workers[w].lease_token # token \/ aged)
      rec     == IF lost THEN RecoverOwned(d, q, {n}, "takeover", {}) ELSE Effect(d, Count(0))
  IN IF w \in tx.advisory \/ ~allowed THEN {Effect(d, Refused("already registered"))}
     ELSE {Then(rec, SetWorker(rec.db, w, [lease_token |-> token, last_seen |-> Now]), Count(1))}

\* Mutated form: a registration without a token is renewed by any caller.
KeepAliveTokenFree(d, q, n, token) ==
  LET w == <<n, q>>
  IN IF w \in DOMAIN d.workers /\ d.workers[w].lease_token \in {token, None}
     THEN {Effect([d EXCEPT !.workers[w].last_seen = Now], Count(1))}
     ELSE {Effect(d, Refused("not registered"))}

\* keep_alive_blocking
KeepAlive(d, q, n, token) ==
  LET w == <<n, q>>
  IN IF w \in DOMAIN d.workers /\ d.workers[w].lease_token = token
     THEN {Effect([d EXCEPT !.workers[w].last_seen = Now], Count(1))}
     ELSE {Effect(d, Refused("not registered"))}

\* Mutated form: the release recovers the name's rows of every queue.
ReleaseEveryQueue(d, q, n, token) ==
  LET w == <<n, q>>
      S == {i \in DOMAIN d.jobs : d.jobs[i].status \in Active /\ d.jobs[i].lock_by = n}
  IN IF w \notin DOMAIN d.workers \/ d.workers[w].lease_token # token
     THEN {Effect(d, Refused("not registered"))}
     ELSE {Effect(SetWorker(Update(d, S, LAMBDA r : Recovered(r, "release")), w,
                            [lease_token |-> None, last_seen |-> 0]),
                  Count(Cardinality(S)))}

\* release_worker_blocking
ReleaseWorker(d, q, n, token) ==
  LET w == <<n, q>>
      rec == RecoverOwned(d, q, {n}, "release", {})
  IN IF w \notin DOMAIN d.workers \/ d.workers[w].lease_token # token
     THEN {Effect(d, Refused("not registered"))}
     ELSE {Then(rec, SetWorker(rec.db, w, [lease_token |-> None, last_seen |-> 0]), rec.res)}

-----------------------------------------------------------------------------
(* src/queries/fetch.rs *)

Claimable(r) ==
  /\ r.status \in {"Pending", "Failed"}
  /\ r.attempts < r.max_attempts
  /\ r.run_at <= Now

\* Mutated form: the order of the schedule comes before the priority.
BeforeByAge(r, s) ==
  r.run_at < s.run_at \/ (r.run_at = s.run_at /\ r.priority > s.priority)

\* ORDER BY priority DESC, run_at ASC
Before(r, s) ==
  r.priority > s.priority \/ (r.priority = s.priority /\ r.run_at < s.run_at)

\* Every choice of at most n rows of S in that order; ties in any order.
InOrder(d, S, n) ==
  LET k == IF n < Cardinality(S) THEN n ELSE Cardinality(S)
  IN {s \in [1..k -> S] :
        /\ \A a, b \in 1..k : a < b => s[a] # s[b] /\ ~Before(d.jobs[s[b]], d.jobs[s[a]])
        /\ \A i \in S \ {s[a] : a \in 1..k} :
             \A a \in 1..k : ~Before(d.jobs[i], d.jobs[s[a]])}

\* The claiming UPDATE; lock_by references the registration of the queue.
ClaimRows(d, q, n, ids) ==
  LET S == {ids[a] : a \in DOMAIN ids}
      New(r) == [r EXCEPT !.status = "Queued", !.lock_by = n, !.lock_at = Now, !.done_at = None]
  IN IF S # {} /\ <<n, q>> \notin DOMAIN d.workers
     THEN Effect(d, Refused("foreign key violation"))
     ELSE Effect(Update(d, S, New), Result("ok", Len(ids), ids))

\* fetch_next without a lease token; the buffer is at least one row.
FetchNext(d, q, n, buffer, tx) ==
  LET S == JobsOf(d, q, Claimable) \ tx.rows
  IN {ClaimRows(d, q, n, ids) : ids \in InOrder(d, S, IF buffer < 1 THEN 1 ELSE buffer)}

\* queue_by_id without a lease token.
QueueById(d, q, n, wanted, tx) ==
  LET S == (JobsOf(d, q, Claimable) \intersect wanted) \ tx.rows
  IN {ClaimRows(d, q, n, ids) : ids \in InOrder(d, S, Cardinality(S))}

\* Mutated form: the release of a claim does not compare the claim timestamp.
UndecodableMatchesAnyTime(r, n, at, attempts) ==
  r.status \in Active /\ r.lock_by = n /\ r.attempts = attempts

\* The claim epoch fail_undecodable_task pins.
UndecodableMatches(r, n, at, attempts) ==
  r.status \in Active /\ r.lock_by = n /\ r.lock_at = at /\ r.attempts = attempts

\* fail_undecodable_task without a lease token.
FailUndecodable(d, i, n, at, attempts) ==
  LET New(r) == [r EXCEPT !.status = IF r.attempts + 1 >= r.max_attempts THEN "Killed" ELSE "Failed",
                          !.attempts = Charged(r), !.done_at = Now,
                          !.last_result = "decode error"]
  IN IF i \notin DOMAIN d.jobs \/ ~UndecodableMatches(d.jobs[i], n, at, attempts)
     THEN {Effect(d, Count(0))}
     ELSE IF Fits32(New(d.jobs[i]).attempts)
     THEN {Effect(Update(d, {i}, New), Count(1))}
     ELSE {Effect(d, Refused("integer out of range"))}

-----------------------------------------------------------------------------
(* src/queries/retention.rs *)

\* TIMESTAMP_FLOOR_EPOCH: earlier than every time of a row.
TimestampFloor == -1

Terminal(r) ==
  \/ r.status \in {"Done", "Killed"}
  \/ r.status = "Failed" /\ r.attempts >= r.max_attempts

ServerCutoff(window) == Now - window

\* Mutated form: the cutoff is not clamped to the timestamp range.
CutoffUnclamped(cutoff) == cutoff

\* GREATEST(cutoff, floor): to_timestamp refuses anything earlier.
ClampedCutoff(cutoff) == IF cutoff < TimestampFloor THEN TimestampFloor ELSE cutoff

\* Completed at or before `at`; aged by its schedule without a completion time.
Aged(r, at) == (IF r.done_at = None THEN r.run_at ELSE r.done_at) <= at

\* purge_terminal_batch: any `limit` of the rows (no ORDER BY).
PurgeBatch(d, q, cutoff, limit, tx) ==
  LET at == ClampedCutoff(cutoff)
      S  == JobsOf(d, q, LAMBDA r : Terminal(r) /\ Aged(r, at)) \ tx.rows
      k  == IF limit < Cardinality(S) THEN limit ELSE Cardinality(S)
  IN IF at < TimestampFloor THEN {Effect(d, Refused("timestamp out of range"))}
     ELSE {Effect(DeleteJobs(d, D), Count(k)) : D \in {T \in SUBSET S : Cardinality(T) = k}}

Referenced(d, w) == \E i \in DOMAIN d.jobs : d.jobs[i].queue = w[2] /\ d.jobs[i].lock_by = w[1]

\* Mutated form: every locked candidate is deleted; the foreign key refuses.
DeleteLocked(d, q, names) ==
  LET S == {<<n, q>> : n \in names} \intersect DOMAIN d.workers
  IN IF \E w \in S : Referenced(d, w) THEN Effect(d, Refused("foreign key violation"))
     ELSE Effect(DeleteWorkers(d, S), Count(Cardinality(S)))

\* delete_unreferenced_registrations
DeleteUnreferenced(d, q, names) ==
  LET S == {w \in {<<n, q>> : n \in names} \intersect DOMAIN d.workers : ~Referenced(d, w)}
  IN Effect(DeleteWorkers(d, S), Count(Cardinality(S)))

\* prune_workers_batch_counted: lock the stale, unreferenced registrations no
\* one holds, then delete those still unreferenced.
PruneWorkers(d, q, after, limit, tx) ==
  LET S == {w[1] : w \in {v \in DOMAIN d.workers \ tx.names :
              v[2] = q /\ Stale(d, v, after) /\ ~Referenced(d, v)}}
  IN {DeleteUnreferenced(d, q, FirstOf(S, limit))}

-----------------------------------------------------------------------------
(* Running a program. *)

Call == program[1]
CallOf(op) == program # <<>> /\ Call.op = op

\* The call returns e.res and its transaction commits.
Commit(e) ==
  /\ db' = e.db
  /\ out' = Append(out, e.res)
  /\ program' = Tail(program)
  /\ UNCHANGED <<setup, open>>

DoSweep ==
  /\ CallOf("sweep")
  /\ \E e \in ReenqueueOrphaned(db, Call.queue, Call.after, open) : Commit(e)

\* A sweep whose transaction stays open, with the locks it took.
DoSweepHeld ==
  /\ CallOf("sweep held")
  /\ \E e \in ReenqueueOrphaned(db, Call.queue, Call.after, NoTx) :
       /\ open' = [NoTx EXCEPT
            !.db = e.db,
            !.rows = {i \in DOMAIN db.jobs : e.db.jobs[i] # db.jobs[i]},
            !.names = {<<n, Call.queue>> : n \in StaleOwners(db, Call.queue, Call.after, NoTx)}]
       /\ out' = Append(out, e.res)
  /\ program' = Tail(program)
  /\ UNCHANGED <<setup, db>>

\* The open transaction commits the rows it wrote.
DoCommit ==
  /\ CallOf("commit")
  /\ db' = [db EXCEPT !.jobs =
       [i \in DOMAIN db.jobs |-> IF i \in open.rows THEN open.db.jobs[i] ELSE db.jobs[i]]]
  /\ open' = NoTx
  /\ program' = Tail(program)
  /\ UNCHANGED <<setup, out>>

\* A peer takes the advisory lock of a registration, or a share lock on its
\* row, in a transaction it leaves open.
DoHold ==
  /\ CallOf("hold")
  /\ open' = [NoTx EXCEPT !.names = Call.names, !.advisory = Call.advisory]
  /\ program' = Tail(program)
  /\ UNCHANGED <<setup, db, out>>

DoRollback ==
  /\ CallOf("rollback")
  /\ open' = NoTx
  /\ program' = Tail(program)
  /\ UNCHANGED <<setup, db, out>>

DoRegister ==
  /\ CallOf("register")
  /\ \E e \in RegisterWorker(db, Call.queue, Call.name, Call.token, Call.after, open) : Commit(e)

DoKeepAlive ==
  /\ CallOf("keep alive")
  /\ \E e \in KeepAlive(db, Call.queue, Call.name, Call.token) : Commit(e)

DoRelease ==
  /\ CallOf("release")
  /\ \E e \in ReleaseWorker(db, Call.queue, Call.name, Call.token) : Commit(e)

DoFetchNext ==
  /\ CallOf("fetch next")
  /\ \E e \in FetchNext(db, Call.queue, Call.name, Call.buffer, open) : Commit(e)

DoQueueById ==
  /\ CallOf("queue by id")
  /\ \E e \in QueueById(db, Call.queue, Call.name, Call.ids, open) : Commit(e)

DoFailUndecodable ==
  /\ CallOf("fail undecodable")
  /\ \E e \in FailUndecodable(db, Call.id, Call.name, Call.at, Call.attempts) : Commit(e)

DoPurge ==
  /\ CallOf("purge")
  /\ \E e \in PurgeBatch(db, Call.queue, ServerCutoff(Call.window), Call.limit, open) : Commit(e)

\* purge_terminal_tasks_batched: batches at one cutoff, until one is not full.
DoPurgeBatched ==
  /\ CallOf("purge batched")
  /\ \E e \in PurgeBatch(db, Call.queue, Call.cutoff, Call.limit, open) :
       IF e.res.n < Call.limit
       THEN Commit([e EXCEPT !.res.n = @ + Call.total])
       ELSE /\ db' = e.db
            /\ program' = [program EXCEPT ![1].total = @ + e.res.n]
            /\ UNCHANGED <<setup, open, out>>

DoPrune ==
  /\ CallOf("prune")
  /\ \E e \in PruneWorkers(db, Call.queue, Call.after, Call.limit, open) : Commit(e)

DoDeleteUnreferenced ==
  /\ CallOf("delete unreferenced")
  /\ Commit(DeleteUnreferenced(db, Call.queue, Call.names))

\* Every call of the program has returned.
Finished == program = <<>>

Next ==
  \/ DoSweep \/ DoSweepHeld \/ DoCommit \/ DoHold \/ DoRollback
  \/ DoRegister \/ DoKeepAlive \/ DoRelease
  \/ DoFetchNext \/ DoQueueById \/ DoFailUndecodable
  \/ DoPurge \/ DoPurgeBatched \/ DoPrune \/ DoDeleteUnreferenced

=============================================================================
