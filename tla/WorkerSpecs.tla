----------------------------- MODULE WorkerSpecs -----------------------------
(***************************************************************************)
(* The worker specifications of src/query_specs/worker.rs, run against the *)
(* statements of QueueStatements: each matrix of the file is run on the    *)
(* whole product of its characteristics, where the file lists some of the  *)
(* combinations.  The expectations are the file's own.                     *)
(***************************************************************************)
EXTENDS QueueStatements

Home  == "queue"
Other == "other queue"
Job1  == 1
Worker1 == 1
Worker2 == 2

\* insert_worker_row
InsertWorkerRow(token, age) == [lease_token |-> token, last_seen |-> Now - age]

\* insert_running_row: a Pending row has no owner.
InsertRunningRow(q, n, status, attempts, max_attempts, last_result) ==
  [queue |-> q, status |-> status, attempts |-> attempts, max_attempts |-> max_attempts,
   run_at |-> Now - 1, priority |-> 0,
   lock_by |-> IF status = "Pending" THEN None ELSE n,
   lock_at |-> IF status = "Pending" THEN None ELSE Now,
   done_at |-> None, last_result |-> last_result]

\* One registration and one row of it.
OneRow(w, worker, row) ==
  [jobs |-> [i \in {Job1} |-> row], workers |-> [v \in {w} |-> worker]]

NoJobs(W, worker) == [jobs |-> [i \in {} |-> None], workers |-> [v \in W |-> worker]]

\* reenqueue_orphaned_sql_on, register_worker_sql_on, keep_alive_sql
Sweep(op) == [op |-> op, queue |-> Home, after |-> 1]
Registration(token) ==
  [op |-> "register", queue |-> Home, name |-> Worker1, token |-> token, after |-> 30]
Heartbeat(q, n, token) == [op |-> "keep alive", queue |-> q, name |-> n, token |-> token]

-----------------------------------------------------------------------------
(* reenqueue_orphaned *)

\* ReenqueueSetup, over the values of the matrix.
ReenqueueSetups ==
  [kind : {"reenqueue"},
   status : {"Pending", "Queued", "Running", "Failed", "Done", "Killed"},
   attempts : {0, 2, 3}, has_last_result : BOOLEAN, age : {0, 10}, other_queue : BOOLEAN]

ReenqueueRow(s) ==
  InsertRunningRow(IF s.other_queue THEN Other ELSE Home, Worker1, s.status, s.attempts, 3,
                   IF s.has_last_result THEN "preserved result" ELSE None)

\* run_reenqueue
RunReenqueue(s) ==
  [db |-> OneRow(<<Worker1, IF s.other_queue THEN Other ELSE Home>>,
                 InsertWorkerRow("token", s.age), ReenqueueRow(s)),
   program |-> <<Sweep("sweep")>>]

\* The assertions on a recovered row: unowned, and finished only when killed.
SweptRow(row, status, attempts, result) ==
  /\ row.status = status /\ row.attempts = attempts /\ row.lock_by = None
  /\ (row.done_at # None) = (status = "Killed")
  /\ row.last_result = result

\* The matrix orphan_recovery: a stale owner's active row is charged and
\* returned, or killed when that was its last attempt; a result recorded
\* before survives a retry; everything else stays as it was.
OrphanRecovery(s, n, row) ==
  IF s.status \in Active /\ s.age = 10 /\ ~s.other_queue
  THEN n = 1 /\ IF s.attempts = 0
                THEN SweptRow(row, "Pending", 1, IF s.has_last_result THEN "preserved result"
                                                 ELSE "worker heartbeat timeout")
                ELSE SweptRow(row, "Killed", 3, "worker heartbeat timeout")
  ELSE n = 0 /\ row = ReenqueueRow(s)

OverflowSetups == [kind : {"overflow"}]

\* run_overflow_sweep: the attempt counter is at the largest integer.
RunOverflowSweep(s) ==
  [db |-> OneRow(<<Worker1, Home>>, InsertWorkerRow("token", 10),
                 InsertRunningRow(Home, Worker1, "Running", I32Max, I32Max, None)),
   program |-> <<Sweep("sweep")>>]

\* The sweep survives, kills the row and clamps the counter to the budget.
OverflowSweep(res, row) ==
  res.outcome = "ok" /\ row.status = "Killed" /\ row.attempts = I32Max

BoundedSetups == [kind : {"bounded"}, excess : 1..BatchLimit]

\* bulk_insert_orphans and run_bounded_sweep: more orphans than one sweep may
\* take, then two sweeps.
RunBoundedSweep(s) ==
  [db |-> [jobs |-> [i \in 1..(BatchLimit + s.excess) |->
                       InsertRunningRow(Home, Worker1, "Running", 0, 25, None)],
           workers |-> [w \in {<<Worker1, Home>>} |-> InsertWorkerRow("token", 10)]],
   program |-> <<Sweep("sweep"), Sweep("sweep")>>]

\* observe_sweep_rows
SweepRecovered(d) ==
  JobsOf(d, Home, LAMBDA r : /\ r.status = "Pending" /\ r.attempts = 1
                             /\ r.lock_by = None /\ r.lock_at = None /\ r.done_at = None
                             /\ r.last_result = "worker heartbeat timeout")
SweepRemaining(d) ==
  JobsOf(d, Home, LAMBDA r : /\ r.status = "Running" /\ r.attempts = 0
                             /\ r.lock_by = Worker1 /\ r.lock_at # None /\ r.done_at = None
                             /\ r.last_result = None)

\* The first sweep takes exactly the limit, the second the rest, and no row is
\* lost or charged twice, whatever plan the database chose.
BoundedSweep(s, res, d) ==
  LET total == BatchLimit + s.excess
      taken == IF Len(res) = 1 THEN BatchLimit ELSE total
  IN /\ res[1].n = BatchLimit
     /\ Len(res) = 2 => res[2].n = s.excess
     /\ Cardinality(SweepRecovered(d)) = taken
     /\ Cardinality(SweepRemaining(d)) = total - taken

ConcurrentSetups ==
  [kind : {"concurrent"}, timing : {"while the first holds row locks", "after the first committed"}]

\* run_concurrent_reenqueue
RunConcurrentReenqueue(s) ==
  [db |-> OneRow(<<Worker1, Home>>, InsertWorkerRow("token", 10),
                 InsertRunningRow(Home, Worker1, "Running", 0, 3, None)),
   program |-> IF s.timing = "after the first committed"
               THEN <<Sweep("sweep"), Sweep("sweep")>>
               ELSE <<Sweep("sweep held"), Sweep("sweep"), [op |-> "commit"]>>]

\* The lost attempt is charged exactly once, by the first sweep.
ConcurrentReenqueue(res, row) ==
  res[1].n = 1 /\ res[2].n = 0 /\ row.status = "Pending" /\ row.attempts = 1

-----------------------------------------------------------------------------
(* register_worker_blocking and keep_alive *)

\* RegisterSetup: the incumbent's token ("absent": no row), and its age.
RegisterSetups ==
  [kind : {"register"}, incumbent : {"absent", None, "new token", "incumbent token"},
   age : {0, 120}, contended : BOOLEAN]

\* run_register_under_advisory_contention: a peer holds the advisory lock.
UnderAdvisoryContention ==
  <<[op |-> "hold", names |-> {}, advisory |-> {<<Worker1, Home>>}],
    Registration("new token"), [op |-> "rollback"]>>

\* run_register
RunRegister(s) ==
  [db |-> NoJobs(IF s.incumbent = "absent" THEN {} ELSE {<<Worker1, Home>>},
                 InsertWorkerRow(s.incumbent, s.age)),
   program |-> IF s.contended THEN UnderAdvisoryContention ELSE <<Registration("new token")>>]

\* The token the name is registered with, "absent" without a row.
StoredToken(d) ==
  IF <<Worker1, Home>> \in DOMAIN d.workers THEN d.workers[<<Worker1, Home>>].lease_token
  ELSE "absent"

\* A free name, the same token and a stale incumbent are taken; a live
\* incumbent, with or without a token, and a busy advisory lock refuse.
RegisterMatrix(s, res, d) ==
  IF ~s.contended /\ (s.incumbent \in {"absent", "new token"} \/ s.age = 120)
  THEN res.n = 1 /\ StoredToken(d) = "new token"
  ELSE res.n = 0 /\ StoredToken(d) = s.incumbent

\* KeepAliveSetup
KeepAliveSetups ==
  [kind : {"keep alive"}, stored : {"alive token", None}, caller : {"alive token", "wrong token"},
   unknown_worker : BOOLEAN, other_queue : BOOLEAN, insert_row : BOOLEAN]

\* run_keep_alive: the stored heartbeat is 30 seconds old.
RunKeepAlive(s) ==
  [db |-> NoJobs(IF s.insert_row THEN {<<Worker1, Home>>} ELSE {}, InsertWorkerRow(s.stored, 30)),
   program |-> <<Heartbeat(IF s.other_queue THEN Other ELSE Home,
                           IF s.unknown_worker THEN Worker2 ELSE Worker1, s.caller)>>]

\* keep_alive_refreshed
Refreshed(d) == <<Worker1, Home>> \in DOMAIN d.workers /\ d.workers[<<Worker1, Home>>].last_seen = Now

\* Only the registration's own id, queue and token renew it; NULL equals none.
KeepAliveMatrix(s, res, d) ==
  LET matches == /\ s.insert_row /\ ~s.unknown_worker /\ ~s.other_queue
                 /\ s.stored = "alive token" /\ s.caller = "alive token"
  IN IF matches THEN res.n = 1 /\ Refreshed(d) ELSE res.n = 0 /\ ~Refreshed(d)

-----------------------------------------------------------------------------

Setups ==
  ReenqueueSetups \union OverflowSetups \union BoundedSetups \union ConcurrentSetups
  \union RegisterSetups \union KeepAliveSetups

Scenario(s) ==
  CASE s.kind = "reenqueue"  -> RunReenqueue(s)
    [] s.kind = "overflow"   -> RunOverflowSweep(s)
    [] s.kind = "bounded"    -> RunBoundedSweep(s)
    [] s.kind = "concurrent" -> RunConcurrentReenqueue(s)
    [] s.kind = "register"   -> RunRegister(s)
    [] s.kind = "keep alive" -> RunKeepAlive(s)

Init ==
  /\ setup \in Setups
  /\ db = Scenario(setup).db
  /\ program = Scenario(setup).program
  /\ open = NoTx
  /\ out = <<>>

Spec == Init /\ [][Next]_vars

\* Orphan recovery does to each row what orphan_recovery and overflow_sweep
\* expect of reenqueue_orphaned, over every combination of status, budget,
\* earlier result, heartbeat age and queue.
OrphanRecoverySpec ==
  Finished =>
    /\ setup.kind = "reenqueue" => OrphanRecovery(setup, out[1].n, db.jobs[Job1])
    /\ setup.kind = "overflow" => OverflowSweep(out[1], db.jobs[Job1])

\* A sweep is bounded and an attempt lost is charged once: after each of two
\* sweeps of a backlog larger than the batch exactly the batch was recovered,
\* and of two sweeps of one row, overlapping or not, only one touches it.
SweepOnceSpec ==
  /\ setup.kind = "bounded" /\ out # <<>> => BoundedSweep(setup, out, db)
  /\ setup.kind = "concurrent" /\ Finished => ConcurrentReenqueue(out, db.jobs[Job1])

\* Registration decides as the matrix of register_worker_blocking says, and a
\* busy advisory lock refuses before any row is read or written.
RegistrationSpec ==
  setup.kind = "register" /\ Finished => RegisterMatrix(setup, out[1], db)

\* A heartbeat renews exactly the registration whose id, queue and token the
\* caller presents; a registration without a token is renewed by none.
HeartbeatSpec ==
  setup.kind = "keep alive" /\ Finished => KeepAliveMatrix(setup, out[1], db)

=============================================================================
