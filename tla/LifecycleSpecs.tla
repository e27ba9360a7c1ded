--------------------------- MODULE LifecycleSpecs ---------------------------
(***************************************************************************)
(* The specifications of src/query_specs/lifecycle.rs (releasing a worker, *)
(* recovering a claim, purging and pruning), run against the statements of *)
(* QueueStatements on the whole product of each matrix.  The race of a     *)
(* prune with claims of the same registration is in Retention.             *)
(***************************************************************************)
EXTENDS QueueStatements

Home   == "queue"
Other  == "other queue"
Worker == 1
Both   == {<<Worker, Home>>, <<Worker, Other>>}

\* seed_worker
SeedWorker(token, age) == [lease_token |-> token, last_seen |-> Now - age]

\* seed_job: `owner` and `done_age` may be None.
SeedJob(q, status, attempts, owner, done_age, run_age, result) ==
  [queue |-> q, status |-> status, attempts |-> attempts, max_attempts |-> 3,
   run_at |-> Now - run_age, priority |-> 0,
   lock_by |-> owner, lock_at |-> IF owner = None THEN None ELSE Now,
   done_at |-> IF done_age = None THEN None ELSE Now - done_age, last_result |-> result]

\* A fixture: the registrations and the rows, numbered from 1.
Tables(workers, rows) == [jobs |-> [i \in DOMAIN rows |-> rows[i]], workers |-> workers]

ReleaseCall == [op |-> "release", queue |-> Home, name |-> Worker, token |-> "held"]
RegisterCall(after) ==
  [op |-> "register", queue |-> Home, name |-> Worker, token |-> "successor", after |-> after]

-----------------------------------------------------------------------------
(* release_worker_blocking *)

\* Ownership and Claim.  A row names a registration of its own queue, so
\* without one the worker can only hold a task of another queue.
ReleaseSetups ==
  {s \in [kind : {"release"}, ownership : {"owned", "absent", "foreign", "token free"},
          claim : {"none", "running", "queued", "exhausted", "earlier result", "completed",
                   "another queue"}] :
     s.ownership = "absent" => s.claim \in {"none", "another queue"}}

Held(s) == CASE s.ownership = "owned" -> "held" [] s.ownership = "foreign" -> "other" [] OTHER -> None

ClaimedJob(claim) ==
  CASE claim = "running"        -> <<SeedJob(Home, "Running", 0, Worker, None, 1, None)>>
    [] claim = "another queue"  -> <<SeedJob(Other, "Running", 0, Worker, None, 1, None)>>
    [] claim = "queued"         -> <<SeedJob(Home, "Queued", 1, Worker, None, 1, None)>>
    [] claim = "exhausted"      -> <<SeedJob(Home, "Running", 2, Worker, None, 1, "earlier failure")>>
    [] claim = "earlier result" -> <<SeedJob(Home, "Running", 1, Worker, None, 1, "earlier failure")>>
    [] claim = "completed"      -> <<SeedJob(Home, "Done", 1, Worker, 1, 2, "ok")>>
    [] OTHER                    -> <<>>

\* run_release: the release, then a fresh token for the same name.
RunRelease(s) ==
  LET W == {w \in Both : IF w[2] = Home THEN s.ownership # "absent" ELSE s.claim = "another queue"}
  IN [db |-> Tables([w \in W |-> SeedWorker(IF w[2] = Home THEN Held(s) ELSE "held", 0)],
                    ClaimedJob(s.claim)),
      program |-> <<ReleaseCall, RegisterCall(30)>>]

\* job_handed_back, job_handed_back_untouched, job_handed_back_with_earlier_result
HandedBack(job, status, attempts, result) ==
  /\ job.status = status /\ job.attempts = attempts /\ job.lock_by = None
  /\ (job.done_at # None) = (status = "Killed")
  /\ job.last_result = result

ReleasedMarker == "worker released its registration"

\* What the owner's release leaves of the task it held.
ReleasedJob(claim, n, job) ==
  CASE claim = "running"        -> n = 1 /\ HandedBack(job, "Pending", 1, ReleasedMarker)
    [] claim = "queued"         -> n = 1 /\ HandedBack(job, "Pending", 1, None)
    [] claim = "exhausted"      -> n = 1 /\ HandedBack(job, "Killed", 3, ReleasedMarker)
    [] claim = "earlier result" -> n = 1 /\ HandedBack(job, "Pending", 2, "earlier failure")
    [] claim \in {"completed", "another queue"} -> n = 0 /\ job = ClaimedJob(claim)[1]
    [] OTHER                    -> n = 0

\* releasing_a_registration, after the release and before the successor.
ReleaseMatrix(s, res, d) ==
  LET w   == <<Worker, Home>>
      job == IF s.claim = "none" THEN None ELSE d.jobs[1]
  IN IF s.ownership = "owned"
     THEN /\ res.outcome = "ok" /\ ReleasedJob(s.claim, res.n, job)
          /\ d.workers[w] = [lease_token |-> None, last_seen |-> 0]
     ELSE res.outcome = "not registered" /\ d = RunRelease(s).db

\* successor: a name nobody holds is taken at once, a held one is refused.
Successor(s, res) ==
  res.outcome = IF s.ownership \in {"owned", "absent"} THEN "ok" ELSE "already registered"

-----------------------------------------------------------------------------
(* Recovering a claim *)

RecoverySetups ==
  [kind : {"recovery"}, by : {"stale sweep", "takeover", "release"}, status : Active]

\* recover_claim: one attempt of three was made before.
RecoverClaim(s) ==
  [db |-> Tables([w \in {<<Worker, Home>>} |-> SeedWorker("held", IF s.by = "release" THEN 0 ELSE 3600)],
                 <<SeedJob(Home, s.status, 1, Worker, None, 1, None)>>),
   program |-> <<CASE s.by = "stale sweep" -> [op |-> "sweep", queue |-> Home, after |-> 60]
                   [] s.by = "takeover"    -> RegisterCall(60)
                   [] s.by = "release"     -> ReleaseCall>>]

\* recovering_a_claim and returned_to_the_queue: every recovery charges the
\* attempt, except a release of a claim no handler started.
RecoveryMatrix(s, job) ==
  LET charged == s.by # "release" \/ s.status = "Running"
  IN /\ job.status = "Pending" /\ job.attempts = IF charged THEN 2 ELSE 1
     /\ job.lock_by = None /\ job.done_at = None
     /\ (job.last_result # None) = charged

-----------------------------------------------------------------------------
(* purge_terminal_tasks *)

PurgeSetups ==
  [kind : {"purge"},
   row : {"Pending", "Queued", "Running", "Done", "failed with budget", "failed exhausted",
          "Killed", "done without completion time"},
   age : {0, 3600}, window : {0, 60, Now + 100}, scope : {Home, Other}]

\* The rows of run_purge, and the owner of those that name one.
PurgeRow(s) ==
  CASE s.row = "Pending" -> SeedJob(s.scope, "Pending", 0, None, None, s.age, None)
    [] s.row \in Active  -> SeedJob(s.scope, s.row, 0, Worker, None, s.age, None)
    [] s.row = "Done"    -> SeedJob(s.scope, "Done", 1, Worker, s.age, s.age, None)
    [] s.row = "failed with budget" -> SeedJob(s.scope, "Failed", 1, Worker, s.age, s.age, None)
    [] s.row = "failed exhausted"   -> SeedJob(s.scope, "Failed", 3, Worker, s.age, s.age, None)
    [] s.row = "Killed"  -> SeedJob(s.scope, "Killed", 3, Worker, s.age, s.age, None)
    [] OTHER -> SeedJob(s.scope, "Done", 1, None, None, s.age, None)

\* run_purge
RunPurge(s) ==
  [db |-> Tables([w \in {v \in Both : v[2] = s.scope /\ PurgeRow(s).lock_by # None} |->
                      SeedWorker("purge", 0)], <<PurgeRow(s)>>),
   program |-> <<[op |-> "purge", queue |-> Home, window |-> s.window, limit |-> 100]>>]

\* purging_terminal_tasks: purged() or kept()
PurgeMatrix(s, res, d) ==
  LET terminal == s.row \in {"Done", "Killed", "failed exhausted", "done without completion time"}
      purged   == terminal /\ s.scope = Home /\ (s.window = 0 \/ (s.window = 60 /\ s.age = 3600))
  IN /\ res.outcome = "ok"
     /\ res.n = IF purged THEN 1 ELSE 0
     /\ Cardinality(DOMAIN d.jobs) = 1 - res.n

BatchSetups == [kind : {"batched purge", "rescanned purge", "rescanned prune"}]

FiveDone(age) == [i \in 1..5 |-> SeedJob(Home, "Done", 1, None, age, age + 60, None)]

\* run_batched_purge: one batch of two, then the batched purge.
RunBatchedPurge ==
  [db |-> Tables([w \in {} |-> None], FiveDone(0)),
   program |-> <<[op |-> "purge", queue |-> Home, window |-> 0, limit |-> 2],
                 [op |-> "purge batched", queue |-> Home, cutoff |-> ServerCutoff(0), limit |-> 2,
                  total |-> 0]>>]

\* run_batch_under_a_rescanning_plan: five candidates, one batch of two.  The
\* batch is rolled back; what it reports is all that is observed.
RunRescanned(s) ==
  IF s.kind = "rescanned purge"
  THEN [db |-> Tables([w \in {} |-> None], FiveDone(60)),
        program |-> <<[op |-> "purge", queue |-> Home, window |-> 0, limit |-> 2]>>]
  ELSE [db |-> Tables([w \in {<<n, Home>> : n \in 1..5} |-> SeedWorker(None, 3600)], <<>>),
        program |-> <<[op |-> "prune", queue |-> Home, after |-> 60, limit |-> 2]>>]

\* drains_in_batches and deletes_exactly(2)
BatchMatrix(s, res, d) ==
  /\ res[1].n = 2
  /\ s.kind = "batched purge" => res[2].n = 3 /\ d.jobs = <<>>

-----------------------------------------------------------------------------
(* prune_workers_blocking *)

PruneSetups ==
  [kind : {"prune"}, age : {0, 3600}, reference : {"none", "active claim", "completed task"},
   scope : {Home, Other}, held : BOOLEAN]

PruneReference(s) ==
  CASE s.reference = "none" -> <<>>
    [] s.reference = "active claim" -> <<SeedJob(s.scope, "Running", 0, Worker, None, s.age, None)>>
    [] s.reference = "completed task" -> <<SeedJob(s.scope, "Done", 1, Worker, s.age, s.age, None)>>

\* run_prune: a peer may hold the row as an in-flight claim does.
RunPrune(s) ==
  LET prune == [op |-> "prune", queue |-> Home, after |-> 60, limit |-> 100]
      hold  == [op |-> "hold", names |-> {<<Worker, s.scope>>}, advisory |-> {}]
  IN [db |-> Tables([w \in {<<Worker, s.scope>>} |-> SeedWorker("prune", s.age)], PruneReference(s)),
      program |-> IF s.held THEN <<hold, prune, [op |-> "rollback"]>> ELSE <<prune>>]

\* pruning_stale_registrations: pruned() or retained()
PruneMatrix(s, res, d) ==
  LET pruned == s.age = 3600 /\ s.reference = "none" /\ s.scope = Home /\ ~s.held
  IN /\ res.outcome = "ok"
     /\ res.n = IF pruned THEN 1 ELSE 0
     /\ Cardinality(DOMAIN d.workers) = 1 - res.n

DeleteStepSetups == [kind : {"delete step"}]

\* delete_step_with_a_claimed_candidate: candidate 2 was claimed meanwhile.
RunDeleteStep ==
  [db |-> Tables([w \in {<<1, Home>>, <<2, Home>>} |-> SeedWorker(None, 3600)],
                 <<SeedJob(Home, "Queued", 0, 2, None, 60, None)>>),
   program |-> <<[op |-> "delete unreferenced", queue |-> Home, names |-> {1, 2}]>>]

\* keeps_the_claimed_candidate
KeepsTheClaimedCandidate(res, d) == res = Count(1) /\ DOMAIN d.workers = {<<2, Home>>}

-----------------------------------------------------------------------------

Setups ==
  ReleaseSetups \union RecoverySetups \union PurgeSetups \union BatchSetups
  \union PruneSetups \union DeleteStepSetups

Scenario(s) ==
  CASE s.kind = "release"       -> RunRelease(s)
    [] s.kind = "recovery"      -> RecoverClaim(s)
    [] s.kind = "purge"         -> RunPurge(s)
    [] s.kind = "batched purge" -> RunBatchedPurge
    [] s.kind = "prune"         -> RunPrune(s)
    [] s.kind = "delete step"   -> RunDeleteStep
    [] OTHER                    -> RunRescanned(s)

Init ==
  /\ setup \in Setups
  /\ db = Scenario(setup).db
  /\ program = Scenario(setup).program
  /\ open = NoTx
  /\ out = <<>>

Spec == Init /\ [][Next]_vars

\* Releasing a registration hands back the queue's active claims, frees the
\* name for an immediate successor and keeps completed history and other
\* queues; without the token the release changes nothing and the incumbent
\* still refuses the successor.
ReleaseSpec ==
  setup.kind = "release" =>
    /\ Len(out) = 1 => ReleaseMatrix(setup, out[1], db)
    /\ Finished => Successor(setup, out[2])

\* A claim recovered by a sweep, a takeover or a release is charged, except by
\* a release when no handler had started it.
RecoveryChargeSpec ==
  setup.kind = "recovery" /\ Finished => RecoveryMatrix(setup, db.jobs[1])

\* A purge deletes exactly the terminal rows of its queue outside the window,
\* with a cutoff clamped to the timestamp range, never more than a batch at a
\* time, and its repeated batches drain the backlog.
PurgeSpec ==
  Finished =>
    /\ setup.kind = "purge" => PurgeMatrix(setup, out[1], db)
    /\ setup.kind \in {"batched purge", "rescanned purge"} => BatchMatrix(setup, out, db)

\* A prune deletes exactly the stale registrations of its queue that no row
\* names and no transaction holds, and its delete step keeps a candidate that
\* was claimed after the candidates were selected.
PruneSpec ==
  Finished =>
    /\ setup.kind = "prune" => PruneMatrix(setup, out[1], db)
    /\ setup.kind = "rescanned prune" => BatchMatrix(setup, out, db)
    /\ setup.kind = "delete step" => KeepsTheClaimedCandidate(out[1], db)

=============================================================================
