----------------------------- MODULE FetchSpecs -----------------------------
(***************************************************************************)
(* The claim specifications of src/query_specs/fetch.rs, run against the   *)
(* statements of QueueStatements.                                          *)
(***************************************************************************)
EXTENDS QueueStatements

Home  == "queue"
Other == "other queue"
Worker == 1       \* the worker that claims
OwnerA == 1
OwnerB == 2
Seeded == 9       \* the fixture worker that owns an active row

\* insert_worker
InsertWorker == [lease_token |-> "token", last_seen |-> Now]

\* insert_row: an active row belongs to the fixture worker.
InsertRow(q, status, attempts, max_attempts, offset, priority) ==
  LET owned == status \in Active
  IN [queue |-> q, status |-> status, attempts |-> attempts, max_attempts |-> max_attempts,
      run_at |-> Now + offset, priority |-> priority,
      lock_by |-> IF owned THEN Seeded ELSE None, lock_at |-> IF owned THEN Now ELSE None,
      done_at |-> None, last_result |-> None]

\* The rows by insertion, and the workers every scenario registers.
Tables(rows) ==
  [jobs |-> [i \in DOMAIN rows |-> rows[i]],
   workers |-> [w \in {<<Worker, Home>>, <<OwnerB, Home>>, <<Seeded, Home>>} |-> InsertWorker]]

\* fetch_next_sql and queue_by_id_sql
Poll(buffer) == [op |-> "fetch next", queue |-> Home, name |-> Worker, buffer |-> buffer]
Notified(q, ids) == [op |-> "queue by id", queue |-> q, name |-> Worker, ids |-> ids]

-----------------------------------------------------------------------------
(* fetch_next *)

\* run_empty_queue and run_buffer_sizes: the rows differ in their schedule.
BufferSetups == [kind : {"buffer"}, buffer : {2, 5}, seeded : {0, 2, 5}]

RunBufferSizes(s) ==
  [db |-> Tables([i \in 1..s.seeded |-> InsertRow(Home, "Pending", 0, 25, -(10 + i), 0)]),
   program |-> <<Poll(s.buffer)>>]

\* run_cross_queue_isolation
IsolationSetups == [kind : {"isolation"}]

RunCrossQueueIsolation(s) ==
  [db |-> Tables(<<InsertRow(Home, "Pending", 0, 25, -5, 0),
                   InsertRow(Other, "Pending", 0, 25, -5, 0)>>),
   program |-> <<Poll(10)>>]

\* run_equal_priority_tie_break: the newer row is inserted first.
TieBreakSetups == [kind : {"tie break"}]

RunEqualPriorityTieBreak(s) ==
  [db |-> Tables(<<InsertRow(Home, "Pending", 0, 25, -10, 5),
                   InsertRow(Home, "Pending", 0, 25, -60, 5)>>),
   program |-> <<Poll(10)>>]

\* StatusSetup, over the values of both eligibility matrices; offset 0 is
\* run_run_at_boundary.
StatusSetups ==
  [kind : {"status"}, path : {"polled", "notified"},
   status : {"Pending", "Failed", "Queued", "Running", "Done", "Killed"},
   attempts : {0, 2, 3}, offset : {-10, 0, 3600}]

StatusRow(s) == InsertRow(Home, s.status, s.attempts, 3, s.offset, 0)

\* run_status_matrix and run_queue_by_id_eligibility
RunStatusMatrix(s) ==
  [db |-> Tables(<<StatusRow(s)>>),
   program |-> <<IF s.path = "polled" THEN Poll(10) ELSE Notified(Home, {1})>>]

\* polled_task_eligibility and notified_task_eligibility, one table for both.
Eligible(s) == s.status \in {"Pending", "Failed"} /\ s.attempts \in {0, 2} /\ s.offset # 3600

-----------------------------------------------------------------------------
(* queue_by_id *)

\* run_queue_by_id_skips_unlisted, run_queue_by_id_cross_queue,
\* run_queue_by_id_ordering and run_queue_by_id_partial_claim
ByIdSetups == [kind : {"by id"}, case : {"unlisted", "cross queue", "ordering", "partial"}]

RunSkipsUnlisted ==
  [db |-> Tables(<<InsertRow(Home, "Pending", 0, 25, -2, 0),
                   InsertRow(Home, "Pending", 0, 25, -1, 0)>>),
   program |-> <<Notified(Home, {1})>>]

RunCrossQueue ==
  [db |-> Tables(<<InsertRow(Home, "Pending", 0, 25, -1, 0)>>),
   program |-> <<Notified(Other, {1})>>]

\* The row of the higher priority is the newer one.
RunOrdering ==
  [db |-> Tables(<<InsertRow(Home, "Pending", 0, 25, -1, 9),
                   InsertRow(Home, "Pending", 0, 25, -2, 1)>>),
   program |-> <<Notified(Home, {1, 2})>>]

\* Two claimable rows flank a completed one.
RunPartialClaim ==
  [db |-> Tables(<<InsertRow(Home, "Pending", 0, 25, -3, 5),
                   InsertRow(Home, "Done", 0, 25, -2, 5),
                   InsertRow(Home, "Pending", 0, 25, -1, 5)>>),
   program |-> <<Notified(Home, {1, 2, 3})>>]

RunById(s) ==
  CASE s.case = "unlisted"    -> RunSkipsUnlisted
    [] s.case = "cross queue" -> RunCrossQueue
    [] s.case = "ordering"    -> RunOrdering
    [] s.case = "partial"     -> RunPartialClaim

\* The ids the file expects, in order; tie_break and the buffer cases name
\* how many, oldest first.
ExpectedIds(s) ==
  CASE s.kind = "buffer"    -> [a \in 1..(IF s.buffer < s.seeded THEN s.buffer ELSE s.seeded) |->
                                  s.seeded + 1 - a]
    [] s.kind = "isolation" -> <<1>>
    [] s.kind = "tie break" -> <<2, 1>>
    [] s.kind = "status"    -> IF Eligible(s) THEN <<1>> ELSE <<>>
    [] s.kind = "by id"     -> CASE s.case = "unlisted"    -> <<1>>
                                 [] s.case = "cross queue" -> <<>>
                                 [] s.case = "ordering"    -> <<1, 2>>
                                 [] s.case = "partial"     -> <<1, 3>>

\* claimed_row_is_queued
ClaimedRowIsQueued(r) ==
  r.status = "Queued" /\ r.lock_by = Worker /\ r.lock_at # None /\ r.done_at = None

-----------------------------------------------------------------------------
(* fail_undecodable_task *)

\* claim_epoch_secs
ClaimEpoch == Now - 10

\* insert_lock_state_row and insert_live_claim_with_budget
InsertLockStateRow(status, attempts, max_attempts, lock_by, lock_at, last_result) ==
  [queue |-> Home, status |-> status, attempts |-> attempts, max_attempts |-> max_attempts,
   run_at |-> Now - 1, priority |-> 0, lock_by |-> lock_by, lock_at |-> lock_at,
   done_at |-> None, last_result |-> last_result]

\* The rows of run_fail_undecodable: what an acknowledgement, a sweep or a
\* later claim made of the claim before its delayed release.
StoredRow(case) ==
  CASE case = "live claim" -> InsertLockStateRow("Running", 0, 25, OwnerA, ClaimEpoch, None)
    [] case = "acked done" -> InsertLockStateRow("Done", 1, 25, OwnerA, ClaimEpoch, "ok")
    [] case = "swept pending" -> InsertLockStateRow("Pending", 1, 25, None, None, None)
    [] case = "reclaimed by other" -> InsertLockStateRow("Running", 0, 25, OwnerB, ClaimEpoch, None)
    [] case = "reclaimed later" -> InsertLockStateRow("Running", 0, 25, OwnerA, ClaimEpoch + 5, None)
    [] case = "attempts advanced" -> InsertLockStateRow("Running", 1, 25, OwnerA, ClaimEpoch, None)

EpochSetups ==
  [kind : {"epoch"}, case : {"live claim", "acked done", "swept pending", "reclaimed by other",
                             "reclaimed later", "attempts advanced"}]

\* run_fail_undecodable: the caller presents the claim of worker A, 0 attempts.
RunFailUndecodable(s) ==
  [db |-> Tables(<<StoredRow(s.case)>>),
   program |-> <<[op |-> "fail undecodable", id |-> 1, name |-> OwnerA, at |-> ClaimEpoch,
                  attempts |-> 0]>>]

BudgetSetups == [kind : {"budget"}, budget : {<<0, 3>>, <<2, 3>>, <<2, 2>>, <<I32Max, I32Max>>}]

\* run_fail_undecodable_budget
RunFailUndecodableBudget(s) ==
  [db |-> Tables(<<InsertLockStateRow("Running", s.budget[1], s.budget[2], OwnerA, ClaimEpoch, None)>>),
   program |-> <<[op |-> "fail undecodable", id |-> 1, name |-> OwnerA, at |-> ClaimEpoch,
                  attempts |-> s.budget[1]]>>]

\* release_lands_in
ReleaseLandsIn(res, row, status, attempts) ==
  /\ res.n = 1 /\ row.status = status /\ row.attempts = attempts
  /\ row.done_at # None /\ row.last_result = "decode error"

\* The live claim is failed; every other row is left exactly as it was.
EpochMatrix(s, res, row) ==
  IF s.case = "live claim" THEN ReleaseLandsIn(res, row, "Failed", 1)
  ELSE res.n = 0 /\ row = StoredRow(s.case)

\* The incremented attempt is retried, kills at the budget, and is clamped.
BudgetMatrix(s, res, row) ==
  CASE s.budget = <<0, 3>> -> ReleaseLandsIn(res, row, "Failed", 1)
    [] s.budget = <<2, 3>> -> ReleaseLandsIn(res, row, "Killed", 3)
    [] s.budget = <<2, 2>> -> ReleaseLandsIn(res, row, "Killed", 2)
    [] OTHER -> ReleaseLandsIn(res, row, "Killed", I32Max)

-----------------------------------------------------------------------------

Setups ==
  BufferSetups \union IsolationSetups \union TieBreakSetups \union StatusSetups
  \union ByIdSetups \union EpochSetups \union BudgetSetups

Scenario(s) ==
  CASE s.kind = "buffer"    -> RunBufferSizes(s)
    [] s.kind = "isolation" -> RunCrossQueueIsolation(s)
    [] s.kind = "tie break" -> RunEqualPriorityTieBreak(s)
    [] s.kind = "status"    -> RunStatusMatrix(s)
    [] s.kind = "by id"     -> RunById(s)
    [] s.kind = "epoch"     -> RunFailUndecodable(s)
    [] s.kind = "budget"    -> RunFailUndecodableBudget(s)

Init ==
  /\ setup \in Setups
  /\ db = Scenario(setup).db
  /\ program = Scenario(setup).program
  /\ open = NoTx
  /\ out = <<>>

Spec == Init /\ [][Next]_vars

\* The poll path and the notify path claim exactly the eligible rows of their
\* queue, within the buffer, best priority and oldest schedule first, and
\* leave every other row as it was.
ClaimSpec ==
  Finished /\ setup.kind \notin {"epoch", "budget"} =>
    /\ out[1].ids = ExpectedIds(setup)
    /\ \A i \in DOMAIN db.jobs :
         IF \E a \in DOMAIN out[1].ids : out[1].ids[a] = i
         THEN ClaimedRowIsQueued(db.jobs[i])
         ELSE db.jobs[i] = Scenario(setup).db.jobs[i]

\* A delayed release of an undecodable claim fails the claim it was made for,
\* within its budget and without overflow, and never the row an
\* acknowledgement, a sweep or a later claim left behind.
DelayedReleaseSpec ==
  Finished =>
    /\ setup.kind = "epoch" => EpochMatrix(setup, out[1], db.jobs[1])
    /\ setup.kind = "budget" => BudgetMatrix(setup, out[1], db.jobs[1])

=============================================================================
