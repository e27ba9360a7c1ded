------------------------------ MODULE MCTables ------------------------------
(***************************************************************************)
(* What the statements store and what the readers make of it, for TLC.  A  *)
(* behaviour is one of ten worlds, chosen at its start:                    *)
(*   fence      three connections whose transactions lock and wait;        *)
(*   outbox     two connections that push in transactions of their own;    *)
(*   walk       a dashboard that pages through a changing listing;         *)
(*   requests   pages at and beyond the limits of the columns;             *)
(*   stats      statistics of a queue as time passes;                      *)
(*   snapshot   two processes that refresh the snapshot;                   *)
(*   results    the result column, with texts around a cap of 4 bytes;     *)
(*   worker, fetch, lifecycle   the matrices of src/query_specs.           *)
(***************************************************************************)
EXTENDS WorkerFence, Outbox, TaskResults, TLC

CONSTANTS s1, s2, s3, c1, c2, i1, i2, k1, k2, long, o1, qa, qb, wa, wb, t1, t2, r1, r2, All

VARIABLES
  world,
  jobs, walk, reply, writes,                              \* listings, statistics
  registered, now, populated, snapshot, refresh, rejected,
  setup, db, held, program, out                           \* query_specs

\* The tokens of the fence are i1 and i2 as well: no world has both tokens and
\* pushed ids.
Symmetry == Permutations({s1, s2, s3}) \cup Permutations({i1, i2})

Walk == INSTANCE TaskListing WITH
  Id <- 1 .. 3, Queue <- {qa, qb}, RunAt <- {1}, DoneAt <- {1, 2}, PageSize <- {1, 2},
  Page <- {2}, MaxU32 <- 15, MaxI32 <- 7, MaxWrites <- 3

Requests == INSTANCE TaskListing WITH
  Id <- 1 .. 3, Queue <- {qa, qb}, RunAt <- {1}, DoneAt <- {1}, PageSize <- {1, 2, 9},
  Page <- {0, 1, 2, 5}, MaxU32 <- 15, MaxI32 <- 7, MaxWrites <- 2

WorkerQueue == (wa :> qa) @@ (wb :> qb)

Stats == INSTANCE QueueStats WITH
  Task <- {t1, t2}, Queue <- {qa, qb}, Worker <- {wa, wb}, QueueOf <- WorkerQueue,
  Hour <- 1, Day <- 2, Week <- 3, Delay <- {0, 1}, Refresher <- {}, MaxTime <- 3

Snapshot == INSTANCE QueueStats WITH
  Task <- {t1, t2}, Queue <- {qa}, Worker <- {wa}, QueueOf <- WorkerQueue,
  Hour <- 1, Day <- 2, Week <- 3, Delay <- {0}, Refresher <- {r1, r2}, MaxTime <- 0

\* The last two texts are cut within a character unless the cut walks back.
SmallText == {<<>>, <<1, 4>>, <<1, 2, 5>>, <<3, 6>>}

\* What the proofs about the readers assume of these instances.
ASSUME ReaderConstants ==
  /\ Walk!ListingAssumption /\ Requests!ListingAssumption
  /\ Stats!StatsAssumption /\ Snapshot!StatsAssumption

WorkerQ    == INSTANCE WorkerSpecs WITH I32Max <- 100, BatchLimit <- 3, None <- Null, open <- held
FetchQ     == INSTANCE FetchSpecs WITH I32Max <- 100, BatchLimit <- 3, None <- Null, open <- held
LifecycleQ == INSTANCE LifecycleSpecs WITH
  I32Max <- 100, BatchLimit <- 3, None <- Null, open <- held

listingVars == <<walk, writes>>
statsVars   == <<registered, now, populated, snapshot, refresh, rejected>>
specVars    == <<setup, db, held, program, out>>
readVars    == <<jobs, reply, listingVars, statsVars>>

\* The parts a world is not about keep one state.
ListingIdle == walk = Null /\ writes = Null
StatsIdle   == /\ registered = Null /\ now = Null /\ populated = Null /\ snapshot = Null
               /\ refresh = Null /\ rejected = Null
SpecIdle    == setup = Null /\ db = Null /\ held = Null /\ program = Null /\ out = Null
ResultsIdle == \A t \in TaskIds : ~task[t].foreign
ReadIdle    == jobs = Null /\ reply = Null /\ ListingIdle /\ StatsIdle

MCInit ==
  /\ Init /\ OutboxInit /\ ResultInit
  /\ \/ world \in {"fence", "outbox"} /\ ReadIdle /\ SpecIdle
     \/ world = "walk" /\ Walk!Init /\ StatsIdle /\ SpecIdle
     \/ world = "requests" /\ Requests!Init /\ StatsIdle /\ SpecIdle
     \/ world = "stats" /\ Stats!Init /\ reply = Null /\ ListingIdle /\ SpecIdle
     \/ /\ world = "snapshot" /\ Snapshot!Init
        /\ reply = Null /\ ListingIdle /\ SpecIdle
     \/ world = "results" /\ ReadIdle /\ SpecIdle
     \/ world = "worker" /\ WorkerQ!Init /\ ReadIdle
     \/ world = "fetch" /\ FetchQ!Init /\ ReadIdle
     \/ world = "lifecycle" /\ LifecycleQ!Init /\ ReadIdle
  /\ world # "results" => ResultsIdle

ReadNext ==
  \/ world = "walk" /\ Walk!Next /\ UNCHANGED statsVars
  \/ world = "requests" /\ Requests!Next /\ UNCHANGED statsVars
  \/ world = "stats" /\ Stats!Next /\ UNCHANGED <<reply, listingVars>>
  \/ world = "snapshot" /\ Snapshot!Next /\ UNCHANGED <<reply, listingVars>>

SpecNext ==
  \/ world = "worker" /\ WorkerQ!Next
  \/ world = "fetch" /\ FetchQ!Next
  \/ world = "lifecycle" /\ LifecycleQ!Next

MCNext ==
  /\ \/ world = "fence" /\ Next /\ UNCHANGED <<outboxVars, resultVars, readVars, specVars>>
     \/ world = "outbox" /\ OutboxNext /\ UNCHANGED <<vars, resultVars, readVars, specVars>>
     \/ world = "results" /\ ResultNext /\ UNCHANGED <<vars, outboxVars, readVars, specVars>>
     \/ ReadNext /\ UNCHANGED <<vars, outboxVars, resultVars, specVars>>
     \/ SpecNext /\ UNCHANGED <<vars, outboxVars, resultVars, readVars>>
  /\ UNCHANGED world

MCSpec == MCInit /\ [][MCNext]_<<vars, outboxVars, resultVars, readVars, specVars, world>>

-----------------------------------------------------------------------------
(* Listings. *)

\* A row has a completion time exactly when an acknowledgement ended it, so
\* that the listings sort finished tasks by it.
ListingTypeOK == world = "walk" => Walk!TypeOK

\* Paging through a listing nothing enters or leaves shows every row exactly
\* once: the order of rows with equal timestamps is the same for every page
\* (the id tie-breaker of list_tasks), and pages neither overlap nor leave a
\* gap.  Rows that enter meanwhile push others onto later pages and never hide
\* one: a walk during which no row left the listing has shown every row it
\* held from the start.
WalkExact == world = "walk" => Walk!WalkExact

\* A request beyond what the columns can express is refused and never answered
\* with another page's rows (filter_offset_i32): an answered page holds rows
\* exactly when the listing reaches that far.
PageInRange == world = "requests" => Requests!PageInRange

\* A page fails only for a row it holds itself, a payload the codec refuses
\* fails only the listing that decodes it, and no stored row makes a call
\* panic (task_row, list_tasks, fetch_by_id).
FailureForCause == world = "requests" => Requests!FailureForCause

(* Statistics. *)

\* An active row has no completion time, so that no statistic counts an
\* earlier attempt's end for it.
StatsTypeOK == world = "stats" => Stats!TypeOK

\* A queue with tasks is never listed without its statistics: no aggregate
\* over no row reaches the decoder of QueueInfoRow as a JSON null.
StatsNeverDropped == world = "stats" => Stats!StatsNeverDropped

\* The dashboard's pages agree: list_queues, the queue's own metrics and the
\* global metrics count the same rows in the same way.
StatsAgree == world = "stats" => Stats!StatsAgree

\* A queue shows the workers that hold its tasks and only registered ones, and
\* a queue that only has workers is listed as well (list_queues).
WorkersListed == world = "stats" => Stats!WorkersListed

\* PostgreSQL never refuses refresh_queue_stats_snapshot, whichever processes
\* refresh at once and however the table changes in between.
RefreshAccepted == world = "snapshot" => Snapshot!RefreshAccepted

\* The columns the view shares with list_queues are its statistics at the same
\* moment.
SnapshotAgrees == [][world = "snapshot" => Snapshot!RefreshAgrees]_statsVars

(* The matrices of src/query_specs. *)

\* reenqueue_orphaned does to each row what orphan_recovery and overflow_sweep
\* expect, over every combination of status, budget, earlier result, heartbeat
\* age and queue.
OrphanRecoverySpec == world = "worker" => WorkerQ!OrphanRecoverySpec

\* A sweep is bounded and an attempt lost is charged once: after each of two
\* sweeps of a backlog larger than the batch exactly the batch was recovered,
\* and of two sweeps of one row, overlapping or not, only one touches it.
SweepOnceSpec == world = "worker" => WorkerQ!SweepOnceSpec

\* register_worker_blocking decides as its matrix says, and a busy advisory
\* lock refuses before any row is read or written.
RegistrationSpec == world = "worker" => WorkerQ!RegistrationSpec

\* A heartbeat renews exactly the registration whose id, queue and token the
\* caller presents; a registration without a token is renewed by none.
HeartbeatSpec == world = "worker" => WorkerQ!HeartbeatSpec

\* fetch_next and queue_by_id claim exactly the eligible rows of their queue,
\* within the buffer, best priority and oldest schedule first, and leave every
\* other row as it was.
ClaimSpec == world = "fetch" => FetchQ!ClaimSpec

\* A delayed fail_undecodable_task fails the claim it was made for, within its
\* budget and without overflow, and never the row an acknowledgement, a sweep
\* or a later claim left behind.
DelayedReleaseSpec == world = "fetch" => FetchQ!DelayedReleaseSpec

\* release_worker_blocking hands back the queue's active claims, frees the
\* name for an immediate successor and keeps completed history and other
\* queues; without the token it changes nothing.
ReleaseSpec == world = "lifecycle" => LifecycleQ!ReleaseSpec

\* A claim recovered by a sweep, a takeover or a release is charged, except by
\* a release when no handler had started it.
RecoveryChargeSpec == world = "lifecycle" => LifecycleQ!RecoveryChargeSpec

\* A purge deletes exactly the terminal rows of its queue outside the window,
\* with a cutoff clamped to the timestamp range, never more than a batch at a
\* time, and its repeated batches drain the backlog.
PurgeSpec == world = "lifecycle" => LifecycleQ!PurgeSpec

\* prune_workers deletes exactly the stale registrations of its queue that no
\* row names and no transaction holds, and keeps a candidate that was claimed
\* after the candidates were selected.
PruneSpec == world = "lifecycle" => LifecycleQ!PruneSpec

(* What the run checks. *)

\* The readers: listings neither hide nor repeat a row and fail for a cause,
\* statistics agree with each other, and a refresh is never refused.
ReadersSound ==
  /\ ListingTypeOK /\ WalkExact /\ PageInRange /\ FailureForCause
  /\ StatsTypeOK /\ StatsNeverDropped /\ StatsAgree /\ WorkersListed /\ RefreshAccepted

\* Every statement does what its matrix in src/query_specs expects.
StatementSpecs ==
  /\ OrphanRecoverySpec /\ SweepOnceSpec /\ RegistrationSpec /\ HeartbeatSpec
  /\ ClaimSpec /\ DelayedReleaseSpec
  /\ ReleaseSpec /\ RecoveryChargeSpec /\ PurgeSpec /\ PruneSpec

\* Answers are about the moment they are given: a conflict names exactly the
\* keys that collided, and a refreshed snapshot is what list_queues shows.
AnswersExact == ConflictKeysExact /\ SnapshotAgrees

=============================================================================
