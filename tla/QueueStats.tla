----------------------------- MODULE QueueStats -----------------------------
(***************************************************************************)
(* What dashboards are told about the queues: list_queues, metrics (global *)
(* and per queue) and the materialized snapshot queue_stats_snapshot.      *)
(*                                                                         *)
(* The same statistics are written three times in SQL: the rollup of       *)
(* LIST_QUEUES_SQL, the rollup of build_metrics_sql and the view of        *)
(* migration 20260521000003.  Each is an operator of its own here, over    *)
(* the rows it scans.  A ratio is kept as the pair ROUND divides, a time   *)
(* in clock units; an aggregate over no row is Null.                       *)
(***************************************************************************)
EXTENDS Integers, FiniteSets, FiniteSetsExt

CONSTANTS
  Task,       \* task ids
  Queue,      \* queue names
  Worker,     \* worker names, one registration each
  QueueOf,    \* the queue of each worker's registration
  Hour,       \* clock units in INTERVAL '1 hour'
  Day,        \* clock units in INTERVAL '1 day'
  Week,       \* clock units in INTERVAL '7 days'
  Delay,      \* delays a task is enqueued with
  Refresher,  \* processes that refresh the snapshot
  MaxTime,    \* bound: the clock stops here
  Null        \* SQL NULL

\* A table is finite, times are counted from 0, and Null is no value of another
\* column or aggregate.
StatsAssumption ==
  /\ IsFiniteSet(Task) /\ Delay \subseteq Nat /\ MaxTime \in Nat
  /\ Null \notin Nat /\ Null \notin Worker /\ Null \notin {"text", "epoch"} \X Nat

Status == {"Pending", "Queued", "Running", "Failed", "Done", "Killed"}

Row == [queue : Queue, status : Status, run_at : Nat, done_at : Nat \union {Null},
        lock_by : Worker \union {Null}]

Absent == [status |-> "Absent"]

VARIABLES
  jobs,         \* apalis.jobs
  registered,   \* workers with a row in apalis.workers
  now,          \* the server clock
  populated,    \* pg_matviews.ispopulated
  snapshot,     \* contents of queue_stats_snapshot, a rollup per queue
  refresh,      \* what each refresher has found out: the statement it will run
  rejected      \* refreshers whose statement PostgreSQL refused

vars == <<jobs, registered, now, populated, snapshot, refresh, rejected>>
tableVars == <<jobs, registered, now>>
snapVars == <<populated, snapshot, refresh, rejected>>

Init ==
  /\ jobs = [t \in Task |-> Absent]
  /\ registered = {}
  /\ now = 0
  /\ populated = FALSE
  /\ snapshot = <<>>
  /\ refresh = [r \in Refresher |-> "idle"]
  /\ rejected = {}

-----------------------------------------------------------------------------
(* Aggregates. *)

Rows == {t \in Task : jobs[t] # Absent}
In(q) == {t \in Rows : jobs[t].queue = q}
Having(S, statuses) == {t \in S : jobs[t].status \in statuses}
Since(S, span) == {t \in S : jobs[t].run_at >= now - span}
Today(S) == {t \in S : jobs[t].run_at \div Day = now \div Day}
Count(S) == Cardinality(S)

\* ROUND(100.0 * part / NULLIF(whole, 0), 2)
Percent(part, whole) == IF whole = 0 THEN Null ELSE <<part, whole>>

\* The sum and the number of the durations AVG divides.
AvgDuration(S) ==
  LET over == {t \in Having(S, {"Done", "Failed", "Killed"}) : jobs[t].done_at # Null}
  IN IF over = {} THEN Null
     ELSE <<FoldSet(LAMBDA t, sum : sum + jobs[t].done_at - jobs[t].run_at, 0, over), Count(over)>>

Longest(S) ==
  LET held == Having(S, {"Queued", "Running"})
  IN IF held = {} THEN 0 ELSE Max({now - jobs[t].run_at : t \in held})

MaxRunAt(S) == IF S = {} THEN Null ELSE Max({jobs[t].run_at : t \in S})
\* A timestamp cast to text, or the number of seconds EXTRACT(EPOCH ...) gives.
As(form, time) == IF time = Null THEN Null ELSE <<form, time>>

MinRunAt(S) == IF S = {} THEN Null ELSE Min({jobs[t].run_at : t \in S})

\* Mutated form: a queued row counts as stale only once it runs.
StaleRunningOnly(S) == {t \in Having(S, {"Running"}) : jobs[t].run_at < now - Hour}

\* stale_running_jobs of LIST_QUEUES_SQL
StaleRunning(S) == {t \in Having(S, {"Queued", "Running"}) : jobs[t].run_at < now - Hour}

\* job_rollup and queue_stats of LIST_QUEUES_SQL.
JobRollup(S) ==
  [RUNNING_JOBS |-> Count(Having(S, {"Running"})),
   PENDING_JOBS |-> Count(Having(S, {"Pending"})),
   FAILED_JOBS |-> Count(Having(S, {"Failed"})),
   ACTIVE_JOBS |-> Count(Having(S, {"Pending", "Queued", "Running"})),
   STALE_RUNNING_JOBS |-> Count(StaleRunning(S)),
   KILL_RATE |-> Percent(Count(Having(S, {"Killed"})), Count(S)),
   JOBS_PAST_HOUR |-> Count(Since(S, Hour)),
   JOBS_TODAY |-> Count(Today(S)),
   KILLED_JOBS_TODAY |-> Count(Having(Today(S), {"Killed"})),
   AVG_JOBS_PER_MINUTE_PAST_HOUR |-> <<Count(Since(S, Hour)), 60>>,
   TOTAL_JOBS |-> Count(S),
   DONE_JOBS |-> Count(Having(S, {"Done"})),
   KILLED_JOBS |-> Count(Having(S, {"Killed"})),
   SUCCESS_RATE |-> Percent(Count(Having(S, {"Done"})), Count(S)),
   AVG_JOB_DURATION_MINS |-> AvgDuration(S),
   LONGEST_RUNNING_JOB_MINS |-> Longest(S),
   JOBS_PAST_7_DAYS |-> Count(Since(S, Week)),
   MOST_RECENT_JOB |-> As("text", MaxRunAt(S))]

\* job_rollup, peak_hour and the UNION of build_metrics_sql; S is the queue's
\* rows, or all of them.  The three DB_ statistics measure storage and are left
\* out.
MetricsRollup(S) ==
  [RUNNING_JOBS |-> Count(Having(S, {"Running"})),
   PENDING_JOBS |-> Count(Having(S, {"Pending"})),
   FAILED_JOBS |-> Count(Having(S, {"Failed"})),
   ACTIVE_JOBS |-> Count(Having(S, {"Pending", "Running", "Queued"})),
   STALE_RUNNING_JOBS |-> Count({t \in Having(S, {"Queued", "Running"}) : jobs[t].run_at < now - Hour}),
   KILL_RATE |-> Percent(Count(Having(S, {"Killed"})), Count(S)),
   JOBS_PAST_HOUR |-> Count(Since(S, Hour)),
   JOBS_TODAY |-> Count(Today(S)),
   KILLED_JOBS_TODAY |-> Count(Today(Having(S, {"Killed"}))),
   AVG_JOBS_PER_MINUTE_PAST_HOUR |-> <<Count(Since(S, Hour)), 60>>,
   TOTAL_JOBS |-> Count(S),
   DONE_JOBS |-> Count(Having(S, {"Done"})),
   COMPLETED_JOBS |-> Count(Having(S, {"Done", "Failed", "Killed"})),
   KILLED_JOBS |-> Count(Having(S, {"Killed"})),
   SUCCESS_RATE |-> Percent(Count(Having(S, {"Done"})), Count(S)),
   AVG_JOB_DURATION_MINS |-> AvgDuration(S),
   LONGEST_RUNNING_JOB_MINS |-> Longest(S),
   QUEUE_BACKLOG |-> Count({t \in Having(S, {"Pending"}) : jobs[t].run_at <= now}),
   JOBS_PAST_24_HOURS |-> Count(Since(S, Day)),
   JOBS_PAST_7_DAYS |-> Count(Since(S, Week)),
   KILLED_JOBS_PAST_7_DAYS |-> Count(Having(Since(S, Week), {"Killed"})),
   SUCCESS_RATE_PAST_24H |-> Percent(Count(Having(Since(S, Day), {"Done"})), Count(Since(S, Day))),
   AVG_JOBS_PER_HOUR_PAST_24H |-> <<Count(Since(S, Day)), 24>>,
   AVG_JOBS_PER_DAY_PAST_7D |-> <<Count(Since(S, Week)), 7>>,
   MOST_RECENT_JOB |-> As("epoch", MaxRunAt(S)),
   OLDEST_PENDING_JOB |-> As("epoch", MinRunAt({t \in Having(S, {"Pending"}) : jobs[t].run_at <= now})),
   PEAK_HOUR_JOBS |-> LET past == Since(S, Day)
                          hourly == {Count({u \in past : (jobs[u].run_at \div Hour) % 24
                                                       = (jobs[t].run_at \div Hour) % 24}) : t \in past}
                      IN IF hourly = {} THEN 0 ELSE Max(hourly)]

\* Mutated form: the view counts a queued row as neither active nor done.
SnapshotRowWithoutQueued(S) ==
  [TOTAL_JOBS |-> Count(S),
   ACTIVE_JOBS |-> Count(Having(S, {"Pending", "Running"}))]

\* The row of queue_stats_snapshot for the rows S of one queue: the columns it
\* shares with queue_stats.  queued_jobs, jobs_past_day, most_recent_run_at,
\* most_recent_done_at and snapshot_at have no counterpart there.
SnapshotRow(S) ==
  [TOTAL_JOBS |-> Count(S),
   RUNNING_JOBS |-> Count(Having(S, {"Running"})),
   PENDING_JOBS |-> Count(Having(S, {"Pending"})),
   FAILED_JOBS |-> Count(Having(S, {"Failed"})),
   DONE_JOBS |-> Count(Having(S, {"Done"})),
   KILLED_JOBS |-> Count(Having(S, {"Killed"})),
   ACTIVE_JOBS |-> Count(Having(S, {"Pending", "Queued", "Running"})),
   JOBS_PAST_HOUR |-> Count(Since(S, Hour)),
   JOBS_PAST_7_DAYS |-> Count(Since(S, Week))]

-----------------------------------------------------------------------------
(* The answers. *)

\* Mutated form: a NULL aggregate is rendered as a JSON null.
RenderedAsNull(stats) == stats

\* COALESCE(value, '0') of queue_stats, and unwrap_or "0" of a metrics row.
Rendered(stats) == [s \in DOMAIN stats |-> IF stats[s] = Null THEN 0 ELSE stats[s]]

\* From<QueueInfoRow>: Statistic.value is a string, so one JSON null fails the
\* decoding of the whole vector, and the default, no statistic, is returned.
Decoded(stats) ==
  IF \E s \in DOMAIN stats : stats[s] = Null THEN <<>> ELSE stats

\* Mutated form: only queues with tasks are listed.
QueuesWithTasks == {jobs[t].queue : t \in Rows}

\* all_job_types
AllJobTypes == {QueueOf[w] : w \in registered} \union {jobs[t].queue : t \in Rows}

\* locked_workers
LockedWorkers(q) ==
  {jobs[t].lock_by : t \in Having(In(q), {"Pending", "Queued", "Running"})} \ {Null}

\* daily_activity: how many tasks of the past week each day saw.
DailyActivity(q) ==
  LET week == Since(In(q), Week)
      date(t) == jobs[t].run_at \div Day
  IN [d \in {date(t) : t \in week} |-> Count({t \in week : date(t) = d})]

\* list_queues: a queue without tasks has no row in queue_stats.
ListQueues ==
  [q \in AllJobTypes |->
     [stats |-> IF In(q) = {} THEN <<>> ELSE Decoded(Rendered(JobRollup(In(q)))),
      workers |-> LockedWorkers(q), activity |-> DailyActivity(q)]]

\* metrics_rows
MetricsForQueue(q) == Rendered(MetricsRollup(In(q)))
MetricsGlobal == Rendered(MetricsRollup(Rows))

-----------------------------------------------------------------------------
(* Writers: the transitions of JobQueue that the statistics tell apart. *)

SetRow(t, row) ==
  /\ jobs' = [jobs EXCEPT ![t] = row]
  /\ UNCHANGED <<registered, now, snapVars>>

Enqueue(t, q, d) ==
  /\ jobs[t] = Absent
  /\ SetRow(t, [queue |-> q, status |-> "Pending", run_at |-> now + d, done_at |-> Null,
                lock_by |-> Null])

\* Mutated form: a retry keeps the completion time of the failed attempt.
ClaimKeepingTime(t, w) ==
  /\ w \in registered /\ jobs[t] # Absent
  /\ QueueOf[w] = jobs[t].queue
  /\ jobs[t].status \in {"Pending", "Failed"} /\ jobs[t].run_at <= now
  /\ SetRow(t, [jobs[t] EXCEPT !.status = "Queued", !.lock_by = w])

Claim(t, w) ==
  /\ w \in registered /\ jobs[t] # Absent
  /\ QueueOf[w] = jobs[t].queue
  /\ jobs[t].status \in {"Pending", "Failed"} /\ jobs[t].run_at <= now
  /\ SetRow(t, [jobs[t] EXCEPT !.status = "Queued", !.lock_by = w, !.done_at = Null])

Start(t) ==
  /\ jobs[t].status = "Queued"
  /\ SetRow(t, [jobs[t] EXCEPT !.status = "Running"])

Ack(t, status) ==
  /\ jobs[t].status = "Running"
  /\ SetRow(t, [jobs[t] EXCEPT !.status = status, !.done_at = now])

Recover(t, dead) ==
  /\ jobs[t].status \in {"Queued", "Running"}
  /\ SetRow(t, [jobs[t] EXCEPT !.status = IF dead THEN "Killed" ELSE "Pending", !.lock_by = Null,
                               !.done_at = IF dead THEN now ELSE Null])

Purge(t) ==
  /\ jobs[t].status \in {"Done", "Killed"}
  /\ SetRow(t, Absent)

Register(w) ==
  /\ w \notin registered
  /\ registered' = registered \union {w}
  /\ UNCHANGED <<jobs, now, snapVars>>

\* Pruning: the foreign key keeps a registration some row names.
Prune(w) ==
  /\ w \in registered
  /\ \A t \in Rows : jobs[t].lock_by # w
  /\ registered' = registered \ {w}
  /\ UNCHANGED <<jobs, now, snapVars>>

Tick ==
  /\ now < MaxTime
  /\ now' = now + 1
  /\ UNCHANGED <<jobs, registered, snapVars>>

-----------------------------------------------------------------------------
(* refresh_queue_stats_snapshot. *)

\* Mutated form: the refresh is always concurrent.
ChooseConcurrently(r) ==
  /\ refresh[r] = "idle" /\ r \notin rejected
  /\ refresh' = [refresh EXCEPT ![r] = "concurrently"]
  /\ UNCHANGED <<tableVars, populated, snapshot, rejected>>

\* SELECT ispopulated: the statement is chosen by what it says.
ChooseStatement(r) ==
  /\ refresh[r] = "idle" /\ r \notin rejected
  /\ refresh' = [refresh EXCEPT ![r] = IF populated THEN "concurrently" ELSE "blocking"]
  /\ UNCHANGED <<tableVars, populated, snapshot, rejected>>

\* The chosen statement runs later, on whatever the view has become; PostgreSQL
\* refuses CONCURRENTLY on a view that was never populated.
RunStatement(r) ==
  /\ refresh[r] # "idle"
  /\ refresh' = [refresh EXCEPT ![r] = "idle"]
  /\ IF refresh[r] = "concurrently" /\ ~populated
     THEN rejected' = rejected \union {r} /\ UNCHANGED <<populated, snapshot>>
     ELSE /\ snapshot' = [q \in {jobs[t].queue : t \in Rows} |-> SnapshotRow(In(q))]
          /\ populated' = TRUE
          /\ UNCHANGED rejected
  /\ UNCHANGED tableVars

Next ==
  \/ \E t \in Task :
       \/ \E q \in Queue, d \in Delay : Enqueue(t, q, d)
       \/ \E w \in Worker : Claim(t, w)
       \/ Start(t)
       \/ \E s \in {"Done", "Failed", "Killed"} : Ack(t, s)
       \/ \E dead \in BOOLEAN : Recover(t, dead)
       \/ Purge(t)
  \/ \E w \in Worker : Register(w) \/ Prune(w)
  \/ Tick
  \/ \E r \in Refresher : ChooseStatement(r) \/ RunStatement(r)

Spec == Init /\ [][Next]_vars

-----------------------------------------------------------------------------
(* Properties. *)

\* An active row has no completion time, so no statistic counts an earlier
\* attempt's end for it.
TypeOK ==
  /\ jobs \in [Task -> Row \union {Absent}]
  /\ registered \subseteq Worker
  /\ now \in 0..MaxTime
  /\ \A t \in Rows : jobs[t].status \in {"Pending", "Queued", "Running"} => jobs[t].done_at = Null

\* A queue with tasks is never listed without its statistics: no aggregate over
\* no row (the average duration of a queue that completed nothing) reaches the
\* decoder as a JSON null.
StatsNeverDropped ==
  LET listed == ListQueues
  IN \A q \in DOMAIN listed : In(q) # {} => listed[q].stats # <<>>

\* Every statistic list_queues reports of a queue is the one the queue's own
\* metrics report (the newest run_at, which one gives as text and the other in
\* seconds, is the same time).
PagesAgree ==
  LET listed == ListQueues
      metrics == [q \in DOMAIN listed |-> MetricsForQueue(q)]
  IN \A q \in DOMAIN listed : \A s \in DOMAIN listed[q].stats :
       IF s = "MOST_RECENT_JOB" THEN listed[q].stats[s][2] = metrics[q][s][2]
       ELSE listed[q].stats[s] = metrics[q][s]

\* The days of a queue's activity add up to the week its metrics count, and the
\* global metrics count what the listed queues count together.
TotalsAgree ==
  LET listed == ListQueues
      metrics == [q \in DOMAIN listed |-> MetricsForQueue(q)]
      global == MetricsGlobal
  IN /\ \A q \in DOMAIN listed :
          FoldSet(LAMBDA d, sum : sum + listed[q].activity[d], 0, DOMAIN listed[q].activity)
            = metrics[q].JOBS_PAST_7_DAYS
     /\ \A s \in {"RUNNING_JOBS", "ACTIVE_JOBS", "COMPLETED_JOBS", "TOTAL_JOBS", "QUEUE_BACKLOG",
                  "JOBS_PAST_HOUR", "JOBS_TODAY", "KILLED_JOBS_PAST_7_DAYS"} :
          global[s] = FoldSet(LAMBDA q, sum : sum + metrics[q][s], 0, DOMAIN listed)

\* The dashboard's pages agree with each other.
StatsAgree == PagesAgree /\ TotalsAgree

\* A queue shows the workers that hold its tasks and only registered ones, and
\* a queue that only has workers is listed as well.
WorkersListed ==
  LET listed == ListQueues
  IN /\ \A q \in DOMAIN listed : \A w \in listed[q].workers : w \in registered /\ QueueOf[w] = q
     /\ \A w \in registered : QueueOf[w] \in DOMAIN listed
     /\ \A t \in Rows : jobs[t].status \in {"Queued", "Running"} =>
          jobs[t].lock_by \in listed[jobs[t].queue].workers

\* PostgreSQL never refuses the refresh, whichever processes refresh the
\* snapshot at once and however the table changes in between.
RefreshAccepted == rejected = {}

\* The columns the view shares with list_queues are its statistics at the same
\* moment.
RefreshAgrees ==
  \A r \in Refresher : RunStatement(r) /\ r \notin rejected' =>
    LET listed == ListQueues
    IN \A q \in DOMAIN snapshot' : \A s \in DOMAIN snapshot'[q] :
         snapshot'[q][s] = listed[q].stats[s]
=============================================================================
