------------------------------ MODULE MCUpkeep ------------------------------
(***************************************************************************)
(* The upkeep of a queue and of its schema for TLC.  A behaviour is one of *)
(* five worlds, chosen at its start:                                       *)
(*   orphans   three workers whose loops run when they are due, one task;  *)
(*   late      two workers whose loops may run late, two tasks;            *)
(*   purge     two calls of purge_terminal_tasks that ask for batches of   *)
(*             no rows;                                                    *)
(*   prune     two calls of prune_workers beside a purge;                  *)
(*   setup     three processes that set up a database, one that checks it. *)
(***************************************************************************)
EXTENDS LeaseRecovery, Migrations

CONSTANTS j1, j2, p1, p2, q1, q2

VARIABLES
  world,
  job, by, aged, reg, stale, claiming, rowLock, regLock, purge, prune

Late == INSTANCE LeaseRecovery WITH
  Workers <- {1, 2}, Jobs <- {1, 2}, MaxTime <- 3, Prompt <- FALSE

Purging == INSTANCE Retention WITH
  Jobs <- {j1, j2}, Workers <- {1}, Purgers <- {p1, p2}, Pruners <- {}, Limit <- 0

Pruning == INSTANCE Retention WITH
  Jobs <- {j1}, Workers <- {1, 2}, Purgers <- {p1}, Pruners <- {q1, q2}, Limit <- 1

ASSUME UpkeepAssumption ==
  /\ Purging!RetentionAssumption /\ Pruning!RetentionAssumption
  /\ Late!RecoveryConstants

retentionVars == <<job, by, aged, reg, stale, claiming, rowLock, regLock, purge, prune>>

\* The parts a world is not about keep one state.
RecoveryIdle  == Init /\ keepAlive = 1 /\ staleAfter = 2
RetentionIdle == Purging!Init
SetupIdle     == SetupInit /\ db = Empty

MCInit ==
  \/ world = "orphans" /\ Init /\ RetentionIdle /\ SetupIdle
  \/ world = "late" /\ Late!Init /\ RetentionIdle /\ SetupIdle
  \/ world = "purge" /\ Purging!Init /\ RecoveryIdle /\ SetupIdle
  \/ world = "prune" /\ Pruning!Init /\ RecoveryIdle /\ SetupIdle
  \/ world = "setup" /\ SetupInit /\ RecoveryIdle /\ RetentionIdle

MCNext ==
  /\ \/ world = "orphans" /\ Next /\ UNCHANGED <<retentionVars, setupVars>>
     \/ world = "late" /\ Late!Next /\ UNCHANGED <<retentionVars, setupVars>>
     \/ world = "purge" /\ Purging!Next /\ UNCHANGED <<vars, setupVars>>
     \/ world = "prune" /\ Pruning!Next /\ UNCHANGED <<vars, setupVars>>
     \/ world = "setup" /\ SetupNext /\ UNCHANGED <<vars, retentionVars>>
  /\ UNCHANGED world

\* Timers fire, a statement that was sent is executed, and the loops of a
\* live worker go on; the caller of a purge awaits it and the database
\* executes what it is sent; a process that called setup goes on until it has
\* an answer.
MCFairness ==
  /\ WF_vars(world = "orphans" /\ Tick)
  /\ \A w \in Workers :
       /\ WF_vars(world = "orphans" /\ Sweep(w)) /\ WF_vars(world = "orphans" /\ KeepAlive(w))
       /\ WF_vars(world = "orphans" /\ (LateRenewal(w) \/ LateClaim(w)))
  /\ \A p \in {p1, p2} :
       WF_retentionVars(world = "purge" /\ (Purging!PurgeBatch(p) \/ Purging!CommitPurge(p)))
  /\ \A m \in Procs : WF_setupVars(world = "setup" /\ Setup(m))

MCSpec == MCInit /\ [][MCNext]_<<vars, retentionVars, setupVars, world>> /\ MCFairness

-----------------------------------------------------------------------------
\* Types, and the foreign key of jobs.lock_by: a claim names a registration
\* that exists, although registrations are pruned while the last statements
\* of stopped workers are still on their way.
RecoveryTypeOK == IF world = "late" THEN Late!TypeOK ELSE TypeOK

\* A worker whose renewals run when they are due is never stale, so neither a
\* sweep nor a successor takes its claims, and its registration is not pruned.
PromptFresh == IF world = "late" THEN Late!PromptIsFresh ELSE PromptIsFresh

\* A claim of a worker that has stopped is recovered, by a sweep or by a
\* successor, as long as some worker of the queue stays alive: although its
\* last renewal and a last claim arrive late, although sweeps are bounded and
\* skip locked rows, and although registrations without claims are stale too.
OrphansRecovered ==
  (\E w \in Workers : <>[](world = "orphans" /\ w \in Live)) =>
    \A v \in Workers, j \in Jobs :
      (world = "orphans" /\ owner[j] = v /\ v \notin Live) ~>
        (world = "orphans" /\ (owner[j] # v \/ v \in Live))

\* Types, and the foreign key of jobs.lock_by: prune_workers deletes no
\* registration that a task names, although a claim committed after the
\* snapshot its candidates were chosen under.
RetentionTypeOK == IF world = "prune" THEN Pruning!TypeOK ELSE Purging!TypeOK

\* purge_terminal_tasks deletes finished tasks only, and of these only the
\* ones finished for completed_before when it began: a result that lands
\* while batches are deleted is kept.
PurgeWindow ==
  [][IF world = "prune" THEN Pruning!DeletesInWindow ELSE Purging!DeletesInWindow]_retentionVars

\* A purge_terminal_tasks that returns has deleted every row older than its
\* cutoff, except those another transaction held during its last batch.
PurgeDrains ==
  [][IF world = "prune" THEN Pruning!ReturnsDrained ELSE Purging!ReturnsDrained]_retentionVars

\* A prune_workers that returns has deleted every registration its last batch
\* could have found, except those a task came to reference: candidates claimed
\* between the snapshot and the lock do not end the loop early.
PruneDrains == [][world = "prune" => Pruning!ReturnsPruned]_retentionVars

\* A purge ends although the queue keeps finishing tasks and although its
\* caller asked for batches of no rows.
PurgeEnds ==
  \A p \in {p1, p2} : (world = "purge" /\ purge[p].pc = "loop") ~>
    (world = "purge" /\ Purging!PurgeOver(p))

\* Every call of setup gets an answer: nobody waits for the advisory lock for
\* ever.
SetupEnds == \A m \in Procs : (world = "setup") ~> (proc[m] \in {"ok", "failed"})

\* The foreign key of jobs.lock_by holds against every sweep, prune and late
\* claim, and a worker that renews when due is never stale.
RegistrationsKept == RecoveryTypeOK /\ RetentionTypeOK /\ PromptFresh

\* Steps of the upkeep: purges delete inside their window and return drained,
\* prunes return drained, and a setup commits everything or nothing.
UpkeepExact == PurgeWindow /\ PurgeDrains /\ PruneDrains /\ AllOrNothing

\* Orphans are recovered, purges end and setups are answered.
UpkeepEnds == OrphansRecovered /\ PurgeEnds /\ SetupEnds

=============================================================================
