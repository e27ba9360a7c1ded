------------------------------ MODULE Retention ------------------------------
(***************************************************************************)
(* The two retention operations (queries/retention.rs), each a loop of     *)
(* bounded transactions, beside a queue that goes on working.              *)
(*                                                                         *)
(*   purge_terminal_tasks  samples a cutoff once, then deletes terminal    *)
(*     rows completed before it, skipping locked rows, until a statement   *)
(*     deletes fewer rows than its limit.                                  *)
(*   prune_workers  locks stale registrations that no task references      *)
(*     under the snapshot of the SELECT, deletes those that no task        *)
(*     references under the snapshot of the DELETE, until a batch locked   *)
(*     fewer rows than its limit.                                          *)
(*                                                                         *)
(* The step from a snapshot to the locks it selects is modelled: a claim   *)
(* may commit in between.  A claim holds a share lock on its registration  *)
(* until it commits, a locked registration admits no claim and no renewal. *)
(***************************************************************************)
EXTENDS Integers, FiniteSets, FiniteSetsExt

CONSTANTS
  Jobs,      \* task ids
  Workers,   \* worker names, numbers, for ORDER BY id
  Purgers,   \* concurrent calls of purge_terminal_tasks
  Pruners,   \* concurrent calls of prune_workers
  Limit,     \* the limit of a batch, PURGE_BATCH_LIMIT or PRUNE_BATCH_LIMIT
  None

\* What the proofs assume: finite tables, ids in an order, any limit.
RetentionAssumption ==
  /\ IsFiniteSet(Jobs)
  /\ Workers \subseteq Nat /\ IsFiniteSet(Workers)
  /\ Limit \in Int
  /\ None \notin Workers \cup Purgers \cup Pruners

VARIABLES
  job,       \* per task: "absent", "waiting", "held" or "done"
  by,        \* per task: lock_by, which a finished task keeps
  aged,      \* the tasks completed at least completed_before ago
  reg,       \* the rows of apalis.workers
  stale,     \* the registrations not renewed for stale_for
  claiming,  \* the workers with a claim in progress
  rowLock,   \* per task: the purge whose transaction holds the row
  regLock,   \* per worker: the prune whose transaction holds the registration
  purge,     \* per purger: its call
  prune      \* per pruner: its call

queueVars == <<job, by, aged>>
workerVars == <<reg, stale, claiming>>
vars == <<job, by, aged, reg, stale, claiming, rowLock, regLock, purge, prune>>

\* The state of a call before a batch.
PurgeAt(pc, cut) == [pc |-> pc, cut |-> cut, got |-> {}, skipped |-> {}]
PruneAt(pc, refs) == [pc |-> pc, refs |-> refs, got |-> {}, found |-> {}]

Init ==
  /\ job = [j \in Jobs |-> "absent"]
  /\ by = [j \in Jobs |-> None]
  /\ aged = {}
  /\ reg = {}
  /\ stale = {}
  /\ claiming = {}
  /\ rowLock = [j \in Jobs |-> None]
  /\ regLock = [w \in Workers |-> None]
  /\ purge = [p \in Purgers |-> PurgeAt("idle", {})]
  /\ prune = [q \in Pruners |-> PruneAt("idle", {})]

Referenced == {by[j] : j \in Jobs} \ {None}

-----------------------------------------------------------------------------
(***************************************************************************)
(* The queue at work.                                                      *)
(***************************************************************************)

retentionVars == <<rowLock, regLock, purge, prune>>

Enqueue(j) ==
  /\ job[j] = "absent"
  /\ job' = [job EXCEPT ![j] = "waiting"]
  /\ UNCHANGED <<by, aged, workerVars, retentionVars>>

\* worker_registration: FOR KEY SHARE on the registration, before any task.
BeginClaim(w) ==
  /\ w \in reg /\ w \notin claiming
  /\ regLock[w] = None
  /\ claiming' = claiming \cup {w}
  /\ UNCHANGED <<queueVars, reg, stale, retentionVars>>

CommitClaim(w) ==
  /\ w \in claiming
  /\ claiming' = claiming \ {w}
  /\ \/ UNCHANGED <<job, by>>
     \/ \E j \in Jobs : /\ job[j] = "waiting"
                        /\ job' = [job EXCEPT ![j] = "held"]
                        /\ by' = [by EXCEPT ![j] = w]
  /\ UNCHANGED <<aged, reg, stale, retentionVars>>

Finish(j) ==
  /\ job[j] = "held"
  /\ job' = [job EXCEPT ![j] = "done"]
  /\ UNCHANGED <<by, aged, workerVars, retentionVars>>

\* completed_before has passed since the task finished.
GrowOld(j) ==
  /\ job[j] = "done"
  /\ j \notin aged
  /\ aged' = aged \cup {j}
  /\ UNCHANGED <<job, by, workerVars, retentionVars>>

\* register_worker_blocking and keep_alive_blocking, both of which wait for a
\* lock on the row.
Renew(w) ==
  /\ regLock[w] = None
  /\ w \notin reg \/ w \in stale
  /\ reg' = reg \cup {w}
  /\ stale' = stale \ {w}
  /\ UNCHANGED <<queueVars, claiming, retentionVars>>

\* stale_for has passed since the last renewal.
GoStale(w) ==
  /\ w \in reg \ stale
  /\ stale' = stale \cup {w}
  /\ UNCHANGED <<queueVars, reg, claiming, retentionVars>>

-----------------------------------------------------------------------------
(***************************************************************************)
(* purge_terminal_tasks_batched.                                           *)
(***************************************************************************)

\* Mutated form: the limit is used as it was passed.
BatchSizeAsPassed == Limit

\* A limit below one is raised to one.
BatchSize == IF Limit < 1 THEN 1 ELSE Limit

PurgeTo(p, call) == purge' = [purge EXCEPT ![p] = call]

\* server_cutoff: the rows completed before the cutoff are known from here on.
StartPurge(p) ==
  /\ purge[p].pc \in {"idle", "returned", "failed"}
  /\ PurgeTo(p, PurgeAt("loop", aged))
  /\ UNCHANGED <<queueVars, workerVars, rowLock, regLock, prune>>

\* Mutated form: the completion time is not compared.
EligibleTerminal(p) == {j \in Jobs : job[j] = "done"}

\* Terminal, and done_at at or before the cutoff.
Eligible(p) == {j \in purge[p].cut : job[j] = "done"}

\* The candidates of one statement: up to the limit, in no order, the rows
\* that another transaction holds skipped.
PurgeBatch(p) ==
  LET free == {j \in Eligible(p) : rowLock[j] = None}
      size == IF Cardinality(free) < BatchSize THEN Cardinality(free) ELSE BatchSize
  IN  /\ purge[p].pc = "loop"
      /\ \E got \in kSubset(size, free) :
           /\ rowLock' = [j \in Jobs |-> IF j \in got THEN p ELSE rowLock[j]]
           /\ PurgeTo(p, [purge[p] EXCEPT !.pc = "commit", !.got = got,
                                          !.skipped = Eligible(p) \ free])
      /\ UNCHANGED <<queueVars, workerVars, regLock, prune>>

Unlocked(p) == [j \in Jobs |-> IF rowLock[j] = p THEN None ELSE rowLock[j]]

\* Mutated form: one full batch ends the purge.
PurgeDoneAtOnce(got) == Cardinality(got) <= BatchSize

PurgeDone(got) == Cardinality(got) < BatchSize

\* The DELETE is committed; a batch smaller than the limit is the last one.
CommitPurge(p) ==
  LET got == purge[p].got
  IN  /\ purge[p].pc = "commit"
      /\ job' = [j \in Jobs |-> IF j \in got THEN "absent" ELSE job[j]]
      /\ by' = [j \in Jobs |-> IF j \in got THEN None ELSE by[j]]
      /\ aged' = aged \ got
      /\ rowLock' = Unlocked(p)
      /\ purge' = [r \in Purgers |->
           IF r # p THEN [purge[r] EXCEPT !.cut = @ \ got]
           ELSE [purge[p] EXCEPT !.pc = IF PurgeDone(got) THEN "returned" ELSE "loop",
                                 !.cut = @ \ got, !.got = {}]]
      /\ UNCHANGED <<workerVars, regLock, prune>>

\* The statement fails, or the call is dropped between two batches: nothing
\* of this batch is deleted, the earlier ones stay deleted.
FailPurge(p) ==
  /\ purge[p].pc \in {"loop", "commit"}
  /\ rowLock' = Unlocked(p)
  /\ PurgeTo(p, PurgeAt("failed", {}))
  /\ UNCHANGED <<queueVars, workerVars, regLock, prune>>

-----------------------------------------------------------------------------
(***************************************************************************)
(* prune_workers.                                                          *)
(***************************************************************************)

PruneTo(q, call) == prune' = [prune EXCEPT ![q] = call]

\* A batch begins: its SELECT takes a snapshot of the references.
SnapshotPrune(q) ==
  /\ prune[q].pc \in {"idle", "loop", "returned"}
  /\ PruneTo(q, PruneAt("select", Referenced))
  /\ UNCHANGED <<queueVars, workerVars, rowLock, regLock, purge>>

\* The SELECT locks its rows: stale when locked, unreferenced under the
\* snapshot, in the order of their ids up to the limit.  A registration with a
\* claim in progress, or held by another prune, is skipped.
LockPrune(q) ==
  LET found == {w \in reg \cap stale : /\ w \notin prune[q].refs
                                       /\ w \notin claiming
                                       /\ regLock[w] = None}
      got == {w \in found : Cardinality({v \in found : v < w}) < BatchSize}
  IN  /\ prune[q].pc = "select"
      /\ regLock' = [w \in Workers |-> IF w \in got THEN q ELSE regLock[w]]
      /\ PruneTo(q, [prune[q] EXCEPT !.pc = "delete", !.got = got, !.found = found])
      /\ UNCHANGED <<queueVars, workerVars, rowLock, purge>>

\* Mutated form: the candidates are deleted without a second look.
DeletableUnchecked(q) == prune[q].got

\* delete_unreferenced_registrations: checked again under a later snapshot.
Deletable(q) == prune[q].got \ Referenced

\* Mutated form: the batch that deleted fewer rows than its limit is the last.
PruneDoneByDeleted(q) == Cardinality(Deletable(q)) < BatchSize

\* A batch that locked fewer rows than its limit is the last one.
PruneDone(q) == Cardinality(prune[q].got) < BatchSize

DeletePrune(q) ==
  /\ prune[q].pc = "delete"
  /\ reg' = reg \ Deletable(q)
  /\ stale' = stale \ Deletable(q)
  /\ regLock' = [w \in Workers |-> IF regLock[w] = q THEN None ELSE regLock[w]]
  /\ PruneTo(q, [prune[q] EXCEPT !.pc = IF PruneDone(q) THEN "returned" ELSE "loop"])
  /\ UNCHANGED <<queueVars, claiming, rowLock, purge>>

-----------------------------------------------------------------------------

Next ==
  \/ \E j \in Jobs : Enqueue(j) \/ Finish(j) \/ GrowOld(j)
  \/ \E w \in Workers : BeginClaim(w) \/ CommitClaim(w) \/ Renew(w) \/ GoStale(w)
  \/ \E p \in Purgers : StartPurge(p) \/ PurgeBatch(p) \/ CommitPurge(p) \/ FailPurge(p)
  \/ \E q \in Pruners : SnapshotPrune(q) \/ LockPrune(q) \/ DeletePrune(q)

Spec == Init /\ [][Next]_vars

-----------------------------------------------------------------------------
(***************************************************************************)
(* Properties.                                                             *)
(***************************************************************************)

\* Type correctness, and the foreign key of lock_by: prune deletes no
\* registration that a task names, although a claim committed after the
\* snapshot its candidates were chosen under.
TypeOK ==
  /\ job \in [Jobs -> {"absent", "waiting", "held", "done"}]
  /\ by \in [Jobs -> reg \cup {None}]
  /\ aged \subseteq Jobs
  /\ reg \subseteq Workers /\ stale \subseteq reg /\ claiming \subseteq reg
  /\ rowLock \in [Jobs -> Purgers \cup {None}]
  /\ regLock \in [Workers -> Pruners \cup {None}]

\* A step of a purge deletes finished tasks only, and of these only the ones
\* that had been finished for completed_before when the purge began: a result
\* that lands while batches are deleted is kept.
DeletesInWindow ==
  \A j \in Jobs :
    job[j] # "absent" /\ job'[j] = "absent" =>
      /\ job[j] = "done"
      /\ \E p \in Purgers : j \in purge[p].cut /\ j \in purge[p].got

\* A purge that returns has deleted every row older than its cutoff, except
\* those that another transaction held during its last batch.
ReturnsDrained ==
  \A p \in Purgers :
    purge[p].pc = "commit" /\ purge'[p].pc = "returned" =>
      purge'[p].cut \subseteq purge[p].skipped

\* A prune that returns has deleted every registration its last batch could
\* have found, except those that a task came to reference: candidates claimed
\* between the snapshot and the lock do not end the loop early.
ReturnsPruned ==
  \A q \in Pruners :
    prune[q].pc = "delete" /\ prune'[q].pc = "returned" =>
      prune[q].found \cap reg' \subseteq Referenced

\* A call of purge_terminal_tasks is over.
PurgeOver(p) == purge[p].pc \in {"returned", "failed"}
=============================================================================
