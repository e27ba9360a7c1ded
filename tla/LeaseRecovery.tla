---------------------------- MODULE LeaseRecovery ----------------------------
(***************************************************************************)
(* Heartbeats, stale deadlines and the recovery of orphaned claims in      *)
(* time (queries/worker.rs, heartbeat_stream of lib.rs).                   *)
(*                                                                         *)
(* A live worker runs two loops: keep_alive_stream renews last_seen        *)
(* keep_alive after the previous renewal ended, and                        *)
(* reenqueue_orphaned_stream sweeps the queue keep_alive after the         *)
(* previous sweep ended.  A registration not renewed for                   *)
(* reenqueue_orphaned_after is stale: any sweep recovers its claims and    *)
(* any successor may take its name.                                        *)
(*                                                                         *)
(* A worker may stop at any moment: a crash, a dropped stream, a failed    *)
(* renewal.  The statements it has sent may still be executed.             *)
(*                                                                         *)
(* Worker and task ids are numbers, for the ORDER BY id of the sweep.      *)
(* Time is counted in ticks and ages are capped at the stale deadline.     *)
(***************************************************************************)
EXTENDS Naturals, FiniteSets, FiniteSetsExt

CONSTANTS
  Workers,     \* worker names of one queue, numbers
  Jobs,        \* task ids, numbers
  MaxTime,     \* bound: the longest duration of a configuration, in ticks
  BatchLimit,  \* REENQUEUE_ORPHANED_BATCH_LIMIT
  Prompt,      \* TRUE: a renewal or a sweep that is due runs before time passes
  None         \* no owner

\* Finite tables, ids in an order, and None differs from what it stands beside.
RecoveryConstants ==
  /\ Workers \subseteq Nat /\ IsFiniteSet(Workers)
  /\ Jobs \subseteq Nat /\ IsFiniteSet(Jobs)
  /\ MaxTime \in Nat
  /\ BatchLimit \in Nat \ {0}
  /\ Prompt \in BOOLEAN
  /\ None \notin Workers /\ None \notin 0..MaxTime

ASSUME RecoveryAssumption == RecoveryConstants

VARIABLES
  keepAlive, staleAfter,  \* the configuration, the same for every worker
  registered,  \* the names with a row in apalis.workers
  age,         \* per name: ticks since last_seen, capped at staleAfter
  owner,       \* per task: lock_by of a Queued or Running row
  beat,        \* per name: ticks until the renewal is due, or None if no worker runs
  sweep,       \* per name: ticks until the sweep is due, or None if no worker runs
  sent,        \* per name: the statements of a stopped worker not executed yet
  overdue      \* history, per name: time has passed over a renewal that was due

durations == <<keepAlive, staleAfter>>
vars == <<keepAlive, staleAfter, registered, age, owner, beat, sweep, sent, overdue>>

\* Mutated form: the two durations may be equal.
ValidateLivenessEqual(keep, stale) == keep > 0 /\ keep <= stale

\* validate_liveness: checked by heartbeat_stream and by initial_heartbeat.
ValidateLiveness(keep, stale) == keep > 0 /\ keep < stale

Init ==
  /\ keepAlive \in 0..MaxTime
  /\ staleAfter \in 1..MaxTime
  /\ ValidateLiveness(keepAlive, staleAfter)
  /\ registered = {}
  /\ age = [w \in Workers |-> 0]
  /\ owner = [j \in Jobs |-> None]
  /\ beat = [w \in Workers |-> None]
  /\ sweep = [w \in Workers |-> None]
  /\ sent = [w \in Workers |-> {}]
  /\ overdue = [w \in Workers |-> FALSE]

Live == {w \in Workers : beat[w] # None}

OwnedBy(S) == {j \in Jobs : owner[j] \in S}

\* EXTRACT(EPOCH FROM clock_timestamp() - last_seen) >= reenqueue_orphaned_after.
Stale(w) == w \in registered /\ age[w] = staleAfter

\* ORDER BY id LIMIT n.
FirstOf(n, S) == {x \in S : Cardinality({y \in S : y < x}) < n}

-----------------------------------------------------------------------------
(***************************************************************************)
(* Recovery.                                                               *)
(***************************************************************************)

\* Mutated form: workers without claims count against the batch.
StaleOwnersAny(skipped) == {w \in Workers \ skipped : Stale(w)}

\* The stale registrations with claims, the locked ones skipped.
StaleOwners(skipped) == {w \in Workers \ skipped : Stale(w) /\ OwnedBy({w}) # {}}

\* recover_owned for a set of tasks: each is Pending or Killed, with no owner.
Handed(tasks) == [j \in Jobs |-> IF j \in tasks THEN None ELSE owner[j]]

\* reenqueue_orphaned_blocking: at most BatchLimit workers, and then at most
\* BatchLimit of their claims.
ReenqueueOrphaned(skipped) ==
  owner' = Handed(FirstOf(BatchLimit, OwnedBy(FirstOf(BatchLimit, StaleOwners(skipped)))))

\* A row is skipped while a statement of its worker holds it.
MayBeLocked == Live \cup {w \in Workers : sent[w] # {}}

\* One turn of reenqueue_orphaned_stream.
Sweep(w) ==
  /\ w \in Live
  /\ sweep[w] = 0
  /\ \E skipped \in SUBSET MayBeLocked : ReenqueueOrphaned(skipped)
  /\ sweep' = [sweep EXCEPT ![w] = keepAlive]
  /\ UNCHANGED <<durations, registered, age, beat, sent, overdue>>

-----------------------------------------------------------------------------
(***************************************************************************)
(* The life of a registration.                                             *)
(***************************************************************************)

\* register_worker_blocking by a new process: a fresh row refuses it, a stale
\* one is taken over with all of its claims.  Its predecessor's statements
\* carry the old token and find no row.  The heartbeat loops start with the
\* registration (see LeaseRegistration).  The sweep initial_heartbeat adds, and
\* the takeover of a worker that is alive but late, are in JobQueue.
Register(w) ==
  /\ w \notin Live
  /\ w \in registered => Stale(w)
  /\ owner' = Handed(OwnedBy({w}))
  /\ registered' = registered \cup {w}
  /\ age' = [age EXCEPT ![w] = 0]
  /\ beat' = [beat EXCEPT ![w] = keepAlive]
  /\ sweep' = [sweep EXCEPT ![w] = keepAlive]
  /\ sent' = [sent EXCEPT ![w] = {}]
  /\ overdue' = [overdue EXCEPT ![w] = FALSE]
  /\ UNCHANGED durations

Claim(w, j) ==
  /\ w \in Live \cap registered
  /\ owner[j] = None
  /\ owner' = [owner EXCEPT ![j] = w]
  /\ UNCHANGED <<durations, registered, age, beat, sweep, sent, overdue>>

Ack(w, j) ==
  /\ w \in Live
  /\ owner[j] = w
  /\ owner' = Handed({j})
  /\ UNCHANGED <<durations, registered, age, beat, sweep, sent, overdue>>

Stopped(w) ==
  /\ beat' = [beat EXCEPT ![w] = None]
  /\ sweep' = [sweep EXCEPT ![w] = None]

\* keep_alive_blocking.  No row means that the registration was pruned or
\* taken over, and the error ends the worker.
KeepAlive(w) ==
  /\ w \in Live
  /\ beat[w] = 0
  /\ IF w \in registered
       THEN /\ age' = [age EXCEPT ![w] = 0]
            /\ beat' = [beat EXCEPT ![w] = keepAlive]
            /\ overdue' = [overdue EXCEPT ![w] = FALSE]
            /\ UNCHANGED sweep
       ELSE Stopped(w) /\ UNCHANGED <<age, overdue>>
  /\ UNCHANGED <<durations, registered, owner, sent>>

\* The process crashes, the stream is dropped or a renewal fails.  A renewal
\* and a claim may be on their way.
Stop(w) ==
  /\ w \in Live
  /\ Stopped(w)
  /\ \E late \in SUBSET {"renewal", "claim"} : sent' = [sent EXCEPT ![w] = late]
  /\ UNCHANGED <<durations, registered, age, owner, overdue>>

LateRenewal(w) ==
  /\ "renewal" \in sent[w]
  /\ sent' = [sent EXCEPT ![w] = @ \ {"renewal"}]
  /\ age' = IF w \in registered THEN [age EXCEPT ![w] = 0] ELSE age
  /\ UNCHANGED <<durations, registered, owner, beat, sweep, overdue>>

\* Mutated form: the claim does not look for its registration.
LateClaimUnchecked(w) ==
  /\ "claim" \in sent[w]
  /\ sent' = [sent EXCEPT ![w] = @ \ {"claim"}]
  /\ \/ \E j \in Jobs : owner[j] = None /\ owner' = [owner EXCEPT ![j] = w]
     \/ UNCHANGED owner
  /\ UNCHANGED <<durations, registered, age, beat, sweep, overdue>>

\* The claim statement locks the registration row first and takes nothing
\* when there is none.
LateClaim(w) ==
  /\ "claim" \in sent[w]
  /\ sent' = [sent EXCEPT ![w] = @ \ {"claim"}]
  /\ \/ /\ w \in registered
        /\ \E j \in Jobs : owner[j] = None /\ owner' = [owner EXCEPT ![j] = w]
     \/ UNCHANGED owner
  /\ UNCHANGED <<durations, registered, age, beat, sweep, overdue>>

\* release_worker_blocking: every claim is handed back and the row is marked
\* as old as can be.  The worker's own streams end; what it sent finds no token.
ReleaseWorker(w) ==
  /\ w \in Live \cap registered
  /\ owner' = Handed(OwnedBy({w}))
  /\ age' = [age EXCEPT ![w] = staleAfter]
  /\ Stopped(w)
  /\ UNCHANGED <<durations, registered, sent, overdue>>

\* prune_workers with the shortest window that validate_prune_window admits.
\* A finished task keeps its registration too; here it may go (see Retention).
Prune(w) ==
  /\ Stale(w)
  /\ OwnedBy({w}) = {}
  /\ registered' = registered \ {w}
  /\ UNCHANGED <<durations, age, owner, beat, sweep, sent, overdue>>

\* One tick.  With Prompt, a renewal or a sweep that is due is never passed by.
Tick ==
  /\ Prompt => \A w \in Live : beat[w] > 0 /\ sweep[w] > 0
  /\ age' = [w \in Workers |-> IF age[w] < staleAfter THEN age[w] + 1 ELSE age[w]]
  /\ beat' = [w \in Workers |-> IF w \in Live /\ beat[w] > 0 THEN beat[w] - 1 ELSE beat[w]]
  /\ sweep' = [w \in Workers |-> IF w \in Live /\ sweep[w] > 0 THEN sweep[w] - 1 ELSE sweep[w]]
  /\ overdue' = [w \in Workers |-> overdue[w] \/ (w \in Live /\ beat[w] = 0)]
  /\ UNCHANGED <<durations, registered, owner, sent>>

-----------------------------------------------------------------------------

Next ==
  \/ \E w \in Workers :
       \/ Sweep(w) \/ Register(w) \/ KeepAlive(w) \/ Stop(w)
       \/ LateRenewal(w) \/ LateClaim(w) \/ ReleaseWorker(w) \/ Prune(w)
       \/ \E j \in Jobs : Claim(w, j) \/ Ack(w, j)
  \/ Tick

Spec == Init /\ [][Next]_vars

-----------------------------------------------------------------------------
(***************************************************************************)
(* Properties.                                                             *)
(***************************************************************************)

\* Type correctness, and the foreign key of jobs.lock_by: a claim names a
\* registration that exists, although registrations are pruned while claims
\* of stopped workers are still on their way.
TypeOK ==
  /\ keepAlive \in 0..MaxTime /\ staleAfter \in 1..MaxTime
  /\ registered \subseteq Workers
  /\ age \in [Workers -> 0..staleAfter]
  /\ owner \in [Jobs -> registered \cup {None}]
  /\ beat \in [Workers -> (0..keepAlive) \cup {None}]
  /\ sweep \in [Workers -> (0..keepAlive) \cup {None}]
  /\ \A w \in Workers : beat[w] = None <=> sweep[w] = None
  /\ sent \in [Workers -> SUBSET {"renewal", "claim"}]
  /\ overdue \in [Workers -> BOOLEAN]

\* A worker whose renewals run when they are due is never stale, so neither a
\* sweep nor a successor takes its claims, and its registration is not pruned.
PromptIsFresh == \A w \in Live : ~overdue[w] => w \in registered /\ ~Stale(w)
=============================================================================
