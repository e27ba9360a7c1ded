---------------------------- MODULE UpkeepProofs ----------------------------
(***************************************************************************)
(* Proofs about the upkeep of a queue, for any tasks, workers, limits and  *)
(* numbers of concurrent calls: the retention operations (Retention), the  *)
(* heartbeats that keep a registration from being swept or pruned          *)
(* (LeaseRecovery), the schema setup (Migrations), the result column that  *)
(* every end of a claim writes (TaskResults), and what a dashboard reads:  *)
(* the listings (TaskListing) and the statistics (QueueStats).             *)
(*                                                                         *)
(* The inductive invariant of retention: a row older than a cutoff is      *)
(* finished as long as the purge knows it (Finished); a batch holds the    *)
(* locks of its rows and is all there was to take when it is smaller than  *)
(* its limit (PurgeInv, PruneInv); a registration that a prune holds has   *)
(* no claim in progress (NoClaimUnderLock).                                *)
(*                                                                         *)
(* The inductive invariant of heartbeats: the age of a registration and    *)
(* the time until its next renewal never add up to more than keep_alive    *)
(* while its worker renews when due (Fresh).                               *)
(*                                                                         *)
(* The inductive invariant of setup: the committed database is known, that *)
(* is, its journal, or without one its catalog, tells what was executed    *)
(* (Known); a transaction holds the lock and started from the committed    *)
(* database (TxnInv); an Ok of setup or verify_schema stays true.          *)
(*                                                                         *)
(* The inductive invariant of results: a row holds a value some writer     *)
(* stores, has an attempt left while it is claimed, was charged before it  *)
(* ended, and holds an Ok exactly when it is Done (ResultRow).             *)
(*                                                                         *)
(* The inductive invariant of listings: as long as no row left, a row of   *)
(* the start that was not shown yet has at least as many rows ahead of it  *)
(* as the walk has read; as long as none moved, every row shown has fewer, *)
(* and none was shown twice (WalkInv).                                     *)
(*                                                                         *)
(* The inductive invariant of statistics: a row names a claimant that is   *)
(* registered for its queue (ClaimantsKnown), and who will refresh the     *)
(* snapshot concurrently found it populated (StatementFits).               *)
(***************************************************************************)
EXTENDS Retention, Migrations, TaskResults, FiniteSetTheorems, SequenceTheorems,
        WellFoundedInduction, TLAPS

CONSTANTS MaxTime, BatchLimit, Prompt

VARIABLES keepAlive, staleAfter, registered, age, owner, beat, sweep, sent, overdue

Recovery == INSTANCE LeaseRecovery

CONSTANTS Id, Queue, RunAt, DoneAt, PageSize, Page, MaxU32, MaxI32, MaxWrites, All

VARIABLES jobs, walk, reply, writes

Listing == INSTANCE TaskListing

CONSTANTS Task, Worker, QueueOf, Hour, Day, Week, Delay, Refresher

VARIABLES now, populated, snapshot, refresh, rejected

Stats == INSTANCE QueueStats

PurgePC == {"idle", "loop", "commit", "returned", "failed"}
PrunePC == {"idle", "select", "delete", "loop", "returned"}

CallTypes ==
  /\ purge \in [Purgers -> [pc : PurgePC, cut : SUBSET Jobs, got : SUBSET Jobs,
                            skipped : SUBSET Jobs]]
  /\ prune \in [Pruners -> [pc : PrunePC, refs : SUBSET Workers, got : SUBSET Workers,
                            found : SUBSET Workers]]

Finished ==
  /\ \A j \in aged : job[j] = "done"
  /\ \A p \in Purgers : \A j \in purge[p].cut : job[j] = "done"

PurgeInv ==
  \A p \in Purgers : purge[p].pc = "commit" =>
    /\ purge[p].got \subseteq purge[p].cut
    /\ \A j \in purge[p].got : rowLock[j] = p
    /\ Cardinality(purge[p].got) < BatchSize => purge[p].cut \ purge[p].got \subseteq purge[p].skipped

PruneInv ==
  \A q \in Pruners : prune[q].pc = "delete" =>
    /\ \A w \in prune[q].got : regLock[w] = q
    /\ Cardinality(prune[q].got) < BatchSize => prune[q].found \subseteq prune[q].got

NoClaimUnderLock == \A w \in Workers : regLock[w] # None => w \notin claiming

RetentionInv ==
  /\ TypeOK /\ CallTypes
  /\ Finished /\ PurgeInv /\ PruneInv /\ NoClaimUnderLock

-----------------------------------------------------------------------------
\* Batches.

LEMMA BatchSizeType ==
  ASSUME RetentionAssumption
  PROVE  BatchSize \in Nat \ {0}
BY DEF RetentionAssumption, BatchSize

\* A finite set of naturals that is not empty has a least element.
LEMMA Least ==
  ASSUME NEW T \in SUBSET Nat, IsFiniteSet(T), T # {}
  PROVE  \E m \in T : \A n \in T : m <= n
<1> DEFINE below(m) == {n \in T : n <= m}
           R == StrictSubsetOrdering(T)
           D == {below(m) : m \in T}
<1>1. IsWellFoundedOn(R, SUBSET T)
  BY FS_StrictSubsetOrderingWellFounded, FS_FiniteSubsetsOfFinite
<1>2. PICK A \in D : \A B \in D : <<B, A>> \notin R
  <2>1. D \in SUBSET SUBSET T /\ D # {}
    OBVIOUS
  <2> HIDE DEF D, R
  <2> QED BY <1>1, <2>1, WFMin
<1>3. PICK m \in T : A = below(m)
  OBVIOUS
<1>4. ASSUME NEW n \in T, ~(m <= n) PROVE FALSE
  <2>1. m \in Nat /\ n \in Nat /\ n < m
    BY <1>4
  <2>2. below(n) \subseteq below(m) /\ m \in below(m) /\ m \notin below(n)
    <3>1. ASSUME NEW x \in T, x <= n PROVE x <= m
      <4>1. x \in Nat
        OBVIOUS
      <4> QED BY <2>1, <3>1, <4>1
    <3>2. m <= m /\ ~(m <= n)
      BY <2>1
    <3> QED BY <3>1, <3>2
  <2>3. below(n) \in SUBSET T /\ A \in SUBSET T /\ below(n) \in D
    OBVIOUS
  <2>4. <<below(n), A>> \in R
    <3> HIDE DEF below
    <3> QED BY <1>3, <2>2, <2>3 DEF StrictSubsetOrdering
  <2> QED BY <1>2, <2>3, <2>4
<1> QED BY <1>4

\* A finite set of naturals that is not empty has a greatest element.
LEMMA Greatest ==
  ASSUME NEW T \in SUBSET Nat, IsFiniteSet(T), T # {}
  PROVE  \E m \in T : \A n \in T : m >= n
<1> DEFINE up(m) == {n \in T : m <= n}
           R == StrictSubsetOrdering(T)
           D == {up(m) : m \in T}
<1>1. IsWellFoundedOn(R, SUBSET T)
  BY FS_StrictSubsetOrderingWellFounded, FS_FiniteSubsetsOfFinite
<1>2. PICK A \in D : \A B \in D : <<B, A>> \notin R
  <2>1. D \in SUBSET SUBSET T /\ D # {}
    OBVIOUS
  <2> HIDE DEF D, R
  <2> QED BY <1>1, <2>1, WFMin
<1>3. PICK m \in T : A = up(m)
  OBVIOUS
<1>4. ASSUME NEW n \in T, ~(m >= n) PROVE FALSE
  <2>1. m \in Nat /\ n \in Nat /\ m < n
    BY <1>4
  <2>2. up(n) \subseteq up(m) /\ m \in up(m) /\ m \notin up(n)
    <3>1. ASSUME NEW x \in T, n <= x PROVE m <= x
      <4>1. x \in Nat
        OBVIOUS
      <4> QED BY <2>1, <3>1, <4>1
    <3>2. m <= m /\ ~(n <= m)
      BY <2>1
    <3> QED BY <3>1, <3>2
  <2>3. up(n) \in SUBSET T /\ A \in SUBSET T /\ up(n) \in D
    OBVIOUS
  <2>4. <<up(n), A>> \in R
    <3> HIDE DEF up
    <3> QED BY <1>3, <2>2, <2>3 DEF StrictSubsetOrdering
  <2> QED BY <1>2, <2>3, <2>4
<1> QED BY <1>4

\* The rows a prune takes are all it found when they are fewer than the limit.
LEMMA SmallBatch ==
  ASSUME RetentionAssumption, NEW found \in SUBSET Workers,
         NEW got, got = {w \in found : Cardinality({v \in found : v < w}) < BatchSize},
         Cardinality(got) < BatchSize
  PROVE  found \subseteq got
<1> DEFINE T == found \ got
<1> SUFFICES ASSUME T # {} PROVE FALSE
  OBVIOUS
<1>1. /\ IsFiniteSet(Workers) /\ Workers \subseteq Nat /\ BatchSize \in Nat
  BY BatchSizeType DEF RetentionAssumption
<1>2. PICK m \in T : \A n \in T : m <= n
  <2>1. T \in SUBSET Nat /\ IsFiniteSet(T)
    BY <1>1, FS_Subset
  <2> HIDE DEF T
  <2> QED BY <2>1, Least
<1> DEFINE B == {v \in found : v < m}
<1>3. B \subseteq got
  <2> SUFFICES ASSUME NEW v \in B, v \notin got PROVE FALSE
    OBVIOUS
  <2>1. v \in T /\ v < m /\ v \in Nat /\ m \in Nat
    BY <1>1
  <2> QED BY <1>2, <2>1
<1>4. IsFiniteSet(got)
  BY <1>1, FS_Subset
<1>5. Cardinality(B) <= Cardinality(got) /\ Cardinality(got) \in Nat /\ IsFiniteSet(B)
  <2> HIDE DEF B
  <2> QED BY <1>3, <1>4, FS_Subset, FS_CardinalityType
<1>6. Cardinality(B) \in Nat
  <2> HIDE DEF B
  <2> QED BY <1>5, FS_CardinalityType
<1>7. ~(Cardinality(B) < BatchSize)
  BY <1>2
<1> HIDE DEF B
<1> QED BY <1>1, <1>5, <1>6, <1>7

\* A batch of a purge: some of the free rows, or all of them.
LEMMA FullBatch ==
  ASSUME RetentionAssumption, NEW free \in SUBSET Jobs,
         NEW size, size = (IF Cardinality(free) < BatchSize THEN Cardinality(free) ELSE BatchSize),
         NEW got \in kSubset(size, free)
  PROVE  got \subseteq free /\ (Cardinality(got) < BatchSize => got = free)
<1>1. got \subseteq free /\ Cardinality(got) = size
  BY DEF kSubset
<1>2. IsFiniteSet(free)
  BY FS_Subset DEF RetentionAssumption
<1>3. ASSUME Cardinality(got) < BatchSize PROVE got = free
  <2>1. BatchSize \in Nat /\ Cardinality(free) \in Nat
    BY <1>2, BatchSizeType, FS_CardinalityType
  <2>2. Cardinality(free) = Cardinality(got)
    BY <1>1, <1>3, <2>1
  <2> QED BY <1>1, <1>2, <2>2, FS_Subset
<1> QED BY <1>1, <1>3

-----------------------------------------------------------------------------
\* The invariant of retention.

LEMMA RetentionInit ==
  ASSUME RetentionAssumption, Init
  PROVE  RetentionInv
<1>1. TypeOK
  BY DEF Init, TypeOK
<1>2. CallTypes
  BY DEF Init, CallTypes, PurgeAt, PruneAt, PurgePC, PrunePC
<1>3. Finished /\ PurgeInv /\ PruneInv /\ NoClaimUnderLock
  BY DEF Init, Finished, PurgeInv, PruneInv, NoClaimUnderLock, PurgeAt, PruneAt
<1> QED BY <1>1, <1>2, <1>3 DEF RetentionInv

\* The steps of the queue and of the workers.
LEMMA QueueStep ==
  ASSUME RetentionAssumption, RetentionInv,
         \/ \E j \in Jobs : Enqueue(j) \/ Finish(j) \/ GrowOld(j)
         \/ \E w \in Workers : BeginClaim(w) \/ CommitClaim(w) \/ Renew(w) \/ GoStale(w)
  PROVE  RetentionInv'
<1> USE DEF RetentionInv
<1>0. /\ job \in [Jobs -> {"absent", "waiting", "held", "done"}] /\ by \in [Jobs -> reg \cup {None}]
      /\ aged \subseteq Jobs /\ reg \subseteq Workers /\ stale \subseteq reg /\ claiming \subseteq reg
      /\ UNCHANGED <<rowLock, regLock, purge, prune>>
  BY DEF TypeOK, Enqueue, Finish, GrowOld, BeginClaim, CommitClaim, Renew, GoStale, retentionVars
<1>1. CallTypes' /\ PurgeInv' /\ PruneInv'
  BY <1>0 DEF CallTypes, PurgeInv, PruneInv
<1>2. ASSUME NEW j \in Jobs, Enqueue(j) \/ Finish(j) \/ GrowOld(j) PROVE RetentionInv'
  <2>1. UNCHANGED <<by, reg, stale, claiming>>
    BY <1>2 DEF Enqueue, Finish, GrowOld, workerVars
  <2>2. job' \in [Jobs -> {"absent", "waiting", "held", "done"}] /\ aged' \subseteq Jobs
    BY <1>0, <1>2 DEF Enqueue, Finish, GrowOld
  <2>3. TypeOK'
    BY <1>0, <2>1, <2>2 DEF TypeOK
  <2>4. \A i \in Jobs : job[i] = "done" => job'[i] = "done"
    BY <1>0, <1>2 DEF Enqueue, Finish, GrowOld
  <2>5. \A i \in aged' : i \in Jobs /\ job'[i] = "done"
    BY <1>0, <1>2, <2>4 DEF Enqueue, Finish, GrowOld, Finished
  <2>6. \A p \in Purgers : purge[p].cut \subseteq Jobs
    BY DEF CallTypes
  <2>7. Finished'
    BY <1>0, <2>4, <2>5, <2>6 DEF Finished
  <2>8. NoClaimUnderLock'
    BY <1>0, <2>1 DEF NoClaimUnderLock
  <2> QED BY <1>1, <2>3, <2>7, <2>8
<1>3. ASSUME NEW w \in Workers, BeginClaim(w) \/ Renew(w) \/ GoStale(w) PROVE RetentionInv'
  <2>1. UNCHANGED <<job, by, aged>>
    BY <1>3 DEF BeginClaim, Renew, GoStale, queueVars
  <2>2. /\ reg' \subseteq Workers /\ stale' \subseteq reg' /\ claiming' \subseteq reg' /\ reg \subseteq reg'
    BY <1>0, <1>3 DEF BeginClaim, Renew, GoStale
  <2>3. TypeOK'
    <3>1. by \in [Jobs -> reg' \cup {None}]
      BY <1>0, <2>2
    <3> QED BY <1>0, <2>1, <2>2, <3>1 DEF TypeOK
  <2>4. Finished'
    BY <1>0, <2>1 DEF Finished
  <2>5. NoClaimUnderLock'
    BY <1>0, <1>3 DEF NoClaimUnderLock, BeginClaim, Renew, GoStale
  <2> QED BY <1>1, <2>3, <2>4, <2>5
<1>4. ASSUME NEW w \in Workers, CommitClaim(w) PROVE RetentionInv'
  <2>1. /\ UNCHANGED <<aged, reg, stale>> /\ claiming' = claiming \ {w} /\ w \in reg
        /\ \/ UNCHANGED <<job, by>>
           \/ \E j \in Jobs : /\ job[j] = "waiting" /\ job' = [job EXCEPT ![j] = "held"]
                              /\ by' = [by EXCEPT ![j] = w]
    BY <1>0, <1>4 DEF CommitClaim
  <2>2. /\ job' \in [Jobs -> {"absent", "waiting", "held", "done"}] /\ by' \in [Jobs -> reg \cup {None}]
        /\ \A i \in Jobs : job[i] = "done" => job'[i] = "done"
    BY <1>0, <2>1
  <2>3. TypeOK'
    BY <1>0, <2>1, <2>2 DEF TypeOK
  <2>4. \A p \in Purgers : purge[p].cut \subseteq Jobs
    BY DEF CallTypes
  <2>5. Finished'
    BY <1>0, <2>1, <2>2, <2>4 DEF Finished
  <2>6. NoClaimUnderLock'
    BY <1>0, <2>1 DEF NoClaimUnderLock
  <2> QED BY <1>1, <2>3, <2>5, <2>6
<1> QED BY <1>2, <1>3, <1>4

\* A call of a purge begins or fails, or a batch takes its rows.
LEMMA PurgeCall ==
  ASSUME RetentionAssumption, RetentionInv, NEW p \in Purgers,
         StartPurge(p) \/ PurgeBatch(p) \/ FailPurge(p)
  PROVE  RetentionInv'
<1> USE DEF RetentionInv
<1> DEFINE r == purge[p]
           c == purge'[p]
<1>0. /\ UNCHANGED <<job, by, aged, reg, stale, claiming, regLock, prune>>
      /\ rowLock \in [Jobs -> Purgers \cup {None}]
      /\ purge \in [Purgers -> [pc : PurgePC, cut : SUBSET Jobs, got : SUBSET Jobs,
                                skipped : SUBSET Jobs]]
      /\ None \notin Purgers /\ aged \subseteq Jobs
  BY DEF TypeOK, CallTypes, RetentionAssumption, StartPurge, PurgeBatch, FailPurge, queueVars, workerVars
<1>1. \A o \in Purgers : o # p => purge'[o] = purge[o]
  BY <1>0 DEF StartPurge, PurgeBatch, FailPurge, PurgeTo
<1>2. ASSUME NEW cut \in SUBSET Jobs, NEW pc \in {"loop", "failed"},
             purge' = [purge EXCEPT ![p] = [pc |-> pc, cut |-> cut, got |-> {}, skipped |-> {}]],
             \A j \in cut : job[j] = "done",
             rowLock' = rowLock \/ rowLock' = Unlocked(p)
      PROVE  RetentionInv'
  <2>1. /\ purge' \in [Purgers -> [pc : PurgePC, cut : SUBSET Jobs, got : SUBSET Jobs,
                                   skipped : SUBSET Jobs]]
        /\ c.pc = pc /\ c.cut = cut
    BY <1>0, <1>2 DEF PurgePC
  <2>2. /\ rowLock' \in [Jobs -> Purgers \cup {None}]
        /\ \A o \in Purgers, j \in Jobs : o # p /\ rowLock[j] = o => rowLock'[j] = o
    BY <1>0, <1>2 DEF Unlocked
  <2>3. PurgeInv'
    <3> SUFFICES ASSUME NEW o \in Purgers, purge'[o].pc = "commit"
                 PROVE  /\ purge'[o].got \subseteq purge'[o].cut
                        /\ \A j \in purge'[o].got : rowLock'[j] = o
                        /\ Cardinality(purge'[o].got) < BatchSize =>
                             purge'[o].cut \ purge'[o].got \subseteq purge'[o].skipped
      BY DEF PurgeInv
    <3>1. o # p
      BY <1>2, <2>1
    <3>2. purge'[o] = purge[o] /\ purge[o].got \subseteq Jobs
      BY <1>0, <1>1, <3>1
    <3> QED BY <2>2, <3>1, <3>2 DEF PurgeInv
  <2>4. Finished'
    BY <1>0, <1>1, <1>2, <2>1 DEF Finished
  <2>5. TypeOK' /\ CallTypes'
    BY <1>0, <2>1, <2>2 DEF TypeOK, CallTypes
  <2>6. PruneInv' /\ NoClaimUnderLock'
    BY <1>0 DEF PruneInv, NoClaimUnderLock
  <2> QED BY <2>3, <2>4, <2>5, <2>6
<1>3. CASE StartPurge(p)
  <2>1. /\ purge' = [purge EXCEPT ![p] = [pc |-> "loop", cut |-> aged, got |-> {}, skipped |-> {}]]
        /\ rowLock' = rowLock
    BY <1>3 DEF StartPurge, PurgeTo, PurgeAt
  <2> QED BY <1>0, <1>2, <2>1 DEF Finished
<1>4. CASE FailPurge(p)
  <2>1. /\ purge' = [purge EXCEPT ![p] = [pc |-> "failed", cut |-> {}, got |-> {}, skipped |-> {}]]
        /\ rowLock' = Unlocked(p)
    BY <1>4 DEF FailPurge, PurgeTo, PurgeAt
  <2>2. {} \in SUBSET Jobs /\ \A j \in {} : job[j] = "done"
    OBVIOUS
  <2> HIDE DEF r, c
  <2> QED BY <1>2, <2>1, <2>2
<1>5. CASE PurgeBatch(p)
  <2> DEFINE free == {j \in Eligible(p) : rowLock[j] = None}
             size == IF Cardinality(free) < BatchSize THEN Cardinality(free) ELSE BatchSize
  <2>1. PICK got \in kSubset(size, free) :
          /\ rowLock' = [j \in Jobs |-> IF j \in got THEN p ELSE rowLock[j]]
          /\ purge' = [purge EXCEPT ![p] = [r EXCEPT !.pc = "commit", !.got = got,
                                                     !.skipped = Eligible(p) \ free]]
    BY <1>5 DEF PurgeBatch, PurgeTo
  <2>2. Eligible(p) = r.cut /\ r.cut \subseteq Jobs /\ free \subseteq r.cut
    BY <1>0 DEF Eligible, Finished
  <2>3. got \subseteq free /\ (Cardinality(got) < BatchSize => got = free)
    <3>1. free \in SUBSET Jobs
      BY <2>2
    <3> HIDE DEF free
    <3> QED BY <2>1, <3>1, FullBatch
  <2>4. /\ purge' \in [Purgers -> [pc : PurgePC, cut : SUBSET Jobs, got : SUBSET Jobs,
                                   skipped : SUBSET Jobs]]
        /\ c.pc = "commit" /\ c.cut = r.cut /\ c.got = got /\ c.skipped = r.cut \ free
    <3>1. got \in SUBSET Jobs /\ Eligible(p) \ free \in SUBSET Jobs
      BY <2>2, <2>3
    <3> HIDE DEF free
    <3> QED BY <1>0, <2>1, <2>2, <3>1 DEF PurgePC
  <2>5. rowLock' \in [Jobs -> Purgers \cup {None}]
    BY <1>0, <2>1
  <2>6. PurgeInv'
    <3> SUFFICES ASSUME NEW o \in Purgers, purge'[o].pc = "commit"
                 PROVE  /\ purge'[o].got \subseteq purge'[o].cut
                        /\ \A j \in purge'[o].got : rowLock'[j] = o
                        /\ Cardinality(purge'[o].got) < BatchSize =>
                             purge'[o].cut \ purge'[o].got \subseteq purge'[o].skipped
      BY DEF PurgeInv
    <3>1. CASE o = p
      <4>1. /\ got \subseteq r.cut
            /\ \A j \in got : rowLock'[j] = p
            /\ Cardinality(got) < BatchSize => r.cut \ got \subseteq r.cut \ free
        BY <2>1, <2>2, <2>3
      <4> QED BY <2>4, <3>1, <4>1
    <3>2. CASE o # p
      <4>1. purge'[o] = purge[o] /\ purge[o].got \subseteq Jobs
        BY <1>0, <1>1, <3>2
      <4>2. \A j \in purge[o].got : rowLock[j] = o /\ j \notin got /\ j \in Jobs
        BY <1>0, <2>3, <4>1 DEF PurgeInv
      <4>3. \A j \in purge[o].got : rowLock'[j] = o
        BY <2>1, <4>2
      <4> QED BY <4>1, <4>3 DEF PurgeInv
    <3> QED BY <3>1, <3>2
  <2>7. Finished'
    <3>1. \A o \in Purgers : purge'[o].cut = purge[o].cut
      BY <1>1, <2>4
    <3> QED BY <1>0, <3>1 DEF Finished
  <2>8. TypeOK' /\ CallTypes'
    BY <1>0, <2>4, <2>5 DEF TypeOK, CallTypes
  <2>9. PruneInv' /\ NoClaimUnderLock'
    BY <1>0 DEF PruneInv, NoClaimUnderLock
  <2> QED BY <2>6, <2>7, <2>8, <2>9
<1> QED BY <1>3, <1>4, <1>5

\* A batch of a purge is deleted.
LEMMA PurgeCommit ==
  ASSUME RetentionAssumption, RetentionInv, NEW p \in Purgers, CommitPurge(p),
         NEW got, got = purge[p].got
  PROVE  /\ RetentionInv'
         /\ \A j \in got : job[j] = "done" /\ j \in purge[p].cut
         /\ \A j \in Jobs \ got : job'[j] = job[j]
         /\ \A o \in Purgers : o # p => purge'[o].pc = purge[o].pc
         /\ purge'[p].pc = "returned" => purge'[p].cut \subseteq purge[p].skipped
<1> USE DEF RetentionInv
<1> DEFINE r == purge[p]
           c == purge'[p]
<1>0. /\ UNCHANGED <<reg, stale, claiming, regLock, prune>>
      /\ job \in [Jobs -> {"absent", "waiting", "held", "done"}] /\ by \in [Jobs -> reg \cup {None}]
      /\ rowLock \in [Jobs -> Purgers \cup {None}] /\ aged \subseteq Jobs
      /\ purge \in [Purgers -> [pc : PurgePC, cut : SUBSET Jobs, got : SUBSET Jobs,
                                skipped : SUBSET Jobs]]
      /\ r.pc = "commit" /\ got \subseteq Jobs
      /\ job' = [j \in Jobs |-> IF j \in got THEN "absent" ELSE job[j]]
      /\ by' = [j \in Jobs |-> IF j \in got THEN None ELSE by[j]]
      /\ aged' = aged \ got /\ rowLock' = Unlocked(p)
  BY DEF TypeOK, CallTypes, CommitPurge, workerVars
<1>1. /\ got \subseteq r.cut /\ \A j \in got : rowLock[j] = p /\ job[j] = "done"
      /\ Cardinality(got) < BatchSize => r.cut \ got \subseteq r.skipped
  BY <1>0 DEF PurgeInv, Finished
<1> DEFINE step(o) == IF o # p THEN [purge[o] EXCEPT !.cut = @ \ got]
                      ELSE [r EXCEPT !.pc = IF PurgeDone(got) THEN "returned" ELSE "loop",
                                     !.cut = @ \ got, !.got = {}]
<1>2. purge' = [o \in Purgers |-> step(o)]
  BY DEF CommitPurge
<1>3. /\ c.cut = r.cut \ got /\ c.got = {} /\ c.skipped = r.skipped
      /\ c.pc \in {"returned", "loop"} /\ (c.pc = "returned" => PurgeDone(got))
      /\ c \in [pc : PurgePC, cut : SUBSET Jobs, got : SUBSET Jobs, skipped : SUBSET Jobs]
  <2>1. c = [r EXCEPT !.pc = IF PurgeDone(got) THEN "returned" ELSE "loop",
                      !.cut = r.cut \ got, !.got = {}]
    BY <1>2
  <2>2. r \in [pc : PurgePC, cut : SUBSET Jobs, got : SUBSET Jobs, skipped : SUBSET Jobs]
        /\ r.cut \ got \in SUBSET Jobs
    BY <1>0
  <2> HIDE DEF r, c
  <2>3. CASE PurgeDone(got)
    BY <2>1, <2>2, <2>3 DEF PurgePC
  <2>4. CASE ~PurgeDone(got)
    BY <2>1, <2>2, <2>4 DEF PurgePC
  <2> QED BY <2>3, <2>4
<1>4. \A o \in Purgers : o # p =>
        /\ purge'[o].cut = purge[o].cut \ got /\ purge'[o].got = purge[o].got
        /\ purge'[o].pc = purge[o].pc /\ purge'[o].skipped = purge[o].skipped
        /\ purge'[o] \in [pc : PurgePC, cut : SUBSET Jobs, got : SUBSET Jobs, skipped : SUBSET Jobs]
  <2> TAKE o \in Purgers
  <2> HAVE o # p
  <2>1. purge'[o] = [purge[o] EXCEPT !.cut = purge[o].cut \ got]
    BY <1>2
  <2>2. purge[o] \in [pc : PurgePC, cut : SUBSET Jobs, got : SUBSET Jobs, skipped : SUBSET Jobs]
        /\ purge[o].cut \ got \in SUBSET Jobs
    BY <1>0
  <2> QED BY <2>1, <2>2
<1>5. purge' \in [Purgers -> [pc : PurgePC, cut : SUBSET Jobs, got : SUBSET Jobs,
                              skipped : SUBSET Jobs]]
  BY <1>2, <1>3, <1>4
<1> HIDE DEF step
<1>6. TypeOK' /\ CallTypes'
  <2>1. /\ job' \in [Jobs -> {"absent", "waiting", "held", "done"}] /\ by' \in [Jobs -> reg \cup {None}]
        /\ rowLock' \in [Jobs -> Purgers \cup {None}] /\ aged' \subseteq Jobs
    BY <1>0 DEF Unlocked
  <2> QED BY <1>0, <1>5, <2>1 DEF TypeOK, CallTypes
<1>7. Finished'
  <2>1. \A j \in aged' : j \in Jobs \ got /\ job[j] = "done"
    BY <1>0 DEF Finished
  <2>2. \A o \in Purgers : \A j \in purge'[o].cut : j \in Jobs \ got /\ job[j] = "done"
    BY <1>0, <1>3, <1>4 DEF Finished
  <2>3. \A j \in Jobs \ got : job'[j] = job[j]
    BY <1>0
  <2> QED BY <2>1, <2>2, <2>3 DEF Finished
<1>8. PurgeInv'
  <2> SUFFICES ASSUME NEW o \in Purgers, purge'[o].pc = "commit"
               PROVE  /\ purge'[o].got \subseteq purge'[o].cut
                      /\ \A j \in purge'[o].got : rowLock'[j] = o
                      /\ Cardinality(purge'[o].got) < BatchSize =>
                           purge'[o].cut \ purge'[o].got \subseteq purge'[o].skipped
    BY DEF PurgeInv
  <2>1. o # p
    BY <1>3
  <2>2. /\ purge[o].pc = "commit" /\ purge'[o].got = purge[o].got
        /\ purge'[o].cut = purge[o].cut \ got /\ purge'[o].skipped = purge[o].skipped
        /\ purge[o].got \subseteq Jobs
    BY <1>0, <1>4, <2>1
  <2>3. \A j \in purge[o].got : rowLock[j] = o /\ j \notin got
    BY <1>1, <2>1, <2>2 DEF PurgeInv
  <2>4. \A j \in purge[o].got : rowLock'[j] = o
    BY <1>0, <2>1, <2>2, <2>3 DEF Unlocked
  <2> QED BY <2>2, <2>3, <2>4 DEF PurgeInv
<1>9. PruneInv' /\ NoClaimUnderLock'
  BY <1>0 DEF PruneInv, NoClaimUnderLock
<1>10. c.pc = "returned" => c.cut \subseteq r.skipped
  BY <1>1, <1>3 DEF PurgeDone
<1>11. \A j \in Jobs \ got : job'[j] = job[j]
  BY <1>0
<1> QED BY <1>1, <1>4, <1>6, <1>7, <1>8, <1>9, <1>10, <1>11

\* A batch of a prune takes its snapshot, or locks what it selected.
LEMMA PruneSelect ==
  ASSUME RetentionAssumption, RetentionInv, NEW q \in Pruners,
         SnapshotPrune(q) \/ LockPrune(q)
  PROVE  RetentionInv'
<1> USE DEF RetentionInv
<1> DEFINE r == prune[q]
           c == prune'[q]
<1>0. /\ UNCHANGED <<job, by, aged, reg, stale, claiming, rowLock, purge>>
      /\ regLock \in [Workers -> Pruners \cup {None}]
      /\ prune \in [Pruners -> [pc : PrunePC, refs : SUBSET Workers, got : SUBSET Workers,
                                found : SUBSET Workers]]
      /\ None \notin Pruners /\ reg \subseteq Workers /\ by \in [Jobs -> reg \cup {None}]
  BY DEF TypeOK, CallTypes, RetentionAssumption, SnapshotPrune, LockPrune, queueVars, workerVars
<1>1. \A o \in Pruners : o # q => prune'[o] = prune[o]
  BY <1>0 DEF SnapshotPrune, LockPrune, PruneTo
<1>2. Finished' /\ PurgeInv'
  BY <1>0 DEF Finished, PurgeInv
<1>3. CASE SnapshotPrune(q)
  <2>1. /\ prune' = [prune EXCEPT ![q] = [pc |-> "select", refs |-> Referenced, got |-> {},
                                          found |-> {}]]
        /\ regLock' = regLock
    BY <1>3 DEF SnapshotPrune, PruneTo, PruneAt
  <2>2. Referenced \in SUBSET Workers
    BY <1>0 DEF Referenced
  <2>3. /\ prune' \in [Pruners -> [pc : PrunePC, refs : SUBSET Workers, got : SUBSET Workers,
                                   found : SUBSET Workers]]
        /\ c.pc = "select"
    BY <1>0, <2>1, <2>2 DEF PrunePC
  <2>4. TypeOK' /\ CallTypes' /\ NoClaimUnderLock'
    BY <1>0, <2>1, <2>3 DEF TypeOK, CallTypes, NoClaimUnderLock
  <2>5. PruneInv'
    BY <1>1, <2>1, <2>3 DEF PruneInv
  <2> QED BY <1>2, <2>4, <2>5
<1>4. CASE LockPrune(q)
  <2> DEFINE found == {w \in reg \cap stale : w \notin r.refs /\ w \notin claiming /\ regLock[w] = None}
             got == {w \in found : Cardinality({v \in found : v < w}) < BatchSize}
  <2>1. /\ regLock' = [w \in Workers |-> IF w \in got THEN q ELSE regLock[w]]
        /\ prune' = [prune EXCEPT ![q] = [r EXCEPT !.pc = "delete", !.got = got, !.found = found]]
    BY <1>4 DEF LockPrune, PruneTo
  <2>2. /\ got \subseteq found /\ found \in SUBSET Workers
        /\ \A w \in found : w \notin claiming /\ regLock[w] = None
    BY <1>0
  <2>3. Cardinality(got) < BatchSize => found \subseteq got
    <3> HIDE DEF found
    <3> QED BY <2>2, SmallBatch
  <2> HIDE DEF found, got
  <2>4. /\ prune' \in [Pruners -> [pc : PrunePC, refs : SUBSET Workers, got : SUBSET Workers,
                                   found : SUBSET Workers]]
        /\ c.pc = "delete" /\ c.got = got /\ c.found = found
    <3>1. r \in [pc : PrunePC, refs : SUBSET Workers, got : SUBSET Workers, found : SUBSET Workers]
          /\ got \in SUBSET Workers
      BY <1>0, <2>2
    <3> QED BY <1>0, <2>1, <2>2, <3>1 DEF PrunePC
  <2>5. regLock' \in [Workers -> Pruners \cup {None}]
    BY <1>0, <2>1
  <2>6. TypeOK' /\ CallTypes'
    BY <1>0, <2>4, <2>5 DEF TypeOK, CallTypes
  <2>7. NoClaimUnderLock'
    BY <1>0, <2>1, <2>2 DEF NoClaimUnderLock
  <2>8. PruneInv'
    <3> SUFFICES ASSUME NEW o \in Pruners, prune'[o].pc = "delete"
                 PROVE  /\ \A w \in prune'[o].got : regLock'[w] = o
                        /\ Cardinality(prune'[o].got) < BatchSize => prune'[o].found \subseteq prune'[o].got
      BY DEF PruneInv
    <3>1. CASE o = q
      <4>1. \A w \in got : regLock'[w] = q
        BY <2>1, <2>2
      <4> QED BY <2>3, <2>4, <3>1, <4>1
    <3>2. CASE o # q
      <4>1. prune'[o] = prune[o] /\ prune[o].got \subseteq Workers
        BY <1>0, <1>1, <3>2
      <4>2. \A w \in prune[o].got : regLock[w] = o /\ w \in Workers /\ w \notin got
        BY <1>0, <2>2, <4>1 DEF PruneInv
      <4>3. \A w \in prune[o].got : regLock'[w] = o
        BY <2>1, <4>2
      <4> QED BY <4>1, <4>3 DEF PruneInv
    <3> QED BY <3>1, <3>2
  <2> QED BY <1>2, <2>6, <2>7, <2>8
<1> QED BY <1>3, <1>4

\* A batch of a prune deletes its registrations.
LEMMA PruneDelete ==
  ASSUME RetentionAssumption, RetentionInv, NEW q \in Pruners, DeletePrune(q)
  PROVE  /\ RetentionInv'
         /\ \A o \in Pruners : o # q => prune'[o] = prune[o]
         /\ prune'[q].pc = "returned" => prune[q].found \cap reg' \subseteq Referenced
<1> USE DEF RetentionInv
<1> DEFINE r == prune[q]
           c == prune'[q]
           gone == Deletable(q)
<1>0. /\ UNCHANGED <<job, by, aged, claiming, rowLock, purge>>
      /\ regLock \in [Workers -> Pruners \cup {None}]
      /\ prune \in [Pruners -> [pc : PrunePC, refs : SUBSET Workers, got : SUBSET Workers,
                                found : SUBSET Workers]]
      /\ None \notin Pruners /\ None \notin Workers /\ by \in [Jobs -> reg \cup {None}]
      /\ reg \subseteq Workers /\ stale \subseteq reg /\ claiming \subseteq reg
      /\ r.pc = "delete" /\ reg' = reg \ gone /\ stale' = stale \ gone
      /\ regLock' = [w \in Workers |-> IF regLock[w] = q THEN None ELSE regLock[w]]
      /\ prune' = [prune EXCEPT ![q] = [r EXCEPT !.pc = IF PruneDone(q) THEN "returned" ELSE "loop"]]
  BY DEF TypeOK, CallTypes, RetentionAssumption, DeletePrune, PruneTo, queueVars
<1>1. /\ gone = r.got \ Referenced /\ r.got \subseteq Workers
      /\ \A w \in r.got : regLock[w] = q /\ w \notin claiming
      /\ Cardinality(r.got) < BatchSize => r.found \subseteq r.got
  BY <1>0 DEF Deletable, PruneInv, NoClaimUnderLock
<1>2. \A o \in Pruners : o # q => prune'[o] = prune[o]
  BY <1>0
<1>3. /\ c.pc \in {"returned", "loop"} /\ (c.pc = "returned" => PruneDone(q))
      /\ prune' \in [Pruners -> [pc : PrunePC, refs : SUBSET Workers, got : SUBSET Workers,
                                 found : SUBSET Workers]]
  <2>1. r \in [pc : PrunePC, refs : SUBSET Workers, got : SUBSET Workers, found : SUBSET Workers]
    BY <1>0
  <2>2. CASE PruneDone(q)
    BY <1>0, <2>1, <2>2 DEF PrunePC
  <2>3. CASE ~PruneDone(q)
    BY <1>0, <2>1, <2>3 DEF PrunePC
  <2> QED BY <2>2, <2>3
<1> HIDE DEF gone
<1>4. /\ by' \in [Jobs -> reg' \cup {None}]
      /\ reg' \subseteq Workers /\ stale' \subseteq reg' /\ claiming' \subseteq reg'
      /\ regLock' \in [Workers -> Pruners \cup {None}]
  <2>1. \A j \in Jobs : by[j] \in reg' \cup {None}
    BY <1>0, <1>1 DEF Referenced
  <2>2. by' \in [Jobs -> reg' \cup {None}]
    BY <1>0, <2>1
  <2>3. reg' \subseteq Workers /\ stale' \subseteq reg' /\ claiming' \subseteq reg'
    BY <1>0, <1>1
  <2> QED BY <1>0, <2>2, <2>3
<1>5. TypeOK' /\ CallTypes'
  BY <1>0, <1>3, <1>4 DEF TypeOK, CallTypes
<1>6. Finished' /\ PurgeInv'
  BY <1>0 DEF Finished, PurgeInv
<1>7. NoClaimUnderLock'
  BY <1>0 DEF NoClaimUnderLock
<1>8. PruneInv'
  <2> SUFFICES ASSUME NEW o \in Pruners, prune'[o].pc = "delete"
               PROVE  /\ \A w \in prune'[o].got : regLock'[w] = o
                      /\ Cardinality(prune'[o].got) < BatchSize => prune'[o].found \subseteq prune'[o].got
    BY DEF PruneInv
  <2>1. o # q
    BY <1>3
  <2>2. prune'[o] = prune[o] /\ prune[o].got \subseteq Workers
    BY <1>0, <1>2, <2>1
  <2> QED BY <1>0, <2>1, <2>2 DEF PruneInv
<1>9. ASSUME c.pc = "returned" PROVE r.found \cap reg' \subseteq Referenced
  <2>1. r.found \subseteq r.got
    BY <1>1, <1>3, <1>9 DEF PruneDone
  <2> QED BY <1>0, <1>1, <2>1
<1> QED BY <1>2, <1>5, <1>6, <1>7, <1>8, <1>9

LEMMA RetentionStutter ==
  ASSUME RetentionInv, UNCHANGED vars
  PROVE  RetentionInv'
BY DEF RetentionInv, TypeOK, CallTypes, Finished, PurgeInv, PruneInv, NoClaimUnderLock, vars

LEMMA RetentionStep ==
  ASSUME RetentionAssumption, RetentionInv, [Next]_vars
  PROVE  RetentionInv'
<1>1. CASE \E p \in Purgers : StartPurge(p) \/ PurgeBatch(p) \/ CommitPurge(p) \/ FailPurge(p)
  <2>1. PICK p \in Purgers : StartPurge(p) \/ PurgeBatch(p) \/ CommitPurge(p) \/ FailPurge(p)
    BY <1>1
  <2> QED BY <2>1, PurgeCall, PurgeCommit
<1>2. CASE \E q \in Pruners : SnapshotPrune(q) \/ LockPrune(q) \/ DeletePrune(q)
  BY <1>2, PruneSelect, PruneDelete
<1> QED BY <1>1, <1>2, QueueStep, RetentionStutter DEF Next

\* Retention keeps its inductive invariant: what a purge deletes is finished
\* and locked by it, and what a prune locked has no claim in progress.
THEOREM RetentionSafe ==
  ASSUME RetentionAssumption
  PROVE  Spec => []RetentionInv
<1>1. Init => RetentionInv
  BY RetentionInit
<1>2. RetentionInv /\ [Next]_vars => RetentionInv'
  BY RetentionStep
<1> QED BY <1>1, <1>2, PTL DEF Spec

\* The foreign key of lock_by holds: prune_workers deletes no registration
\* that a task names, although claims commit between the snapshot that chose
\* its candidates and its locks.
THEOREM NoReferencePruned ==
  ASSUME RetentionAssumption
  PROVE  Spec => []TypeOK
<1>1. RetentionInv => TypeOK
  BY DEF RetentionInv
<1> QED BY <1>1, RetentionSafe, PTL

\* What a step of any other action leaves alone.
LEMMA NoPurgeStep ==
  ASSUME RetentionAssumption, RetentionInv, [Next]_vars, \A p \in Purgers : ~CommitPurge(p)
  PROVE  /\ \A j \in Jobs : job'[j] = "absent" => job[j] = "absent"
         /\ \A p \in Purgers : purge[p].pc = "commit" => purge'[p].pc # "returned"
<1>0. /\ job \in [Jobs -> {"absent", "waiting", "held", "done"}]
      /\ purge \in [Purgers -> [pc : PurgePC, cut : SUBSET Jobs, got : SUBSET Jobs,
                                skipped : SUBSET Jobs]]
  BY DEF RetentionInv, TypeOK, CallTypes
<1>1. CASE \E j \in Jobs : Enqueue(j) \/ Finish(j) \/ GrowOld(j)
  <2>1. UNCHANGED purge
    BY <1>1 DEF Enqueue, Finish, GrowOld, retentionVars
  <2> QED BY <1>0, <1>1, <2>1 DEF Enqueue, Finish, GrowOld
<1>2. CASE \E w \in Workers : BeginClaim(w) \/ CommitClaim(w) \/ Renew(w) \/ GoStale(w)
  <2>1. UNCHANGED purge
    BY <1>2 DEF BeginClaim, CommitClaim, Renew, GoStale, retentionVars
  <2> QED BY <1>0, <1>2, <2>1 DEF BeginClaim, CommitClaim, Renew, GoStale, queueVars
<1>3. CASE \E p \in Purgers : StartPurge(p) \/ PurgeBatch(p) \/ FailPurge(p)
  <2>1. PICK p \in Purgers : StartPurge(p) \/ PurgeBatch(p) \/ FailPurge(p)
    BY <1>3
  <2>2. UNCHANGED job /\ \A o \in Purgers : o # p => purge'[o] = purge[o]
    BY <1>0, <2>1 DEF StartPurge, PurgeBatch, FailPurge, queueVars, PurgeTo
  <2>3. purge'[p].pc # "returned"
    <3>1. CASE StartPurge(p) \/ FailPurge(p)
      BY <1>0, <3>1 DEF StartPurge, FailPurge, PurgeTo, PurgeAt
    <3>2. CASE PurgeBatch(p)
      <4>1. PICK got, skipped : purge' = [purge EXCEPT ![p] = [purge[p] EXCEPT !.pc = "commit", !.got = got,
                                                                            !.skipped = skipped]]
        BY <3>2 DEF PurgeBatch, PurgeTo
      <4> QED BY <1>0, <4>1
    <3> QED BY <2>1, <3>1, <3>2
  <2> QED BY <1>0, <2>2, <2>3
<1>4. CASE \E q \in Pruners : SnapshotPrune(q) \/ LockPrune(q) \/ DeletePrune(q)
  <2>1. UNCHANGED <<job, purge>>
    BY <1>4 DEF SnapshotPrune, LockPrune, DeletePrune, queueVars
  <2> QED BY <1>0, <2>1
<1>5. CASE UNCHANGED vars
  BY <1>5 DEF vars
<1> QED BY <1>1, <1>2, <1>3, <1>4, <1>5 DEF Next

LEMMA NoPruneStep ==
  ASSUME RetentionAssumption, RetentionInv, [Next]_vars, \A q \in Pruners : ~DeletePrune(q)
  PROVE  \A q \in Pruners : prune[q].pc = "delete" => prune'[q].pc # "returned"
<1>0. prune \in [Pruners -> [pc : PrunePC, refs : SUBSET Workers, got : SUBSET Workers,
                             found : SUBSET Workers]]
  BY DEF RetentionInv, CallTypes
<1>1. CASE \E q \in Pruners : SnapshotPrune(q) \/ LockPrune(q)
  <2>1. PICK q \in Pruners : SnapshotPrune(q) \/ LockPrune(q)
    BY <1>1
  <2>2. \A o \in Pruners : o # q => prune'[o] = prune[o]
    BY <1>0, <2>1 DEF SnapshotPrune, LockPrune, PruneTo
  <2>3. prune'[q].pc # "returned"
    <3>1. CASE SnapshotPrune(q)
      BY <1>0, <3>1 DEF SnapshotPrune, PruneTo, PruneAt
    <3>2. CASE LockPrune(q)
      <4>1. PICK got, found : prune' = [prune EXCEPT ![q] = [prune[q] EXCEPT !.pc = "delete", !.got = got,
                                                                          !.found = found]]
        BY <3>2 DEF LockPrune, PruneTo
      <4> QED BY <1>0, <4>1
    <3> QED BY <2>1, <3>1, <3>2
  <2> QED BY <2>2, <2>3
<1>2. CASE UNCHANGED prune
  BY <1>2
<1>3. ASSUME Next PROVE UNCHANGED prune \/ \E q \in Pruners : SnapshotPrune(q) \/ LockPrune(q)
  <2>1. ASSUME NEW j \in Jobs, Enqueue(j) \/ Finish(j) \/ GrowOld(j) PROVE UNCHANGED prune
    BY <2>1 DEF Enqueue, Finish, GrowOld, retentionVars
  <2>2. ASSUME NEW w \in Workers, BeginClaim(w) \/ CommitClaim(w) \/ Renew(w) \/ GoStale(w)
        PROVE  UNCHANGED prune
    BY <2>2 DEF BeginClaim, CommitClaim, Renew, GoStale, retentionVars
  <2>3. ASSUME NEW p \in Purgers, StartPurge(p) \/ PurgeBatch(p) \/ CommitPurge(p) \/ FailPurge(p)
        PROVE  UNCHANGED prune
    BY <2>3 DEF StartPurge, PurgeBatch, CommitPurge, FailPurge
  <2> QED BY <1>3, <2>1, <2>2, <2>3 DEF Next
<1> QED BY <1>1, <1>2, <1>3 DEF vars

\* purge_terminal_tasks deletes finished tasks only, and of these only the
\* ones finished for completed_before when the call began, whatever its limit
\* and however many purges run beside it.
THEOREM PurgesInWindow ==
  ASSUME RetentionAssumption
  PROVE  Spec => [][DeletesInWindow]_vars
<1>1. ASSUME RetentionInv, [Next]_vars PROVE [DeletesInWindow]_vars
  <2>1. ASSUME NEW p \in Purgers, CommitPurge(p) PROVE DeletesInWindow
    <3> DEFINE got == purge[p].got
    <3>1. (\A j \in got : job[j] = "done" /\ j \in purge[p].cut) /\ (\A j \in Jobs \ got : job'[j] = job[j])
      <4> HIDE DEF got
      <4>1. got = purge[p].got
        BY DEF got
      <4> QED BY <1>1, <2>1, <4>1, PurgeCommit
    <3> QED BY <3>1 DEF DeletesInWindow
  <2>2. ASSUME \A p \in Purgers : ~CommitPurge(p) PROVE DeletesInWindow
    BY <1>1, <2>2, NoPurgeStep DEF DeletesInWindow
  <2> QED BY <2>1, <2>2
<1> QED BY <1>1, RetentionSafe, PTL DEF Spec

\* A purge_terminal_tasks that returns has deleted every row older than its
\* cutoff, except those another transaction held during its last batch,
\* whatever limit its caller passed.
THEOREM PurgesDrain ==
  ASSUME RetentionAssumption
  PROVE  Spec => [][ReturnsDrained]_vars
<1>1. ASSUME RetentionInv, [Next]_vars PROVE [ReturnsDrained]_vars
  <2>1. ASSUME NEW p \in Purgers, CommitPurge(p) PROVE ReturnsDrained
    <3> DEFINE got == purge[p].got
    <3>1. /\ \A o \in Purgers : o # p => purge'[o].pc = purge[o].pc
          /\ purge'[p].pc = "returned" => purge'[p].cut \subseteq purge[p].skipped
      <4>1. got = purge[p].got
        OBVIOUS
      <4> HIDE DEF got
      <4> QED BY <1>1, <2>1, <4>1, PurgeCommit
    <3> QED BY <3>1 DEF ReturnsDrained
  <2>2. ASSUME \A p \in Purgers : ~CommitPurge(p) PROVE ReturnsDrained
    BY <1>1, <2>2, NoPurgeStep DEF ReturnsDrained
  <2> QED BY <2>1, <2>2
<1> QED BY <1>1, RetentionSafe, PTL DEF Spec

\* A prune_workers that returns has deleted every registration its last batch
\* could have found, except those a task came to reference: for any limit, the
\* least ids of a batch smaller than the limit are all of its ids.
THEOREM PrunesDrain ==
  ASSUME RetentionAssumption
  PROVE  Spec => [][ReturnsPruned]_vars
<1>1. ASSUME RetentionInv, [Next]_vars PROVE [ReturnsPruned]_vars
  <2>1. ASSUME NEW q \in Pruners, DeletePrune(q) PROVE ReturnsPruned
    <3>1. /\ \A o \in Pruners : o # q => prune'[o] = prune[o]
          /\ prune'[q].pc = "returned" => prune[q].found \cap reg' \subseteq Referenced
      BY <1>1, <2>1, PruneDelete
    <3> QED BY <3>1 DEF ReturnsPruned
  <2>2. ASSUME \A q \in Pruners : ~DeletePrune(q) PROVE ReturnsPruned
    BY <1>1, <2>2, NoPruneStep DEF ReturnsPruned
  <2> QED BY <2>1, <2>2
<1> QED BY <1>1, RetentionSafe, PTL DEF Spec

-----------------------------------------------------------------------------
\* Heartbeats and the recovery of orphans.

\* A worker that renews when due: its registration exists, and its age and
\* the time until the next renewal add up to at most keep_alive.
Fresh ==
  \A w \in Workers : beat[w] # None /\ ~overdue[w] =>
    w \in registered /\ age[w] + beat[w] <= keepAlive

RecoveryInv ==
  /\ Recovery!TypeOK
  /\ keepAlive < staleAfter
  /\ Fresh

\* A step takes no claim from a worker that renews when due, except by the
\* worker's own acknowledgement or release.
PromptClaimKept ==
  \A w \in Workers, j \in Jobs :
    beat[w] # None /\ ~overdue[w] /\ owner[j] = w /\ owner'[j] # w =>
      Recovery!Ack(w, j) \/ Recovery!ReleaseWorker(w)

\* The types, taken apart.
LEMMA RecoveryTypes ==
  ASSUME Recovery!RecoveryConstants, RecoveryInv
  PROVE  /\ keepAlive \in Nat /\ staleAfter \in Nat /\ keepAlive < staleAfter
         /\ keepAlive \in 0..MaxTime /\ staleAfter \in 1..MaxTime
         /\ None \notin 0..keepAlive /\ None \notin Workers
         /\ registered \subseteq Workers
         /\ age \in [Workers -> 0..staleAfter]
         /\ owner \in [Jobs -> registered \cup {None}]
         /\ beat \in [Workers -> (0..keepAlive) \cup {None}]
         /\ sweep \in [Workers -> (0..keepAlive) \cup {None}]
         /\ \A w \in Workers : beat[w] = None <=> sweep[w] = None
         /\ sent \in [Workers -> SUBSET {"renewal", "claim"}]
         /\ overdue \in [Workers -> BOOLEAN]
BY DEF Recovery!RecoveryConstants, RecoveryInv, Recovery!TypeOK

LEMMA RecoveryInit ==
  ASSUME Recovery!RecoveryConstants, Recovery!Init
  PROVE  RecoveryInv
<1>1. Recovery!TypeOK
  BY DEF Recovery!Init, Recovery!TypeOK, Recovery!RecoveryConstants
<1>2. keepAlive < staleAfter /\ Fresh
  BY DEF Recovery!Init, Recovery!ValidateLiveness, Fresh
<1> QED BY <1>1, <1>2 DEF RecoveryInv

\* The steps that end a worker, or that only move a claim.
LEMMA RecoveryClaims ==
  ASSUME Recovery!RecoveryConstants, RecoveryInv,
         NEW R \in SUBSET Workers, registered' = R,
         UNCHANGED <<keepAlive, staleAfter, overdue>>,
         age' \in [Workers -> 0..staleAfter],
         owner' \in [Jobs -> R \cup {None}],
         sent' \in [Workers -> SUBSET {"renewal", "claim"}],
         beat' \in [Workers -> (0..keepAlive) \cup {None}],
         sweep' \in [Workers -> (0..keepAlive) \cup {None}],
         \A w \in Workers : beat'[w] = None <=> sweep'[w] = None,
         \A w \in Workers : beat'[w] # None /\ ~overdue[w] =>
           /\ beat'[w] = beat[w] /\ age'[w] <= age[w]
           /\ w \in registered => w \in R
  PROVE  RecoveryInv'
<1>1. Recovery!TypeOK'
  BY RecoveryTypes DEF Recovery!TypeOK
<1>2. Fresh'
  <2> SUFFICES ASSUME NEW w \in Workers, beat'[w] # None, ~overdue[w]
               PROVE  w \in R /\ age'[w] + beat'[w] <= keepAlive
    BY DEF Fresh
  <2>1. beat'[w] = beat[w] /\ age'[w] <= age[w] /\ w \in registered /\ age[w] + beat[w] <= keepAlive
    BY DEF RecoveryInv, Fresh
  <2>2. age[w] \in Nat /\ age'[w] \in Nat /\ beat[w] \in Nat /\ keepAlive \in Nat
    BY <2>1, RecoveryTypes
  <2> QED BY <2>1, <2>2
<1> QED BY <1>1, <1>2 DEF RecoveryInv

\* The claims that a sweep recovers belong to stale registrations.
LEMMA SweptStale ==
  ASSUME Recovery!RecoveryConstants, RecoveryInv, NEW skipped, Recovery!ReenqueueOrphaned(skipped)
  PROVE  /\ owner' \in [Jobs -> registered \cup {None}]
         /\ \A j \in Jobs : owner'[j] # owner[j] =>
              \E w \in registered : owner[j] = w /\ age[w] = staleAfter
<1> DEFINE owners == Recovery!FirstOf(BatchLimit, Recovery!StaleOwners(skipped))
           taken == Recovery!FirstOf(BatchLimit, Recovery!OwnedBy(owners))
<1>1. \A w \in owners : w \in registered /\ age[w] = staleAfter
  BY DEF Recovery!FirstOf, Recovery!StaleOwners, Recovery!Stale
<1>2. \A j \in taken : owner[j] \in owners
  <2> HIDE DEF owners
  <2> QED BY DEF Recovery!FirstOf, Recovery!OwnedBy
<1>3. owner' = [j \in Jobs |-> IF j \in taken THEN None ELSE owner[j]]
  BY DEF Recovery!ReenqueueOrphaned, Recovery!Handed
<1> HIDE DEF owners, taken
<1> QED BY <1>1, <1>2, <1>3, RecoveryTypes

\* A registration that its worker renews when due is not stale.
LEMMA PromptNotStale ==
  ASSUME Recovery!RecoveryConstants, RecoveryInv, NEW w \in Workers, beat[w] # None, ~overdue[w]
  PROVE  w \in registered /\ age[w] # staleAfter
<1>1. w \in registered /\ age[w] + beat[w] <= keepAlive
  BY DEF RecoveryInv, Fresh
<1>2. age[w] \in Nat /\ beat[w] \in Nat
  BY RecoveryTypes
<1> QED BY <1>1, <1>2, RecoveryTypes

LEMMA RecoveryOwner ==
  ASSUME Recovery!RecoveryConstants, RecoveryInv, NEW w \in Workers,
         \/ Recovery!Sweep(w)
         \/ \E j \in Jobs : Recovery!Claim(w, j) \/ Recovery!Ack(w, j)
         \/ Recovery!LateClaim(w)
  PROVE  RecoveryInv'
<1>1. CASE Recovery!Sweep(w)
  <2>1. PICK skipped : Recovery!ReenqueueOrphaned(skipped)
    BY <1>1 DEF Recovery!Sweep
  <2>2. owner' \in [Jobs -> registered \cup {None}]
    BY <2>1, SweptStale
  <2>3. /\ UNCHANGED <<keepAlive, staleAfter, registered, age, beat, sent, overdue>>
        /\ sweep' = [sweep EXCEPT ![w] = keepAlive] /\ beat[w] # None
    BY <1>1 DEF Recovery!Sweep, Recovery!durations, Recovery!Live
  <2>4. /\ sweep' \in [Workers -> (0..keepAlive) \cup {None}]
        /\ \A v \in Workers : beat'[v] = None <=> sweep'[v] = None
    BY <2>3, RecoveryTypes
  <2>5. \A v \in Workers : age[v] <= age[v]
    BY RecoveryTypes
  <2> QED BY <2>2, <2>3, <2>4, <2>5, RecoveryTypes, RecoveryClaims
<1>2. CASE \/ \E j \in Jobs : Recovery!Claim(w, j) \/ Recovery!Ack(w, j)
           \/ Recovery!LateClaim(w)
  <2>1. UNCHANGED <<keepAlive, staleAfter, registered, age, beat, sweep, overdue>>
    BY <1>2 DEF Recovery!Claim, Recovery!Ack, Recovery!LateClaim, Recovery!durations
  <2>0. owner \in [Jobs -> registered \cup {None}] /\ sent \in [Workers -> SUBSET {"renewal", "claim"}]
    BY RecoveryTypes
  <2>2. owner' \in [Jobs -> registered \cup {None}]
    <3>1. ASSUME NEW j \in Jobs, Recovery!Claim(w, j) PROVE owner' \in [Jobs -> registered \cup {None}]
      <4>1. w \in registered /\ owner' = [owner EXCEPT ![j] = w]
        BY <3>1 DEF Recovery!Claim
      <4> QED BY <2>0, <4>1
    <3>2. ASSUME NEW j \in Jobs, Recovery!Ack(w, j) PROVE owner' \in [Jobs -> registered \cup {None}]
      <4>1. owner' = [i \in Jobs |-> IF i \in {j} THEN None ELSE owner[i]]
        BY <3>2 DEF Recovery!Ack, Recovery!Handed
      <4> QED BY <2>0, <4>1
    <3>3. CASE Recovery!LateClaim(w)
      BY <3>3, RecoveryTypes DEF Recovery!LateClaim
    <3> QED BY <1>2, <3>1, <3>2, <3>3
  <2>3. sent' \in [Workers -> SUBSET {"renewal", "claim"}]
    <3>1. sent' = sent \/ \E S \in SUBSET {"renewal", "claim"} : sent' = [sent EXCEPT ![w] = S]
      BY <1>2, <2>0 DEF Recovery!Claim, Recovery!Ack, Recovery!LateClaim
    <3> QED BY <2>0, <3>1
  <2>4. \A v \in Workers : age[v] <= age[v]
    BY RecoveryTypes
  <2> QED BY <2>1, <2>2, <2>3, <2>4, RecoveryTypes, RecoveryClaims
<1> QED BY <1>1, <1>2

LEMMA RecoveryWorker ==
  ASSUME Recovery!RecoveryConstants, RecoveryInv, NEW w \in Workers,
         Recovery!Stop(w) \/ Recovery!LateRenewal(w) \/ Recovery!ReleaseWorker(w) \/ Recovery!Prune(w)
  PROVE  RecoveryInv'
<1>0. \A v \in Workers : age[v] \in Nat /\ age[v] <= age[v] /\ 0 <= age[v]
  BY RecoveryTypes
<1>1. CASE Recovery!Stop(w)
  <2>1. /\ UNCHANGED <<keepAlive, staleAfter, registered, age, owner, overdue>>
        /\ beat' = [beat EXCEPT ![w] = None] /\ sweep' = [sweep EXCEPT ![w] = None]
        /\ sent' \in [Workers -> SUBSET {"renewal", "claim"}]
    BY <1>1, RecoveryTypes DEF Recovery!Stop, Recovery!Stopped, Recovery!durations
  <2>2. /\ beat' \in [Workers -> (0..keepAlive) \cup {None}]
        /\ sweep' \in [Workers -> (0..keepAlive) \cup {None}]
        /\ \A v \in Workers : beat'[v] = None <=> sweep'[v] = None
        /\ \A v \in Workers : beat'[v] # None => beat'[v] = beat[v]
    BY <2>1, RecoveryTypes
  <2> QED BY <1>0, <2>1, <2>2, RecoveryTypes, RecoveryClaims
<1>2. CASE Recovery!LateRenewal(w)
  <2>1. /\ UNCHANGED <<keepAlive, staleAfter, registered, owner, beat, sweep, overdue>>
        /\ age' = [age EXCEPT ![w] = 0] \/ age' = age
        /\ sent' \in [Workers -> SUBSET {"renewal", "claim"}]
    BY <1>2, RecoveryTypes DEF Recovery!LateRenewal, Recovery!durations
  <2>2. age' \in [Workers -> 0..staleAfter] /\ \A v \in Workers : age'[v] <= age[v]
    BY <1>0, <2>1, RecoveryTypes
  <2> QED BY <2>1, <2>2, RecoveryTypes, RecoveryClaims
<1>3. CASE Recovery!ReleaseWorker(w)
  <2>1. /\ UNCHANGED <<keepAlive, staleAfter, registered, sent, overdue>>
        /\ beat' = [beat EXCEPT ![w] = None] /\ sweep' = [sweep EXCEPT ![w] = None]
        /\ age' = [age EXCEPT ![w] = staleAfter]
        /\ owner' = Recovery!Handed(Recovery!OwnedBy({w}))
    BY <1>3 DEF Recovery!ReleaseWorker, Recovery!Stopped, Recovery!durations
  <2>2. owner' \in [Jobs -> registered \cup {None}]
    BY <2>1, RecoveryTypes DEF Recovery!Handed
  <2>3. /\ beat' \in [Workers -> (0..keepAlive) \cup {None}]
        /\ sweep' \in [Workers -> (0..keepAlive) \cup {None}]
        /\ age' \in [Workers -> 0..staleAfter]
        /\ \A v \in Workers : beat'[v] = None <=> sweep'[v] = None
    BY <2>1, RecoveryTypes
  <2>4. \A v \in Workers : beat'[v] # None => beat'[v] = beat[v] /\ age'[v] <= age[v]
    BY <1>0, <2>1, RecoveryTypes
  <2> QED BY <2>1, <2>2, <2>3, <2>4, RecoveryTypes, RecoveryClaims
<1>4. CASE Recovery!Prune(w)
  <2>1. /\ UNCHANGED <<keepAlive, staleAfter, age, owner, beat, sweep, sent, overdue>>
        /\ registered' = registered \ {w} /\ age[w] = staleAfter
        /\ \A j \in Jobs : owner[j] # w
    BY <1>4 DEF Recovery!Prune, Recovery!Stale, Recovery!OwnedBy, Recovery!durations
  <2>2. owner' \in [Jobs -> (registered \ {w}) \cup {None}]
    BY <2>1, RecoveryTypes
  <2>3. \A v \in Workers : beat[v] # None /\ ~overdue[v] => v # w
    BY <2>1, PromptNotStale
  <2> QED BY <1>0, <2>1, <2>2, <2>3, RecoveryTypes, RecoveryClaims
<1> QED BY <1>1, <1>2, <1>3, <1>4

LEMMA RecoveryRenewal ==
  ASSUME Recovery!RecoveryConstants, RecoveryInv, NEW w \in Workers,
         Recovery!Register(w) \/ Recovery!KeepAlive(w)
  PROVE  RecoveryInv'
<1>1. CASE Recovery!KeepAlive(w) /\ w \notin registered
  <2>1. /\ UNCHANGED <<keepAlive, staleAfter, registered, age, owner, sent, overdue>>
        /\ beat' = [beat EXCEPT ![w] = None] /\ sweep' = [sweep EXCEPT ![w] = None]
    BY <1>1 DEF Recovery!KeepAlive, Recovery!Stopped, Recovery!durations
  <2>2. /\ beat' \in [Workers -> (0..keepAlive) \cup {None}]
        /\ sweep' \in [Workers -> (0..keepAlive) \cup {None}]
        /\ \A v \in Workers : beat'[v] = None <=> sweep'[v] = None
        /\ \A v \in Workers : beat'[v] # None => beat'[v] = beat[v]
    BY <2>1, RecoveryTypes
  <2>3. \A v \in Workers : age[v] <= age[v]
    BY RecoveryTypes
  <2> QED BY <2>1, <2>2, <2>3, RecoveryTypes, RecoveryClaims
<1>2. CASE Recovery!Register(w) \/ (Recovery!KeepAlive(w) /\ w \in registered)
  <2>1. /\ UNCHANGED <<keepAlive, staleAfter>>
        /\ age' = [age EXCEPT ![w] = 0] /\ beat' = [beat EXCEPT ![w] = keepAlive]
        /\ overdue' = [overdue EXCEPT ![w] = FALSE]
        /\ registered' = registered \cup {w}
        /\ (sweep' = sweep /\ beat[w] # None) \/ sweep' = [sweep EXCEPT ![w] = keepAlive]
    <3>1. CASE Recovery!Register(w)
      BY <3>1 DEF Recovery!Register, Recovery!durations
    <3>2. CASE Recovery!KeepAlive(w) /\ w \in registered
      <4>1. registered = registered \cup {w}
        BY <3>2
      <4> QED BY <3>2, <4>1 DEF Recovery!KeepAlive, Recovery!Live, Recovery!durations
    <3> QED BY <1>2, <3>1, <3>2
  <2>2. owner' \in [Jobs -> registered \cup {None}]
    BY <1>2, RecoveryTypes DEF Recovery!Register, Recovery!KeepAlive, Recovery!Handed
  <2>3. sent' \in [Workers -> SUBSET {"renewal", "claim"}]
    BY <1>2, RecoveryTypes DEF Recovery!Register, Recovery!KeepAlive
  <2>4. Recovery!TypeOK'
    <3>1. /\ age' \in [Workers -> 0..staleAfter]
          /\ beat' \in [Workers -> (0..keepAlive) \cup {None}]
          /\ sweep' \in [Workers -> (0..keepAlive) \cup {None}]
          /\ overdue' \in [Workers -> BOOLEAN]
          /\ \A v \in Workers : beat'[v] = None <=> sweep'[v] = None
      BY <2>1, RecoveryTypes
    <3>2. owner' \in [Jobs -> registered' \cup {None}] /\ registered' \subseteq Workers
      BY <2>1, <2>2, RecoveryTypes
    <3> QED BY <2>1, <2>3, <3>1, <3>2, RecoveryTypes DEF Recovery!TypeOK
  <2>5. Fresh'
    <3> SUFFICES ASSUME NEW v \in Workers, beat'[v] # None, ~overdue'[v]
                 PROVE  v \in registered' /\ age'[v] + beat'[v] <= keepAlive
      BY <2>1 DEF Fresh
    <3>1. CASE v = w
      BY <2>1, <3>1, RecoveryTypes
    <3>2. CASE v # w
      BY <2>1, <3>2, RecoveryTypes DEF RecoveryInv, Fresh
    <3> QED BY <3>1, <3>2
  <2> QED BY <2>1, <2>4, <2>5, RecoveryTypes DEF RecoveryInv
<1> QED BY <1>1, <1>2

LEMMA RecoveryTick ==
  ASSUME Recovery!RecoveryConstants, RecoveryInv, Recovery!Tick
  PROVE  RecoveryInv'
<1>1. /\ UNCHANGED <<keepAlive, staleAfter, registered, owner, sent>>
      /\ age' = [w \in Workers |-> IF age[w] < staleAfter THEN age[w] + 1 ELSE age[w]]
      /\ beat' = [w \in Workers |-> IF beat[w] # None /\ beat[w] > 0 THEN beat[w] - 1 ELSE beat[w]]
      /\ sweep' = [w \in Workers |-> IF beat[w] # None /\ sweep[w] > 0 THEN sweep[w] - 1 ELSE sweep[w]]
      /\ overdue' = [w \in Workers |-> overdue[w] \/ (beat[w] # None /\ beat[w] = 0)]
  BY DEF Recovery!Tick, Recovery!Live, Recovery!durations
<1>2. /\ age' \in [Workers -> 0..staleAfter]
      /\ overdue' \in [Workers -> BOOLEAN]
  BY <1>1, RecoveryTypes
<1>3. \A w \in Workers : beat'[w] \in (0..keepAlive) \cup {None} /\ (beat'[w] = None <=> beat[w] = None)
  <2> TAKE w \in Workers
  <2>1. CASE beat[w] = None
    BY <1>1, <2>1
  <2>2. CASE beat[w] # None
    <3>1. beat[w] \in 0..keepAlive /\ keepAlive \in Nat /\ None \notin 0..keepAlive
      BY <2>2, RecoveryTypes
    <3>2. beat'[w] \in 0..keepAlive
      BY <1>1, <2>2, <3>1
    <3> QED BY <2>2, <3>1, <3>2
  <2> QED BY <2>1, <2>2
<1>4. \A w \in Workers : sweep'[w] \in (0..keepAlive) \cup {None} /\ (sweep'[w] = None <=> sweep[w] = None)
  <2> TAKE w \in Workers
  <2>1. CASE beat[w] = None
    BY <1>1, <2>1, RecoveryTypes
  <2>2. CASE beat[w] # None
    <3>1. sweep[w] \in 0..keepAlive /\ keepAlive \in Nat /\ None \notin 0..keepAlive
      BY <2>2, RecoveryTypes
    <3>2. sweep'[w] \in 0..keepAlive
      BY <1>1, <2>2, <3>1
    <3> QED BY <3>1, <3>2
  <2> QED BY <2>1, <2>2
<1>5. Recovery!TypeOK'
  <2>1. /\ beat' \in [Workers -> (0..keepAlive) \cup {None}]
        /\ sweep' \in [Workers -> (0..keepAlive) \cup {None}]
        /\ \A w \in Workers : beat'[w] = None <=> sweep'[w] = None
    BY <1>1, <1>3, <1>4, RecoveryTypes
  <2> QED BY <1>1, <1>2, <2>1, RecoveryTypes DEF Recovery!TypeOK
<1>6. Fresh'
  <2> SUFFICES ASSUME NEW w \in Workers, beat'[w] # None, ~overdue'[w]
               PROVE  w \in registered' /\ age'[w] + beat'[w] <= keepAlive
    BY <1>1 DEF Fresh
  <2>1. beat[w] # None /\ ~overdue[w] /\ beat[w] # 0
    BY <1>1, <1>3
  <2>2. w \in registered /\ age[w] + beat[w] <= keepAlive
    BY <2>1 DEF RecoveryInv, Fresh
  <2>3. beat[w] \in Nat /\ age[w] \in Nat /\ keepAlive \in Nat /\ staleAfter \in Nat /\ keepAlive < staleAfter
    BY <2>1, RecoveryTypes
  <2>4. beat'[w] = beat[w] - 1 /\ age'[w] = age[w] + 1
    BY <1>1, <2>1, <2>2, <2>3
  <2> QED BY <1>1, <2>2, <2>3, <2>4
<1> QED BY <1>1, <1>5, <1>6, RecoveryTypes DEF RecoveryInv

LEMMA RecoveryStep ==
  ASSUME Recovery!RecoveryConstants, RecoveryInv, [Recovery!Next]_(Recovery!vars)
  PROVE  RecoveryInv'
<1>1. CASE UNCHANGED Recovery!vars
  <2>1. UNCHANGED <<keepAlive, staleAfter, registered, age, owner, beat, sweep, sent, overdue>>
    BY <1>1 DEF Recovery!vars
  <2> QED BY <2>1 DEF RecoveryInv, Recovery!TypeOK, Fresh
<1> QED BY <1>1, RecoveryOwner, RecoveryWorker, RecoveryRenewal, RecoveryTick DEF Recovery!Next

\* Heartbeats keep their inductive invariant, for any configuration that
\* validate_liveness admits, whether or not the loops run in time.
THEOREM RecoverySafe ==
  ASSUME Recovery!RecoveryConstants
  PROVE  Recovery!Spec => []RecoveryInv
<1>1. Recovery!Init => RecoveryInv
  BY RecoveryInit
<1>2. RecoveryInv /\ [Recovery!Next]_(Recovery!vars) => RecoveryInv'
  BY RecoveryStep
<1> QED BY <1>1, <1>2, PTL DEF Recovery!Spec

\* The foreign key of jobs.lock_by holds against every sweep, prune and late
\* claim, and a worker that renews when due is never stale.
THEOREM PromptWorkersFresh ==
  ASSUME Recovery!RecoveryConstants
  PROVE  Recovery!Spec => [](Recovery!TypeOK /\ Recovery!PromptIsFresh)
<1>1. RecoveryInv => Recovery!TypeOK /\ Recovery!PromptIsFresh
  <2> SUFFICES ASSUME RecoveryInv, NEW w \in Recovery!Live, ~overdue[w]
               PROVE  w \in registered /\ ~Recovery!Stale(w)
    BY DEF RecoveryInv, Recovery!PromptIsFresh
  <2>1. w \in Workers /\ beat[w] # None
    BY DEF Recovery!Live
  <2> QED BY <2>1, PromptNotStale DEF Recovery!Stale
<1> QED BY <1>1, RecoverySafe, PTL

\* Neither a sweep nor a successor takes a claim from a worker that renews
\* when due: it loses one only by its own acknowledgement or release.
THEOREM PromptClaimsKept ==
  ASSUME Recovery!RecoveryConstants
  PROVE  Recovery!Spec => [][PromptClaimKept]_(Recovery!vars)
<1>1. ASSUME RecoveryInv, [Recovery!Next]_(Recovery!vars)
      PROVE  [PromptClaimKept]_(Recovery!vars)
  <2> SUFFICES ASSUME Recovery!Next, NEW v \in Workers, NEW i \in Jobs,
                      beat[v] # None, ~overdue[v], owner[i] = v, owner'[i] # v
               PROVE  Recovery!Ack(v, i) \/ Recovery!ReleaseWorker(v)
    BY <1>1 DEF PromptClaimKept
  <2>0. v \in registered /\ age[v] # staleAfter /\ v # None /\ owner \in [Jobs -> registered \cup {None}]
    BY <1>1, PromptNotStale, RecoveryTypes
  <2>1. ASSUME NEW w \in Workers, Recovery!Sweep(w) PROVE FALSE
    BY <1>1, <2>0, <2>1, SweptStale DEF Recovery!Sweep
  <2>2. ASSUME NEW w \in Workers, Recovery!Register(w) PROVE FALSE
    <3>1. w # v
      BY <2>2 DEF Recovery!Register, Recovery!Live
    <3> QED BY <2>2, <3>1 DEF Recovery!Register, Recovery!Handed, Recovery!OwnedBy
  <2>3. ASSUME NEW w \in Workers,
               Recovery!KeepAlive(w) \/ Recovery!Stop(w) \/ Recovery!LateRenewal(w) \/ Recovery!Prune(w)
        PROVE  FALSE
    BY <2>3 DEF Recovery!KeepAlive, Recovery!Stop, Recovery!LateRenewal, Recovery!Prune
  <2>4. ASSUME NEW w \in Workers, Recovery!LateClaim(w) PROVE FALSE
    BY <2>0, <2>4 DEF Recovery!LateClaim
  <2>5. ASSUME NEW w \in Workers, Recovery!ReleaseWorker(w) PROVE w = v
    BY <2>0, <2>5 DEF Recovery!ReleaseWorker, Recovery!Handed, Recovery!OwnedBy
  <2>6. ASSUME NEW w \in Workers, NEW j \in Jobs, Recovery!Claim(w, j) PROVE FALSE
    BY <2>0, <2>6 DEF Recovery!Claim
  <2>7. ASSUME NEW w \in Workers, NEW j \in Jobs, Recovery!Ack(w, j) PROVE w = v /\ j = i
    BY <2>0, <2>7 DEF Recovery!Ack, Recovery!Handed
  <2>8. ASSUME Recovery!Tick PROVE FALSE
    BY <2>8 DEF Recovery!Tick
  <2> QED BY <2>1, <2>2, <2>3, <2>4, <2>5, <2>6, <2>7, <2>8 DEF Recovery!Next
<1> QED BY <1>1, RecoverySafe, PTL DEF Recovery!Spec


-----------------------------------------------------------------------------
\* Schema setup.

\* The types of what schema_contract.sql and the journal tell apart.
Catalog ==
  [cols : {"none", "legacy", "mixed", "full"}, indexes : {"none", "base", "final"},
   owner : {"absent", "valid", "malformed"}, shape : {"absent", "valid", "malformed"},
   done : SUBSET Versions, twice : SUBSET Versions, journal : (SUBSET Versions) \cup {Nothing}]

\* What a catalog without a journal shows of its history.
History(d) ==
  /\ Satisfies(d, "Adoptable") => FinalAdoptVersions \subseteq d.done
  /\ Satisfies(d, "ReleasedBaseline") =>
       BaselineVersions \subseteq d.done /\ d.done \cap 2..11 \subseteq BaselineVersions
  /\ d.cols \in {"none", "legacy"} => d.done \cap 2..11 = {}

\* A journal holds what was executed, and every destructive migration that was.
Journalled(d) ==
  /\ d.journal \in SUBSET Versions
  /\ d.journal \subseteq d.done
  /\ d.done \cap 2..11 \subseteq d.journal

\* A committed database, whose history can be read from it.
Known(d) ==
  /\ d \in Catalog
  /\ d.twice \cap 2..11 = {}
  /\ d.journal # {}
  /\ IF d.journal = Nothing THEN History(d) ELSE Journalled(d)

\* What a transaction sees when it begins.
Opened(d) == [d EXCEPT !.journal = IF d.journal = Nothing THEN {} ELSE d.journal]

\* The states of a process with an open transaction.
Working == {"adopt", "migrate", "verify"}

\* A transaction works alone and on the committed database.
TxnInv(p) ==
  /\ proc[p] \in Working => lock = p
  /\ proc[p] = "adopt" => txn[p] = Opened(db)
  /\ proc[p] \in {"migrate", "verify"} =>
       /\ txn[p] \in Catalog /\ txn[p].twice \cap 2..11 = {} /\ Journalled(txn[p])
       /\ Verified(db) => txn[p] = db
  /\ proc[p] = "verify" => Versions \subseteq txn[p].journal

\* The inductive invariant of setup.
SetupInv ==
  /\ Known(db)
  /\ lock \in Procs \cup {Nothing}
  /\ proc \in [Procs -> Working \cup {"new", "ok", "failed"}]
  /\ DOMAIN txn = Procs
  /\ verdict \in [Checkers -> {"new", "ok", "refused"}]
  /\ txn = [p \in Procs |-> txn[p]]
  /\ \A p \in Procs : TxnInv(p)
  /\ \A p \in Procs : proc[p] = "ok" => Verified(db)
  /\ \A c \in Checkers : verdict[c] = "ok" => Verified(db)

-----------------------------------------------------------------------------

\* The databases that setup may meet.
LEMMA InstalledKnown ==
  ASSUME NEW S \in {{1}, BaselineVersions, 1..5} \cup {1..n : n \in 11..14}
  PROVE  /\ Installed(S) \in Catalog /\ History(Installed(S))
         /\ Installed(S).journal = Nothing /\ Installed(S).done = S /\ Installed(S).twice = {}
<1>1. S \in SUBSET Versions
  BY DEF Versions, BaselineVersions
<1>2. Installed(S) \in Catalog
  BY <1>1 DEF Installed, Catalog
<1>3. /\ Installed(S).journal = Nothing /\ Installed(S).done = S /\ Installed(S).twice = {}
      /\ Installed(S).cols = IF 1 \notin S THEN "none" ELSE IF 5 \notin S THEN "legacy"
                             ELSE IF 6 \notin S THEN "mixed" ELSE "full"
      /\ Installed(S).indexes = IF 11 \in S THEN "final" ELSE IF 9 \in S THEN "base" ELSE "none"
  BY DEF Installed
<1>4. CASE S = {1}
  <2>1. 1 \in S /\ 5 \notin S /\ 11 \notin S /\ 9 \notin S
    BY <1>4 DEF BaselineVersions
  <2>2. Installed(S).cols = "legacy" /\ Installed(S).indexes = "none"
    BY <1>3, <2>1
  <2>3. S \cap 2..11 = {}
    BY <1>4 DEF BaselineVersions
  <2> QED BY <1>2, <1>3, <2>2, <2>3 DEF History, Satisfies
<1>5. CASE S = BaselineVersions
  <2>1. 1 \in S /\ 5 \in S /\ 6 \in S /\ 11 \notin S /\ 9 \in S
    BY <1>5 DEF BaselineVersions
  <2>2. Installed(S).cols = "full" /\ Installed(S).indexes = "base"
    BY <1>3, <2>1
  <2>3. BaselineVersions \subseteq S /\ S \cap 2..11 \subseteq BaselineVersions
    BY <1>5 DEF BaselineVersions
  <2> QED BY <1>2, <1>3, <2>2, <2>3 DEF History, Satisfies
<1>6. CASE S = 1..5
  <2>1. 1 \in S /\ 5 \in S /\ 6 \notin S /\ 11 \notin S /\ 9 \notin S
    BY <1>6 DEF BaselineVersions
  <2>2. Installed(S).cols = "mixed" /\ Installed(S).indexes = "none"
    BY <1>3, <2>1
  <2>3. S \subseteq Nat
    BY <1>6 DEF BaselineVersions
  <2> QED BY <1>2, <1>3, <2>2, <2>3 DEF History, Satisfies
<1>7. ASSUME NEW n \in 11..14, S = 1..n
      PROVE  History(Installed(S))
  BY <1>3, <1>7 DEF History, Satisfies, FinalAdoptVersions, BaselineVersions
<1> QED BY <1>2, <1>3, <1>4, <1>5, <1>6, <1>7

\* History looks at columns, indexes and executed migrations only.
LEMMA HistoryOf ==
  ASSUME NEW d \in Catalog, History(d), NEW e \in Catalog,
         e.cols = d.cols, e.indexes = d.indexes, e.done = d.done
  PROVE  History(e)
BY DEF History, Satisfies

\* Every schema that setup may meet is known.
LEMMA DatabasesKnown ==
  ASSUME NEW d \in Databases
  PROVE  Known(d)
<1> DEFINE later == {Installed(1..n) : n \in 11..14}
           malformed == {[e EXCEPT !.owner = "malformed"] : e \in later}
                          \cup {[e EXCEPT !.shape = "malformed"] : e \in later}
<1>1. ASSUME NEW S \in {{1}, BaselineVersions, 1..5} \cup {1..n : n \in 11..14}
      PROVE  Known(Installed(S))
  <2>1. /\ Installed(S) \in Catalog /\ History(Installed(S))
        /\ Installed(S).journal = Nothing /\ Installed(S).twice = {}
    BY InstalledKnown
  <2>2. Nothing # {}
    BY SetupAssumption
  <2> QED BY <2>1, <2>2 DEF Known
<1>2. ASSUME NEW e \in later
      PROVE  /\ Known(e) /\ e.journal = Nothing /\ e.done # {} /\ e.done \in SUBSET Versions
  <2>1. PICK n \in 11..14 : e = Installed(1..n)
    BY <1>2
  <2>2. 1..n \in {1..m : m \in 11..14}
    OBVIOUS
  <2>3. e.done = 1..n /\ e.journal = Nothing /\ Known(e)
    BY <1>1, <2>1, <2>2, InstalledKnown
  <2> QED BY <2>3 DEF Versions
<1>3. ASSUME NEW e \in malformed
      PROVE  /\ Known(e) /\ e.journal = Nothing /\ e.done # {} /\ e.done \in SUBSET Versions
  <2>1. PICK f \in later : e = [f EXCEPT !.owner = "malformed"] \/ e = [f EXCEPT !.shape = "malformed"]
    BY <1>3
  <2>2. /\ Known(f) /\ f.journal = Nothing /\ f.done # {} /\ f.done \in SUBSET Versions
        /\ f \in Catalog /\ History(f)
    BY <1>2 DEF Known
  <2>3. /\ e \in Catalog /\ e.cols = f.cols /\ e.indexes = f.indexes /\ e.done = f.done
        /\ e.journal = f.journal /\ e.twice = f.twice
    BY <2>1, <2>2 DEF Catalog
  <2>4. History(e)
    BY <2>2, <2>3, HistoryOf
  <2> QED BY <2>2, <2>3, <2>4 DEF Known
<1>4. ASSUME NEW f \in later \cup malformed, d = [f EXCEPT !.journal = f.done]
      PROVE  Known(d)
  <2> HIDE DEF later, malformed
  <2>1. /\ Known(f) /\ f.done # {} /\ f.done \in SUBSET Versions /\ f \in Catalog
    BY <1>2, <1>3 DEF Known
  <2>2. /\ d \in Catalog /\ d.done = f.done /\ d.journal = f.done /\ d.twice = f.twice
    BY <1>4, <2>1 DEF Catalog
  <2>3. d.journal # Nothing
    BY <2>1, <2>2, SetupAssumption
  <2> QED BY <2>1, <2>2, <2>3 DEF Known, Journalled
<1>5. CASE d = Empty
  <2>1. d \in Catalog /\ d.cols = "none" /\ d.done = {} /\ d.twice = {} /\ d.journal = Nothing
    BY <1>5 DEF Empty, Catalog
  <2>2. Nothing # {}
    BY SetupAssumption
  <2> QED BY <2>1, <2>2 DEF Known, History, Satisfies
<1>6. CASE d = [Empty EXCEPT !.cols = "legacy"]
  <2>1. d \in Catalog /\ d.cols = "legacy" /\ d.done = {} /\ d.twice = {} /\ d.journal = Nothing
    BY <1>6 DEF Empty, Catalog
  <2>2. Nothing # {}
    BY SetupAssumption
  <2> QED BY <2>1, <2>2 DEF Known, History, Satisfies
<1>7. CASE d = [Installed(1..11) EXCEPT !.owner = "valid", !.shape = "valid"]
  <2> DEFINE f == Installed(1..11)
  <2>1. 1..11 \in {1..m : m \in 11..14}
    OBVIOUS
  <2>2. f \in Catalog /\ History(f) /\ f.journal = Nothing /\ f.twice = {}
    BY <2>1, InstalledKnown
  <2> HIDE DEF f
  <2>3. /\ d \in Catalog /\ d.cols = f.cols /\ d.indexes = f.indexes /\ d.done = f.done
        /\ d.journal = f.journal /\ d.twice = f.twice
    BY <1>7, <2>2 DEF Catalog, f
  <2>4. History(d) /\ Nothing # {}
    BY <2>2, <2>3, HistoryOf, SetupAssumption
  <2> QED BY <2>2, <2>3, <2>4 DEF Known
<1>8. \/ d \in {Empty, [Empty EXCEPT !.cols = "legacy"],
               [Installed(1..11) EXCEPT !.owner = "valid", !.shape = "valid"]}
      \/ d \in {Installed(S) : S \in {{1}, BaselineVersions, 1..5}} \cup later \cup malformed
      \/ \E f \in later \cup malformed : d = [f EXCEPT !.journal = f.done]
  BY DEF Databases
<1> HIDE DEF later, malformed
<1> QED BY <1>1, <1>2, <1>3, <1>4, <1>5, <1>6, <1>7, <1>8

LEMMA SetupInitial ==
  ASSUME SetupInit
  PROVE  SetupInv
<1>1. Known(db)
  BY DatabasesKnown DEF SetupInit
<1>2. \A p \in Procs : TxnInv(p) /\ proc[p] = "new"
  BY DEF SetupInit, TxnInv, Working
<1> QED BY <1>1, <1>2 DEF SetupInit, SetupInv

-----------------------------------------------------------------------------

\* One migration leaves a journal that still tells what was executed, and
\* repeats a destructive one only if the journal missed it.
LEMMA MigratedKnown ==
  ASSUME NEW d \in Catalog, Journalled(d), d.twice \cap 2..11 = {}, NEW v \in Versions \ d.journal
  PROVE  /\ Migrated(d, v) \in Catalog /\ Journalled(Migrated(d, v))
         /\ Migrated(d, v).twice \cap 2..11 = {}
<1> DEFINE e == Executed(d, v)
           m == Migrated(d, v)
<1>1. /\ e \in Catalog /\ e.done = d.done \cup {v} /\ e.journal = d.journal
      /\ e.twice = IF v \in d.done THEN d.twice \cup {v} ELSE d.twice
  BY DEF Executed, Catalog
<1> HIDE DEF e
<1>2. m = [e EXCEPT !.journal = d.journal \cup {v}]
  BY DEF Migrated, e
<1>3. d.journal \in SUBSET Versions /\ d.journal \cup {v} \in SUBSET Versions
  BY DEF Journalled
<1>4. m \in Catalog /\ m.done = e.done /\ m.twice = e.twice /\ m.journal = d.journal \cup {v}
  BY <1>1, <1>2, <1>3 DEF Catalog
<1> HIDE DEF m
<1>5. v \in d.done => v \notin 2..11
  BY DEF Journalled
<1>6. m.twice \cap 2..11 = {}
  BY <1>1, <1>4, <1>5
<1>7. Journalled(m)
  BY <1>1, <1>3, <1>4 DEF Journalled
<1> QED BY <1>4, <1>6, <1>7 DEF m

\* The first pending migration is one of them.
LEMMA PendingLeast ==
  ASSUME NEW P \in SUBSET Versions, P # {}
  PROVE  Min(P) \in P
<1>1. PICK m \in P : \A x \in P : m <= x
  <2>1. 1 \in Int /\ 14 \in Int
    OBVIOUS
  <2>2. IsFiniteSet(1..14)
    BY ONLY <2>1, FS_Interval
  <2>3. IsFiniteSet(Versions)
    BY <2>2 DEF Versions
  <2>4. IsFiniteSet(P)
    BY <2>3, FS_Subset
  <2>5. P \in SUBSET Nat
    BY DEF Versions
  <2> QED BY <2>4, <2>5, Least
<1> QED BY <1>1 DEF Min

\* The transaction of a process that opened a known database.
LEMMA OpenedKnown ==
  ASSUME Known(db)
  PROVE  /\ Opened(db) \in Catalog /\ Opened(db).journal \in SUBSET Versions
         /\ Opened(db).cols = db.cols /\ Opened(db).indexes = db.indexes
         /\ Opened(db).done = db.done /\ Opened(db).twice = db.twice
         /\ db.journal = Nothing => Opened(db).journal = {} /\ History(db)
         /\ db.journal # Nothing =>
              Opened(db) = db /\ Opened(db).journal = db.journal /\ Journalled(db)
<1> DEFINE j == IF db.journal = Nothing THEN {} ELSE db.journal
<1>1. db \in Catalog /\ j \in SUBSET Versions /\ Opened(db) = [db EXCEPT !.journal = j]
  BY DEF Known, Catalog, Opened
<1>2. db.journal # Nothing => j = db.journal /\ Journalled(db)
  BY DEF Known
<1>3. db.journal = Nothing => j = {} /\ History(db)
  BY DEF Known
<1> HIDE DEF j
<1> QED BY <1>1, <1>2, <1>3 DEF Catalog

\* A step of process p that leaves the database as it is.
LEMMA StepOf ==
  ASSUME SetupInv, NEW p \in Procs, UNCHANGED <<db, verdict>>,
         NEW s \in Working \cup {"new", "failed"}, proc' = [proc EXCEPT ![p] = s],
         NEW t, txn' = [txn EXCEPT ![p] = t],
         lock' \in {p, Nothing}, lock \in {p, Nothing}, TxnInv(p)'
  PROVE  SetupInv'
<1>1. /\ proc'[p] = s /\ \A q \in Procs : q # p => proc'[q] = proc[q] /\ txn'[q] = txn[q]
      /\ proc' \in [Procs -> Working \cup {"new", "ok", "failed"}]
      /\ DOMAIN txn' = Procs /\ txn' = [q \in Procs |-> txn'[q]]
  BY DEF SetupInv
<1>2. \A q \in Procs : q # p => proc[q] \notin Working
  BY SetupAssumption DEF SetupInv, TxnInv
<1>3. ASSUME NEW q \in Procs, q # p PROVE TxnInv(q)'
  BY <1>1, <1>2, <1>3 DEF TxnInv, Working
<1>4. Verified(db)' <=> Verified(db)
  BY DEF Verified, VerifyStructure, Satisfies
<1>5. \A q \in Procs : proc'[q] = "ok" => Verified(db)'
  BY <1>1, <1>4 DEF SetupInv, Working
<1>6. \A c \in Checkers : verdict'[c] = "ok" => Verified(db)'
  BY <1>4 DEF SetupInv
<1> QED BY <1>1, <1>3, <1>5, <1>6 DEF SetupInv

LEMMA BeginInv ==
  ASSUME SetupInv, NEW p \in Procs, Begin(p)
  PROVE  SetupInv'
<1>1. /\ lock = Nothing /\ lock' = p /\ proc' = [proc EXCEPT ![p] = "adopt"]
      /\ txn' = [txn EXCEPT ![p] = Opened(db)] /\ UNCHANGED <<db, verdict>>
  BY DEF Begin, AcquireLock, ProcTo, Opened
<1>2. proc'[p] = "adopt" /\ txn'[p] = Opened(db)
  BY <1>1 DEF SetupInv
<1>3. TxnInv(p)'
  BY <1>1, <1>2 DEF TxnInv, Opened
<1> QED BY <1>1, <1>3, StepOf DEF Working

LEMMA RolledBackInv ==
  ASSUME SetupInv, NEW p \in Procs, proc[p] \in Working, RolledBack(p)
  PROVE  SetupInv'
<1>1. /\ lock = p /\ lock' = Nothing /\ proc' = [proc EXCEPT ![p] = "failed"]
      /\ txn' = [txn EXCEPT ![p] = Nothing] /\ UNCHANGED <<db, verdict>>
  BY DEF RolledBack, ProcTo, SetupInv, TxnInv
<1>2. proc'[p] = "failed"
  BY <1>1 DEF SetupInv
<1>3. TxnInv(p)'
  BY <1>2 DEF TxnInv, Working
<1> QED BY <1>1, <1>3, StepOf

\* A process goes on to the migrations with what its transaction sees.
LEMMA ToMigrate ==
  ASSUME SetupInv, NEW p \in Procs, proc[p] \in Working,
         proc' = [proc EXCEPT ![p] = "migrate"], NEW t \in Catalog, txn' = [txn EXCEPT ![p] = t],
         UNCHANGED <<db, lock, verdict>>,
         Journalled(t), t.twice \cap 2..11 = {}, Verified(db) => t = db
  PROVE  SetupInv'
<1>1. lock = p /\ lock' = p
  BY DEF SetupInv, TxnInv
<1>2. proc'[p] = "migrate" /\ txn'[p] = t
  BY DEF SetupInv
<1>3. Verified(db)' <=> Verified(db)
  BY DEF Verified, VerifyStructure, Satisfies
<1>4. Journalled(txn[p])'
  BY <1>2 DEF Journalled
<1>5. TxnInv(p)'
  BY <1>1, <1>2, <1>3, <1>4 DEF TxnInv, Working
<1> QED BY <1>1, <1>5, StepOf DEF Working

LEMMA AdoptInv ==
  ASSUME SetupInv, NEW p \in Procs, AdoptOrCheckExisting(p)
  PROVE  SetupInv'
<1> DEFINE d == txn[p]
<1>1. /\ proc[p] = "adopt" /\ d = Opened(db) /\ Known(db) /\ lock = p
      /\ txn = [q \in Procs |-> txn[q]]
  BY DEF AdoptOrCheckExisting, SetupInv, TxnInv, Working
<1>2. /\ d \in Catalog /\ d.journal \in SUBSET Versions
      /\ d.cols = db.cols /\ d.indexes = db.indexes /\ d.done = db.done
      /\ d.twice = db.twice /\ d.twice \cap 2..11 = {}
      /\ db.journal = Nothing => d.journal = {} /\ History(db)
      /\ db.journal # Nothing => d = db /\ Journalled(db)
  BY <1>1, OpenedKnown DEF Known
<1>3. d.journal = {} => db.journal = Nothing
  BY <1>1, <1>2 DEF Known
<1>4. Verified(db) => d = db
  BY <1>2 DEF Verified
<1>5. txn = [txn EXCEPT ![p] = d]
  BY <1>1
<1>6. CASE (d.journal # {} \/ d.cols = "none") /\ ProcTo(p, "migrate") /\ UNCHANGED <<db, lock, txn, verdict>>
  <2>1. Journalled(d)
    <3>1. CASE db.journal # Nothing
      BY <1>2, <3>1
    <3>2. CASE db.journal = Nothing
      <4>1. d.journal = {} /\ d.cols = "none" /\ d.done \cap 2..11 = {}
        BY <1>2, <1>6, <3>2 DEF History
      <4> QED BY <1>2, <4>1 DEF Journalled
    <3> QED BY <3>1, <3>2
  <2> HIDE DEF d
  <2> QED BY <1>1, <1>2, <1>4, <1>5, <1>6, <2>1, ToMigrate DEF ProcTo, Working
<1>7. CASE /\ d.journal = {}
           /\ Satisfies(d, "Adoptable") \/ Satisfies(d, "ReleasedBaseline")
           /\ txn' = [txn EXCEPT ![p].journal = AdoptedVersions(d)]
           /\ ProcTo(p, "migrate") /\ UNCHANGED <<db, lock, verdict>>
  <2> DEFINE t == [d EXCEPT !.journal = AdoptedVersions(d)]
  <2>1. txn' = [txn EXCEPT ![p] = t]
    BY <1>7
  <2>2. AdoptedVersions(d) \in SUBSET Versions
    BY DEF AdoptedVersions, FinalAdoptVersions, BaselineVersions, Versions
  <2>3. /\ t \in Catalog /\ t.done = d.done /\ t.twice = d.twice
        /\ t.journal = AdoptedVersions(d)
    BY <1>2, <2>2 DEF Catalog
  <2>4. AdoptedVersions(d) \subseteq d.done /\ d.done \cap 2..11 \subseteq AdoptedVersions(d)
    <3>1. History(db)
      BY <1>2, <1>3, <1>7
    <3>2. CASE Satisfies(d, "Adoptable")
      <4>1. Satisfies(db, "Adoptable")
        BY <1>2, <3>2 DEF Satisfies
      <4>2. FinalAdoptVersions \subseteq d.done /\ AdoptedVersions(d) = FinalAdoptVersions
        BY <1>2, <3>1, <3>2, <4>1 DEF History, AdoptedVersions
      <4> QED BY <4>2 DEF FinalAdoptVersions
    <3>3. CASE ~Satisfies(d, "Adoptable")
      <4>1. Satisfies(db, "ReleasedBaseline")
        BY <1>2, <1>7, <3>3 DEF Satisfies
      <4>2. AdoptedVersions(d) = BaselineVersions
        BY <3>3 DEF AdoptedVersions
      <4> QED BY <1>2, <3>1, <4>1, <4>2 DEF History
    <3> QED BY <3>2, <3>3
  <2>5. Journalled(t)
    BY <2>2, <2>3, <2>4 DEF Journalled
  <2>6. ~Verified(db)
    BY <1>3, <1>7 DEF Verified
  <2> HIDE DEF t
  <2> QED BY <1>1, <1>2, <1>7, <2>1, <2>3, <2>5, <2>6, ToMigrate DEF ProcTo, Working
<1>8. CASE /\ d.journal = {} /\ RecognizedLegacy(d)
           /\ ProcTo(p, "migrate") /\ UNCHANGED <<db, lock, txn, verdict>>
  <2>1. d.cols = "legacy" /\ d.done \cap 2..11 = {}
    BY <1>2, <1>3, <1>8 DEF RecognizedLegacy, History
  <2>2. Journalled(d)
    BY <1>2, <1>8, <2>1 DEF Journalled
  <2> HIDE DEF d
  <2> QED BY <1>1, <1>2, <1>4, <1>5, <1>8, <2>2, ToMigrate DEF ProcTo, Working
<1>9. CASE RolledBack(p)
  BY <1>1, <1>9, RolledBackInv DEF Working
<1> QED BY <1>6, <1>7, <1>8, <1>9 DEF AdoptOrCheckExisting

LEMMA MigrateInv ==
  ASSUME SetupInv, NEW p \in Procs, RunPendingMigration(p)
  PROVE  SetupInv'
<1> DEFINE d == txn[p]
           pending == Versions \ d.journal
<1>1. /\ proc[p] = "migrate" /\ lock = p /\ UNCHANGED <<db, lock, verdict>>
      /\ d \in Catalog /\ d.twice \cap 2..11 = {} /\ Journalled(d)
      /\ Verified(db) => d = db
      /\ txn = [q \in Procs |-> txn[q]] /\ proc \in [Procs -> Working \cup {"new", "ok", "failed"}]
  BY DEF RunPendingMigration, SetupInv, TxnInv, Working
<1>2. CASE pending = {}
  <2>1. proc' = [proc EXCEPT ![p] = "verify"] /\ txn' = txn
    BY <1>2 DEF RunPendingMigration, ProcTo
  <2>2. proc'[p] = "verify" /\ txn'[p] = d /\ txn' = [txn EXCEPT ![p] = d]
    BY <1>1, <2>1
  <2>3. Verified(db)' <=> Verified(db)
    BY <1>1 DEF Verified, VerifyStructure, Satisfies
  <2>4. Journalled(txn[p])' /\ Versions \subseteq d.journal
    BY <1>1, <1>2, <2>2 DEF Journalled
  <2> HIDE DEF d, pending
  <2>5. TxnInv(p)'
    BY <1>1, <2>2, <2>3, <2>4 DEF TxnInv, Working
  <2> QED BY <1>1, <2>1, <2>2, <2>5, StepOf DEF Working
<1>3. CASE pending # {}
  <2> DEFINE v == Min(pending)
             t == Migrated(d, v)
  <2>1. proc' = proc /\ txn' = [txn EXCEPT ![p] = t]
    BY <1>3 DEF RunPendingMigration
  <2>2. v \in pending
    BY <1>3, PendingLeast
  <2>3. /\ t \in Catalog /\ Journalled(t) /\ t.twice \cap 2..11 = {}
    BY <1>1, <2>2, MigratedKnown
  <2>4. ~Verified(db)
    BY <1>1, <1>3 DEF Verified
  <2>5. proc' = [proc EXCEPT ![p] = "migrate"]
    BY <1>1, <2>1
  <2> HIDE DEF t, d
  <2> QED BY <1>1, <2>1, <2>3, <2>4, <2>5, ToMigrate DEF Working
<1> QED BY <1>2, <1>3

\* The verified transaction becomes the database, which verify_schema accepts.
LEMMA CommitInv ==
  ASSUME SetupInv, NEW p \in Procs, Commit(p)
  PROVE  /\ SetupInv'
         /\ db' # db => Verified(db)' /\ ~Verified(db)
<1> DEFINE d == txn[p]
<1>1. /\ proc[p] = "verify" /\ lock = p
      /\ d \in Catalog /\ d.twice \cap 2..11 = {} /\ Journalled(d)
      /\ Verified(db) => d = db
      /\ Versions \subseteq d.journal
      /\ txn = [q \in Procs |-> txn[q]] /\ proc \in [Procs -> Working \cup {"new", "ok", "failed"}]
  BY DEF Commit, SetupInv, TxnInv, Working
<1>2. CASE RolledBack(p)
  <2>1. db' = db
    BY <1>2 DEF RolledBack
  <2> QED BY <1>1, <1>2, <2>1, RolledBackInv DEF Working
<1>3. CASE /\ VerifyStructure(d) /\ db' = d /\ txn' = [txn EXCEPT ![p] = Nothing]
           /\ lock' = Nothing /\ proc' = [proc EXCEPT ![p] = "ok"] /\ verdict' = verdict
  <2>1. /\ proc'[p] = "ok" /\ \A q \in Procs : q # p => proc'[q] = proc[q] /\ txn'[q] = txn[q]
        /\ proc' \in [Procs -> Working \cup {"new", "ok", "failed"}]
        /\ DOMAIN txn' = Procs /\ txn' = [q \in Procs |-> txn'[q]]
    BY <1>1, <1>3 DEF Working
  <2>2. d.journal \in SUBSET Versions /\ d.journal # Nothing /\ d.journal # {}
    BY <1>1, SetupAssumption DEF Journalled, Versions
  <2>3. Verified(d) /\ Known(d)
    BY <1>1, <1>3, <2>2 DEF Verified, Known
  <2> HIDE DEF d
  <2>4. Verified(db)' /\ Known(db)'
    BY <1>3, <2>3 DEF Verified, VerifyStructure, Satisfies, Known, Journalled, History
  <2>5. \A q \in Procs : q # p => proc[q] \notin Working
    BY <1>1, SetupAssumption DEF SetupInv, TxnInv
  <2>6. ASSUME NEW q \in Procs PROVE TxnInv(q)'
    BY <2>1, <2>5 DEF TxnInv, Working
  <2>7. SetupInv'
    BY <1>3, <2>1, <2>4, <2>6 DEF SetupInv
  <2> QED BY <1>1, <1>3, <2>4, <2>7
<1> QED BY <1>1, <1>2, <1>3 DEF Commit, ProcTo

LEMMA VerifyInv ==
  ASSUME SetupInv, NEW c \in Checkers, VerifySchema(c)
  PROVE  SetupInv'
<1>1. /\ UNCHANGED <<db, lock, proc, txn>>
      /\ verdict' = [verdict EXCEPT ![c] = IF Verified(db) THEN "ok" ELSE "refused"]
  BY DEF VerifySchema
<1>2. Verified(db)' <=> Verified(db)
  BY <1>1 DEF Verified, VerifyStructure, Satisfies
<1>3. /\ verdict' \in [Checkers -> {"new", "ok", "refused"}]
      /\ \A k \in Checkers : verdict'[k] = "ok" => Verified(db)
  BY <1>1 DEF SetupInv
<1>4. \A q \in Procs : TxnInv(q)'
  BY <1>1, <1>2 DEF SetupInv, TxnInv, Opened, Journalled
<1>5. Known(db)'
  BY <1>1 DEF SetupInv, Known, Journalled, History, Satisfies
<1> QED BY <1>1, <1>2, <1>3, <1>4, <1>5 DEF SetupInv

LEMMA SetupStep ==
  ASSUME SetupInv, [SetupNext]_setupVars
  PROVE  /\ SetupInv'
         /\ db' # db => Verified(db)' /\ ~Verified(db)
<1>1. CASE UNCHANGED setupVars
  <2>1. \A q \in Procs : TxnInv(q)'
    BY <1>1 DEF SetupInv, TxnInv, Opened, Journalled, Verified, VerifyStructure, Satisfies, setupVars
  <2>2. Known(db)' /\ (Verified(db)' <=> Verified(db))
    BY <1>1 DEF SetupInv, Known, Journalled, History, Satisfies, Verified, VerifyStructure, setupVars
  <2> QED BY <1>1, <2>1, <2>2 DEF SetupInv, setupVars
<1>2. ASSUME NEW p \in Procs, Begin(p)
      PROVE  SetupInv' /\ db' = db
  BY <1>2, BeginInv DEF Begin
<1>3. ASSUME NEW p \in Procs, AdoptOrCheckExisting(p)
      PROVE  SetupInv' /\ db' = db
  BY <1>3, AdoptInv DEF AdoptOrCheckExisting, RolledBack
<1>4. ASSUME NEW p \in Procs, RunPendingMigration(p)
      PROVE  SetupInv' /\ db' = db
  BY <1>4, MigrateInv DEF RunPendingMigration
<1>5. ASSUME NEW p \in Procs, Fail(p)
      PROVE  SetupInv' /\ db' = db
  BY <1>5, RolledBackInv DEF Fail, RolledBack, Working
<1>6. ASSUME NEW c \in Checkers, VerifySchema(c)
      PROVE  SetupInv' /\ db' = db
  BY <1>6, VerifyInv DEF VerifySchema
<1> QED BY <1>1, <1>2, <1>3, <1>4, <1>5, <1>6, CommitInv DEF SetupNext, Setup

LEMMA SetupInvariant == SetupSpec => []SetupInv
<1>1. SetupInit => SetupInv
  BY SetupInitial
<1>2. SetupInv /\ [SetupNext]_setupVars => SetupInv'
  BY SetupStep
<1> QED BY <1>1, <1>2, PTL DEF SetupSpec

\* Whatever schema setup meets of those it may meet, whoever runs beside and
\* wherever a process fails: a setup that answered Ok executed every migration,
\* none of the destructive ones is executed twice, and verify_schema vouches
\* only for a database that had them all.
THEOREM SetupIsSound == SetupSpec => []SetupSound
<1>1. ASSUME SetupInv PROVE SetupSound
  <2>1. Verified(db) => Versions \subseteq db.done
    BY <1>1 DEF SetupInv, Known, Journalled, Verified
  <2> QED BY <1>1, <2>1 DEF SetupInv, SetupSound, SetupCompletes, NotReplayed, VerifySound, Known
<1> QED BY <1>1, SetupInvariant, PTL

\* setup commits everything or nothing: the committed database only ever
\* becomes one that verify_schema accepts, and is final then.
THEOREM SetupCommitsAllOrNothing == SetupSpec => AllOrNothing
<1>1. ASSUME SetupInv, [SetupNext]_setupVars
      PROVE  [db' # db => Verified(db') /\ ~Verified(db)]_setupVars
  <2>1. Verified(db)' <=> Verified(db')
    BY DEF Verified, VerifyStructure, Satisfies
  <2> QED BY <1>1, <2>1, SetupStep
<1> QED BY <1>1, SetupInvariant, PTL DEF SetupSpec, AllOrNothing

-----------------------------------------------------------------------------
\* The result column.

\* What one row keeps: what it may hold, an attempt left to an active claim,
\* a charge behind every end, and an Ok exactly under Done.
ResultRow(row) ==
  /\ row \in [status : Status, attempts : 0..MaxAttempts, last_result : StoredResult,
              foreign : BOOLEAN]
  /\ row.last_result \in ErrorText => TextBounded(row.last_result)
  /\ row.status \in {"Queued", "Running"} => row.attempts < MaxAttempts
  /\ row.status \in {"Done", "Killed"} => row.attempts > 0
  /\ row.last_result # Null => (row.status = "Done" <=> row.last_result.tag = "Ok")
  /\ row.attempts > 0 /\ ~row.foreign => row.last_result # Null

ResultInv ==
  /\ task \in [TaskIds -> [status : Status, attempts : 0..MaxAttempts,
                           last_result : StoredResult, foreign : BOOLEAN]]
  /\ ended \in [TaskIds -> StoredResult]
  /\ \A t \in TaskIds : ResultRow(task[t])
  /\ VerdictIsLast
  /\ StatusSound

-----------------------------------------------------------------------------
\* Stored values.

\* The greatest boundary that is not beyond the cap.
LEMMA FloorCharBoundary ==
  ASSUME NEW text \in Text
  PROVE  \E k \in 0..Len(text) :
           /\ Max({b \in Boundary(text) : b <= Cap}) = End(text, k)
           /\ End(text, k) <= Cap
           /\ \A i \in 0..Len(text) : End(text, i) <= Cap => End(text, i) <= End(text, k)
<1> DEFINE S == {b \in Boundary(text) : b <= Cap}
           T == {Cap - b : b \in S}
<1>1. text \in Seq(Nat \ {0}) /\ Len(text) \in Nat /\ Cap \in Nat
  BY ResultAssumption
<1>2. \A i \in 0..Len(text) : End(text, i) \in Nat
  BY <1>1 DEF End
<1>3. \A b \in S : b \in Nat /\ b <= Cap /\ \E i \in 0..Len(text) : b = End(text, i)
  BY <1>2 DEF Boundary
<1>4. 0 \in S
  BY <1>1 DEF Boundary, End
<1>5. T \in SUBSET Nat /\ T # {} /\ \A n \in T : n <= Cap
  BY <1>1, <1>3, <1>4
<1>6. IsFiniteSet(T)
  <2> HIDE DEF T
  <2> QED BY <1>1, <1>5, FS_BoundedSetOfNaturals
<1>7. PICK m \in T : \A n \in T : m <= n
  <2> HIDE DEF T
  <2> QED BY <1>5, <1>6, Least
<1>8. PICK g \in S : m = Cap - g
  BY <1>7
<1>9. \A b \in S : g >= b
  <2> TAKE b \in S
  <2>1. Cap - g <= Cap - b
    BY <1>7, <1>8
  <2> QED BY <2>1, <1>1, <1>3, <1>8
<1>10. Max(S) \in S /\ \A b \in S : Max(S) >= b
  <2> HIDE DEF S
  <2> QED BY <1>8, <1>9 DEF Max
<1>11. PICK k \in 0..Len(text) : Max(S) = End(text, k)
  BY <1>3, <1>10
<1>12. \A i \in 0..Len(text) : End(text, i) <= Cap => End(text, i) <= End(text, k)
  <2> TAKE i \in 0..Len(text)
  <2> HAVE End(text, i) <= Cap
  <2>1. End(text, i) \in S
    BY DEF Boundary
  <2>2. Max(S) >= End(text, i)
    BY <2>1, <1>10
  <2> QED BY <2>2, <1>2, <1>11
<1>13. End(text, k) <= Cap
  BY <1>3, <1>10, <1>11
<1> QED BY <1>11, <1>12, <1>13

\* truncate_error_payload never cuts within a character: it stores the text, or
\* as many of its characters as fit.
LEMMA PayloadStored ==
  ASSUME NEW text \in Text
  PROVE  /\ ErrorPayload(text) \in ErrorText
         /\ TextBounded(ErrorPayload(text))
<1>1. /\ text \in Seq(Nat \ {0}) /\ text \in Seq(Nat) /\ Len(text) \in Nat /\ Cap \in Nat
      /\ \A i, j \in DOMAIN text : i < j => text[i] < text[j]
  BY ResultAssumption
<1>2. CASE Width(text) <= Cap
  <2>1. ErrorPayload(text) = [tag |-> "Err", text |-> text, marked |-> FALSE]
    BY <1>2 DEF ErrorPayload
  <2> QED BY <1>1, <1>2, <2>1 DEF ErrorText, TextBounded
<1>3. CASE ~(Width(text) <= Cap)
  <2> DEFINE cut == Max({b \in Boundary(text) : b <= Cap})
             n == CHOOSE k \in 0..Len(text) : End(text, k) = cut
             v == ErrorPayload(text)
  <2>1. PICK k \in 0..Len(text) :
          /\ cut = End(text, k)
          /\ End(text, k) <= Cap
          /\ \A i \in 0..Len(text) : End(text, i) <= Cap => End(text, i) <= End(text, k)
    BY FloorCharBoundary
  <2> HIDE DEF cut
  <2>2. cut \in Boundary(text)
    BY <2>1 DEF Boundary
  <2>3. v = [tag |-> "Err", marked |-> TRUE, text |-> SubSeq(text, 1, n)]
    BY <1>3, <2>2 DEF ErrorPayload, Truncated, cut
  <2>4. n \in 0..Len(text) /\ End(text, n) = cut
    BY <2>1
  <2> HIDE DEF n, v
  <2>5. /\ SubSeq(text, 1, n) \in Seq(Nat) /\ Len(SubSeq(text, 1, n)) = n
        /\ \A i \in 1..n : SubSeq(text, 1, n)[i] = text[i]
    BY <1>1, <2>4
  <2>6. v.text = SubSeq(text, 1, n) /\ v.marked = TRUE /\ v \in ErrorText
    BY <2>3, <2>5 DEF ErrorText
  <2>7. Width(v.text) = End(text, n)
    BY <2>4, <2>5, <2>6 DEF Width, End
  <2>8. n < Len(text)
    <3>1. n # Len(text)
      BY <1>3, <2>1, <2>4 DEF Width
    <3> QED BY <3>1, <2>4, <1>1
  <2>9. End(text, n) < End(text, n + 1)
    <3>1. n + 1 \in DOMAIN text /\ n + 1 # 0 /\ text[n + 1] \in Nat \ {0}
      BY <1>1, <2>4, <2>8
    <3>2. CASE n = 0
      BY <3>1, <3>2 DEF End
    <3>3. CASE n # 0
      <4>1. n \in DOMAIN text /\ n < n + 1
        BY <1>1, <2>4, <2>8, <3>3
      <4>2. text[n] < text[n + 1]
        BY <1>1, <3>1, <4>1
      <4> QED BY <3>1, <3>3, <4>2 DEF End
    <3> QED BY <3>2, <3>3
  <2>10. End(text, n + 1) > Cap
    <3>1. n + 1 \in 0..Len(text) /\ End(text, n + 1) \in Nat /\ End(text, n) \in Nat
      BY <1>1, <2>4, <2>8 DEF End
    <3>2. ~(End(text, n + 1) <= End(text, n))
      BY <2>9, <3>1
    <3>3. ~(End(text, n + 1) <= Cap)
      BY <2>1, <2>4, <3>1, <3>2
    <3> QED BY <3>1, <3>3, <1>1
  <2>11. Width(text) > Cap
    <3>1. Width(text) \in Nat
      BY <1>1 DEF Width, End
    <3> QED BY <3>1, <1>1, <1>3
  <2>12. Width(v.text) <= Cap
    BY <2>1, <2>4, <2>7
  <2>13. SubSeq(text, 1, Len(v.text)) = v.text /\ End(text, Len(v.text) + 1) > Cap
    BY <2>5, <2>6, <2>10
  <2>14. TextBounded(v)
    BY <2>6, <2>11, <2>12, <2>13 DEF TextBounded
  <2> QED BY <2>6, <2>14 DEF v
<1> QED BY <1>2, <1>3

\* The values the writers store are not null and carry their tag.
LEMMA StoredValues ==
  /\ \A text \in Text : /\ ErrorPayload(text) \in StoredResult
                        /\ ErrorPayload(text) # Null
                        /\ ErrorPayload(text).tag = "Err"
                        /\ TextBounded(ErrorPayload(text))
  /\ \A reason \in Reason : /\ RecoveryResult(reason) \in StoredResult \ ErrorText
                            /\ RecoveryResult(reason) # Null
                            /\ RecoveryResult(reason).tag = "Err"
  /\ \A res \in Outcome : /\ AckResponse(res) \in StoredResult
                          /\ AckResponse(res) # Null
                          /\ AckResponse(res).tag = "Ok" <=> res.tag = "Ok"
                          /\ AckResponse(res) \in ErrorText => TextBounded(AckResponse(res))
  /\ Null \in StoredResult \ ErrorText
<1>1. \A text \in Text : /\ ErrorPayload(text) \in StoredResult
                         /\ ErrorPayload(text) # Null
                         /\ ErrorPayload(text).tag = "Err"
                         /\ TextBounded(ErrorPayload(text))
  <2> TAKE text \in Text
  <2>1. ErrorPayload(text) \in ErrorText /\ TextBounded(ErrorPayload(text))
    BY PayloadStored
  <2>2. ErrorPayload(text) # Null /\ ErrorPayload(text) \in StoredResult
    BY <2>1, ResultAssumption DEF StoredResult
  <2>3. ErrorPayload(text).tag = "Err"
    BY <2>1 DEF ErrorText
  <2> QED BY <2>1, <2>2, <2>3
<1>2. \A reason \in Reason : /\ RecoveryResult(reason) \in StoredResult \ ErrorText
                             /\ RecoveryResult(reason) # Null
                             /\ RecoveryResult(reason).tag = "Err"
  <2> TAKE reason \in Reason
  <2>1. RecoveryResult(reason) \in [tag : {"Err"}, reason : Reason]
    BY DEF RecoveryResult
  <2>2. RecoveryResult(reason) # Null /\ RecoveryResult(reason) \in StoredResult
    BY <2>1, ResultAssumption DEF StoredResult
  <2>3. RecoveryResult(reason) \notin ErrorText
    BY DEF RecoveryResult, ErrorText
  <2>4. RecoveryResult(reason).tag = "Err"
    BY DEF RecoveryResult
  <2> QED BY <2>2, <2>3, <2>4
<1>3. \A res \in Outcome : /\ AckResponse(res) \in StoredResult
                           /\ AckResponse(res) # Null
                           /\ AckResponse(res).tag = "Ok" <=> res.tag = "Ok"
                           /\ AckResponse(res) \in ErrorText => TextBounded(AckResponse(res))
  <2> TAKE res \in Outcome
  <2>1. CASE res.tag = "Ok"
    <3>1. AckResponse(res) = [tag |-> "Ok"]
      BY <2>1 DEF AckResponse
    <3>2. AckResponse(res) \in StoredResult /\ AckResponse(res) # Null
      BY <3>1, ResultAssumption DEF StoredResult
    <3>3. AckResponse(res).tag = "Ok" /\ AckResponse(res) \notin ErrorText
      BY <3>1 DEF ErrorText
    <3> QED BY <2>1, <3>2, <3>3
  <2>2. CASE res.tag # "Ok"
    <3>1. res.text \in Text
      BY <2>2 DEF Outcome
    <3>2. AckResponse(res) = ErrorPayload(res.text)
      BY <2>2 DEF AckResponse
    <3>3. AckResponse(res).tag = "Err"
      BY <1>1, <3>1, <3>2
    <3> QED BY <1>1, <2>2, <3>1, <3>2, <3>3
  <2> QED BY <2>1, <2>2
<1>4. Null \in StoredResult \ ErrorText
  BY ResultAssumption DEF StoredResult
<1> QED BY <1>1, <1>2, <1>3, <1>4

-----------------------------------------------------------------------------
\* Steps.

\* A write of a row that is well formed, and whose result is its ending if it is
\* terminal.
LEMMA RowWritten ==
  ASSUME ResultInv, NEW t \in TaskIds, NEW row, NEW end \in StoredResult,
         ResultRow(row), TerminalRow(row) => row.last_result = end,
         WriteRow(t, row, end)
  PROVE  ResultInv'
<1>1. /\ task' = [task EXCEPT ![t] = row]
      /\ ended' = [ended EXCEPT ![t] = IF TerminalRow(row) THEN end ELSE Null]
      /\ checked' = [answer |-> "none"]
  BY DEF WriteRow
<1>2. /\ task \in [TaskIds -> [status : Status, attempts : 0..MaxAttempts,
                               last_result : StoredResult, foreign : BOOLEAN]]
      /\ ended \in [TaskIds -> StoredResult]
      /\ \A u \in TaskIds : ResultRow(task[u])
      /\ \A u \in TaskIds : TerminalRow(task[u]) => task[u].last_result = ended[u]
  BY DEF ResultInv, VerdictIsLast
<1>3. row \in [status : Status, attempts : 0..MaxAttempts, last_result : StoredResult,
               foreign : BOOLEAN]
  BY DEF ResultRow
<1>4. (IF TerminalRow(row) THEN end ELSE Null) \in StoredResult
  BY StoredValues
<1>5. \A u \in TaskIds : task'[u] = IF u = t THEN row ELSE task[u]
  BY <1>1, <1>2
<1>6. \A u \in TaskIds : u # t => ended'[u] = ended[u]
  BY <1>1, <1>2
<1>7. TerminalRow(row) => ended'[t] = end
  BY <1>1, <1>2
<1>8. /\ task' \in [TaskIds -> [status : Status, attempts : 0..MaxAttempts,
                                last_result : StoredResult, foreign : BOOLEAN]]
      /\ ended' \in [TaskIds -> StoredResult]
  BY <1>1, <1>2, <1>3, <1>4
<1>9. \A u \in TaskIds : ResultRow(task'[u])
  BY <1>2, <1>5
<1>10. \A u \in TaskIds : TerminalRow(task'[u]) => task'[u].last_result = ended'[u]
  BY <1>2, <1>5, <1>6, <1>7
<1>11. StatusSound'
  BY <1>1 DEF StatusSound
<1>12. (\A u \in TaskIds : ResultRow(task[u]))'
  BY <1>9 DEF ResultRow
<1>13. VerdictIsLast'
  BY <1>10 DEF VerdictIsLast, TerminalRow
<1> QED BY <1>8, <1>11, <1>12, <1>13 DEF ResultInv

\* What a writer makes of a row: fields the row does not get are kept.
LEMMA RowFields ==
  ASSUME NEW row \in [status : Status, attempts : 0..MaxAttempts, last_result : StoredResult,
                      foreign : BOOLEAN],
         NEW s \in Status, NEW a \in 0..MaxAttempts, NEW v \in StoredResult
  PROVE  LET new == [row EXCEPT !.status = s, !.attempts = a, !.last_result = v]
         IN /\ new \in [status : Status, attempts : 0..MaxAttempts,
                        last_result : StoredResult, foreign : BOOLEAN]
            /\ new.status = s /\ new.attempts = a /\ new.last_result = v
            /\ new.foreign = row.foreign
OBVIOUS

LEMMA RowsAre ==
  ASSUME ResultInv, NEW t \in TaskIds
  PROVE  /\ ResultRow(task[t])
         /\ task[t] \in [status : Status, attempts : 0..MaxAttempts,
                         last_result : StoredResult, foreign : BOOLEAN]
         /\ task[t].attempts \in 0..MaxAttempts /\ MaxAttempts \in Nat \ {0}
         /\ task[t].last_result \in StoredResult
BY ResultAssumption DEF ResultInv, ResultRow

\* Claiming and starting change the status only.
LEMMA ClaimStep ==
  ASSUME ResultInv, NEW t \in TaskIds, Claim(t) \/ Start(t)
  PROVE  ResultInv'
<1> DEFINE s == IF Claim(t) THEN "Queued" ELSE "Running"
           new == [task[t] EXCEPT !.status = s]
<1>1. /\ task[t].status \notin {"Done", "Killed"}
      /\ s \in {"Queued", "Running"}
      /\ WriteRow(t, new, Null)
  BY DEF Claim, Start
<1>2. task[t].attempts < MaxAttempts
  BY RowsAre DEF Claim, Start, ResultRow
<1> HIDE DEF s
<1>3. /\ new \in [status : Status, attempts : 0..MaxAttempts, last_result : StoredResult,
                  foreign : BOOLEAN]
      /\ new.status = s /\ new.attempts = task[t].attempts
      /\ new.last_result = task[t].last_result /\ new.foreign = task[t].foreign
  BY <1>1, RowsAre DEF Status
<1> HIDE DEF new
<1>4. ResultRow(new)
  BY <1>1, <1>2, <1>3, RowsAre DEF ResultRow
<1>5. ~TerminalRow(new)
  BY <1>1, <1>3 DEF TerminalRow
<1> QED BY <1>1, <1>4, <1>5, StoredValues, RowWritten

\* An end in every way this crate has: the row gets a result that is not null.
LEMMA EndingStep ==
  ASSUME ResultInv, NEW t \in TaskIds, NEW s \in Status, NEW a \in 0..MaxAttempts,
         NEW v \in StoredResult, NEW end \in StoredResult,
         v # Null, v \in ErrorText => TextBounded(v),
         s = "Done" <=> v.tag = "Ok",
         s \notin {"Queued", "Running"}, a > 0,
         (s \in {"Done", "Killed"} \/ a >= MaxAttempts) => v = end,
         WriteRow(t, [task[t] EXCEPT !.status = s, !.attempts = a, !.last_result = v], end)
  PROVE  ResultInv'
<1> DEFINE new == [task[t] EXCEPT !.status = s, !.attempts = a, !.last_result = v]
<1>1. /\ new \in [status : Status, attempts : 0..MaxAttempts, last_result : StoredResult,
                  foreign : BOOLEAN]
      /\ new.status = s /\ new.attempts = a /\ new.last_result = v
  <2>1. task[t] \in [status : Status, attempts : 0..MaxAttempts, last_result : StoredResult,
                     foreign : BOOLEAN]
    BY RowsAre
  <2>2. s \in Status /\ a \in 0..MaxAttempts /\ v \in StoredResult
    OBVIOUS
  <2> QED BY ONLY <2>1, <2>2, RowFields
<1>2. WriteRow(t, new, end)
  OBVIOUS
<1> HIDE DEF new
<1>3. ResultRow(new)
  BY <1>1 DEF ResultRow
<1>4. TerminalRow(new) => new.last_result = end
  BY <1>1 DEF TerminalRow
<1> QED BY <1>2, <1>3, <1>4, RowWritten

LEMMA AckStep ==
  ASSUME ResultInv, NEW t \in TaskIds, NEW res \in Outcome, Ack(t, res)
  PROVE  ResultInv'
<1> DEFINE a == task[t].attempts + 1
           s == IF res.tag = "Ok" THEN "Done"
                ELSE IF MaxAttempts > a THEN "Failed" ELSE "Killed"
           v == AckResponse(res)
<1>1. task[t].status = "Running" /\ task[t].attempts < MaxAttempts
  BY RowsAre DEF Ack, ResultRow
<1>2. a \in 0..MaxAttempts /\ a > 0
  BY <1>1, RowsAre
<1>3. WriteRow(t, [task[t] EXCEPT !.status = s, !.attempts = a, !.last_result = v], v)
  BY DEF Ack
<1>4. s \in Status /\ s \notin {"Queued", "Running"} /\ (s = "Done" <=> res.tag = "Ok")
  BY DEF Status
<1>5. /\ v \in StoredResult /\ v # Null /\ (v.tag = "Ok" <=> res.tag = "Ok")
      /\ v \in ErrorText => TextBounded(v)
  BY StoredValues
<1> HIDE DEF a, s, v
<1> QED BY <1>2, <1>3, <1>4, <1>5, EndingStep

LEMMA UndecodableStep ==
  ASSUME ResultInv, NEW t \in TaskIds, NEW text \in Text,
         FailUndecodable(t, text) \/ Quarantine(t, text)
  PROVE  ResultInv'
<1> DEFINE a == Charged(task[t])
           s == IF Quarantine(t, text) \/ task[t].attempts + 1 >= MaxAttempts
                THEN "Killed" ELSE "Failed"
           v == ErrorPayload(text)
<1>1. a \in 0..MaxAttempts /\ a > 0
  BY RowsAre DEF Charged
<1>2. WriteRow(t, [task[t] EXCEPT !.status = s, !.attempts = a, !.last_result = v], v)
  <2>1. CASE Quarantine(t, text)
    BY <2>1 DEF Quarantine
  <2>2. CASE ~Quarantine(t, text)
    BY <2>2 DEF FailUndecodable
  <2> QED BY <2>1, <2>2
<1>3. s \in Status /\ s \notin {"Queued", "Running"} /\ s # "Done"
  BY DEF Status
<1>4. v \in StoredResult /\ v # Null /\ v.tag = "Err" /\ TextBounded(v)
  BY StoredValues
<1> HIDE DEF a, s, v
<1> QED BY <1>1, <1>2, <1>3, <1>4, EndingStep

\* A recovery: a dead row gets the reason; a charged one keeps an earlier
\* result, which its own attempts explain.
LEMMA RecoverStep ==
  ASSUME ResultInv, NEW t \in TaskIds, NEW reason \in Reason, Recover(t, reason)
  PROVE  ResultInv'
<1> DEFINE charged == task[t].status = "Running" \/ reason # "released"
           a == IF charged THEN Charged(task[t]) ELSE task[t].attempts
           dead == a >= MaxAttempts
           r == RecoveryResult(reason)
           v == IF dead \/ (charged /\ task[t].last_result = Null) THEN r
                ELSE task[t].last_result
           s == IF dead THEN "Killed" ELSE "Pending"
           new == [task[t] EXCEPT !.status = s, !.attempts = a, !.last_result = v]
<1>1. task[t].status \in {"Queued", "Running"} /\ WriteRow(t, new, r)
  BY DEF Recover
<1>2. /\ ResultRow(task[t]) /\ task[t].attempts \in 0..MaxAttempts /\ MaxAttempts \in Nat \ {0}
      /\ task[t].last_result \in StoredResult
      /\ task[t] \in [status : Status, attempts : 0..MaxAttempts,
                      last_result : StoredResult, foreign : BOOLEAN]
  BY RowsAre
<1>3. a \in 0..MaxAttempts /\ (~charged => a = task[t].attempts)
  BY <1>2 DEF Charged
<1>4. r \in StoredResult /\ r \notin ErrorText /\ r # Null /\ r.tag = "Err"
  BY StoredValues
<1>5. s \in Status /\ (s = "Killed" <=> dead) /\ (s = "Pending" <=> ~dead)
  BY DEF Status
<1>6. /\ dead => v = r
      /\ v = r \/ v = task[t].last_result
      /\ charged => v # Null
      /\ v \in StoredResult
  BY <1>2, <1>4
<1>7. ~charged /\ ~task[t].foreign /\ task[t].attempts > 0 => v # Null
  BY <1>2, <1>4, <1>6 DEF ResultRow
<1>8. task[t].last_result # Null => task[t].last_result.tag # "Ok"
  BY <1>1, <1>2 DEF ResultRow
<1>9. task[t].last_result \in ErrorText => TextBounded(task[t].last_result)
  BY <1>2 DEF ResultRow
<1>10. dead => a > 0
  BY <1>2, <1>3
<1> HIDE DEF charged, a, r, v, s
<1>11. /\ new \in [status : Status, attempts : 0..MaxAttempts, last_result : StoredResult,
                   foreign : BOOLEAN]
       /\ new.status = s /\ new.attempts = a /\ new.last_result = v
       /\ new.foreign = task[t].foreign
  BY <1>2, <1>3, <1>5, <1>6, RowFields
<1> HIDE DEF new
<1>12. v # Null => v.tag # "Ok"
  BY <1>4, <1>6, <1>8
<1>13. v \in ErrorText => TextBounded(v)
  BY <1>4, <1>6, <1>9
<1>14. a > 0 /\ ~new.foreign => v # Null
  BY <1>3, <1>6, <1>7, <1>11
<1>15. ResultRow(new)
  BY <1>5, <1>10, <1>11, <1>12, <1>13, <1>14 DEF ResultRow
<1>16. TerminalRow(new) => new.last_result = r
  BY <1>5, <1>6, <1>11 DEF TerminalRow
<1> QED BY <1>1, <1>4, <1>15, <1>16, RowWritten

LEMMA ForeignStep ==
  ASSUME ResultInv, NEW t \in TaskIds, NEW s \in {"Failed", "Killed", "Done"},
         ForeignEnd(t, s)
  PROVE  ResultInv'
<1> DEFINE new == [task[t] EXCEPT !.status = s, !.attempts = MaxAttempts, !.last_result = Null]
<1>1. task[t].foreign /\ WriteRow(t, new, Null)
  BY DEF ForeignEnd
<1>2. MaxAttempts \in 0..MaxAttempts /\ MaxAttempts > 0
  BY RowsAre
<1>3. /\ new \in [status : Status, attempts : 0..MaxAttempts, last_result : StoredResult,
                  foreign : BOOLEAN]
      /\ new.status = s /\ new.attempts = MaxAttempts /\ new.last_result = Null
      /\ new.foreign = task[t].foreign
  <2>1. s \in Status
    BY DEF Status
  <2> QED BY <1>2, <2>1, RowsAre, RowFields, StoredValues
<1> HIDE DEF new
<1>4. ResultRow(new)
  BY <1>1, <1>2, <1>3, StoredValues DEF ResultRow
<1>5. TerminalRow(new) => new.last_result = Null
  BY <1>3
<1> QED BY <1>1, <1>4, <1>5, StoredValues, RowWritten

\* check_status reads finished rows; one without a result is a foreign one.
LEMMA CheckStep ==
  ASSUME ResultInv, NEW ids \in SUBSET TaskIds, CheckStatus(ids)
  PROVE  ResultInv'
<1> DEFINE rows == CompletedTaskRows(ids)
           bad == {t \in rows : task[t].last_result = Null}
<1>1. task' = task /\ ended' = ended
  BY DEF CheckStatus
<1>2. \A t \in rows : t \in ids /\ t \in TaskIds /\ TerminalRow(task[t])
  BY DEF CompletedTaskRows
<1>3. \A t \in rows : task[t].attempts > 0
  <2> TAKE t \in rows
  <2> QED BY <1>2, RowsAre DEF ResultRow, TerminalRow
<1>4. StatusSound'
  <2>1. CASE bad # {}
    <3>1. checked' = [answer |-> "MissingField", ids |-> ids]
      BY <2>1 DEF CheckStatus
    <3>2. PICK t \in rows : task[t].last_result = Null
      BY <2>1
    <3>3. t \in ids /\ task[t].foreign
      BY <1>2, <1>3, <3>2, RowsAre DEF ResultRow
    <3> QED BY <1>1, <3>1, <3>3 DEF StatusSound
  <2>2. CASE bad = {}
    <3> DEFINE res == [t \in rows |-> TaskResultFromRow(t)]
    <3>1. checked' = [answer |-> "ok", ids |-> ids, results |-> res]
      BY <2>2 DEF CheckStatus
    <3>2. \A t \in rows : task[t].last_result # Null
      BY <2>2
    <3> HIDE DEF rows
    <3>3. DOMAIN res = rows /\ \A t \in rows : res[t] = [status |-> task[t].status,
                                                         result |-> task[t].last_result]
      BY DEF TaskResultFromRow
    <3> HIDE DEF res
    <3>4. \A t \in rows : res[t].status = "Done" <=> res[t].result.tag = "Ok"
      <4> TAKE t \in rows
      <4>1. res[t].status = task[t].status /\ res[t].result = task[t].last_result
        BY <3>3
      <4> QED BY <1>2, <3>2, <4>1, RowsAre DEF ResultRow
    <3>5. /\ checked'.answer = "ok" /\ checked'.results = res
      BY <3>1
    <3>6. \A t \in DOMAIN checked'.results :
            /\ checked'.results[t].status = "Done" <=> checked'.results[t].result.tag = "Ok"
            /\ TerminalRow(task'[t])
      BY <1>1, <1>2, <3>3, <3>4, <3>5
    <3> QED BY <3>5, <3>6 DEF StatusSound, TerminalRow
  <2> QED BY <2>1, <2>2
<1>5. VerdictIsLast'
  BY <1>1 DEF ResultInv, VerdictIsLast, TerminalRow
<1> QED BY <1>1, <1>4, <1>5 DEF ResultInv, ResultRow

THEOREM ResultSafe == ResultSpec => []ResultInv
<1>1. ResultInit => ResultInv
  <2> SUFFICES ASSUME ResultInit PROVE ResultInv
    OBVIOUS
  <2>1. MaxAttempts \in Nat \ {0} /\ 0 \in 0..MaxAttempts
    BY ResultAssumption
  <2>2. task \in [TaskIds -> [status : {"Pending"}, attempts : {0}, last_result : {Null},
                              foreign : BOOLEAN]]
    BY DEF ResultInit
  <2>3. Null \in StoredResult /\ Null \notin ErrorText
    BY StoredValues
  <2>4. task \in [TaskIds -> [status : Status, attempts : 0..MaxAttempts,
                              last_result : StoredResult, foreign : BOOLEAN]]
    BY <2>1, <2>2, <2>3 DEF Status
  <2>5. \A t \in TaskIds : ResultRow(task[t])
    BY <2>1, <2>2, <2>3, <2>4 DEF ResultRow
  <2>6. \A t \in TaskIds : ~TerminalRow(task[t])
    BY <2>2 DEF TerminalRow
  <2>7. VerdictIsLast
    BY <2>6 DEF VerdictIsLast
  <2>8. StatusSound
    BY DEF StatusSound, ResultInit
  <2>9. ended \in [TaskIds -> StoredResult]
    BY <2>3 DEF ResultInit
  <2> QED BY <2>4, <2>5, <2>7, <2>8, <2>9 DEF ResultInv
<1>2. ResultInv /\ [ResultNext]_resultVars => ResultInv'
  <2> SUFFICES ASSUME ResultInv, [ResultNext]_resultVars PROVE ResultInv'
    OBVIOUS
  <2>1. ASSUME NEW t \in TaskIds, Claim(t) \/ Start(t) PROVE ResultInv'
    BY <2>1, ClaimStep
  <2>2. ASSUME NEW t \in TaskIds, NEW res \in Outcome, Ack(t, res) PROVE ResultInv'
    BY <2>2, AckStep
  <2>3. ASSUME NEW t \in TaskIds, NEW reason \in Reason, Recover(t, reason) PROVE ResultInv'
    BY <2>3, RecoverStep
  <2>4. ASSUME NEW t \in TaskIds, NEW text \in Text,
               FailUndecodable(t, text) \/ Quarantine(t, text)
        PROVE  ResultInv'
    BY <2>4, UndecodableStep
  <2>5. ASSUME NEW t \in TaskIds, NEW s \in {"Failed", "Killed", "Done"}, ForeignEnd(t, s)
        PROVE  ResultInv'
    BY <2>5, ForeignStep
  <2>6. ASSUME NEW ids \in SUBSET TaskIds, CheckStatus(ids) PROVE ResultInv'
    BY <2>6, CheckStep
  <2>7. CASE UNCHANGED resultVars
    BY <2>7 DEF resultVars, ResultInv, ResultRow, VerdictIsLast, StatusSound, TerminalRow
  <2> QED BY <2>1, <2>2, <2>3, <2>4, <2>5, <2>6, <2>7 DEF ResultNext
<1> QED BY <1>1, <1>2, PTL DEF ResultSpec

\* Whatever the texts, the cap and the budget: error texts are stored whole or
\* cut between characters with nothing lost that fits (truncate_error_payload),
\* a finished task's last_result is the event that finished it, every charged
\* attempt is explained (recover_owned), and check_status answers Ok exactly for
\* a Done task and fails only for a row another program ended.
THEOREM ResultsAreSound == ResultSpec => []ResultsSound
<1>1. ResultInv => ResultsSound
  BY DEF ResultInv, ResultRow, ResultsSound, PayloadBounded, ChargedIsExplained
<1> QED BY <1>1, ResultSafe, PTL

-----------------------------------------------------------------------------
\* TaskListing.

\* How many rows of M are before row i.
Ahead(M, i) == Cardinality({j \in M : Listing!Before(j, i)})

Distinct(s) == \A p, q \in DOMAIN s : p # q => s[p] # s[q]

Present(i) == jobs[i] \in Listing!Row

Listed == Listing!Matching(walk.scope, walk.status)

Offset == (walk.page - 1) * walk.size

WalkType ==
  [state : {"walking", "over"}, scope : Queue \union {All}, status : {"Pending", "Done"},
   size : Nat \ {0}, page : Nat \ {0}, got : Seq(Id), start : SUBSET Id,
   moved : BOOLEAN, left : BOOLEAN]

\* A row of the start that was not shown lies behind the pages read so far; as
\* long as nothing moved, every row shown lies on them.
WalkInv ==
  /\ walk \in WalkType \union {Listing!Idle}
  /\ walk.state = "walking" =>
       /\ ~walk.left => \A i \in walk.start :
                          /\ i \in Listed
                          /\ i \in Listing!Range(walk.got) \/ Ahead(Listed, i) >= Offset
       /\ ~walk.moved => /\ Distinct(walk.got)
                         /\ \A i \in Listing!Range(walk.got) : i \in Listed /\ Ahead(Listed, i) < Offset

ListingInv ==
  /\ Listing!TypeOK /\ WalkInv
  /\ Listing!WalkExact /\ Listing!PageInRange /\ Listing!FailureForCause

-----------------------------------------------------------------------------
\* The order of a listing.

\* The listing's order is total on the rows there are: its id breaks ties.
LEMMA BeforeTotal ==
  ASSUME Listing!ListingAssumption, NEW i \in Id, NEW j \in Id, Present(i), Present(j)
  PROVE  ~Listing!Before(i, i) /\ (i # j => Listing!Before(i, j) \/ Listing!Before(j, i))
<1> DEFINE a == jobs[i]
           b == jobs[j]
<1>1. /\ i \in Nat /\ j \in Nat /\ a.run_at \in Nat /\ b.run_at \in Nat
      /\ a.done_at \in Nat \union {Null} /\ b.done_at \in Nat \union {Null} /\ Null \notin Nat
  BY DEF Listing!ListingAssumption, Present, Listing!Row
<1>2. \/ Listing!Earlier(a.done_at, b.done_at) \/ Listing!Earlier(b.done_at, a.done_at)
      \/ a.done_at = b.done_at
  BY <1>1 DEF Listing!Earlier
<1>3. ~Listing!Earlier(a.done_at, a.done_at)
  BY <1>1 DEF Listing!Earlier
<1>4. ~Listing!Before(i, i)
  BY <1>1, <1>3 DEF Listing!Before
<1>5. ASSUME i # j PROVE Listing!Before(i, j) \/ Listing!Before(j, i)
  BY <1>1, <1>2, <1>5 DEF Listing!Before
<1> QED BY <1>4, <1>5

\* The listing counts as the library's theorems do.
LEMMA SameCount ==
  ASSUME NEW S
  PROVE  Listing!Cardinality(S) = Cardinality(S) /\ Listing!IsFiniteSet(S) = IsFiniteSet(S)
<1>1. Listing!Cardinality(S) = Cardinality(S)
  BY DEF Listing!Cardinality, Cardinality
<1>2. Listing!IsFiniteSet(S) = IsFiniteSet(S)
  BY DEF Listing!IsFiniteSet, IsFiniteSet
<1> QED BY <1>1, <1>2

LEMMA MatchingPresent ==
  ASSUME Listing!ListingAssumption, Listing!TypeOK, NEW scope, NEW status \in {"Pending", "Done"}
  PROVE  /\ Listing!Matching(scope, status) \subseteq Id /\ IsFiniteSet(Listing!Matching(scope, status))
         /\ \A i \in Listing!Matching(scope, status) : Present(i) /\ jobs[i].status = status
<1>1. Listing!Matching(scope, status) \in SUBSET Id
  BY DEF Listing!Matching, Listing!MatchingIn
<1>2. IsFiniteSet(Listing!Matching(scope, status))
  BY <1>1, SameCount, FS_Subset DEF Listing!ListingAssumption
<1>3. \A i \in Listing!Matching(scope, status) : Present(i) /\ jobs[i].status = status
  BY DEF Listing!Matching, Listing!MatchingIn, Present, Listing!TypeOK, Listing!Absent
<1> QED BY <1>1, <1>2, <1>3

\* A sequence the ORDER BY allows lists the rows without repetition, and as many
\* are before each as its place says: there is one such sequence.
LEMMA Places ==
  ASSUME Listing!ListingAssumption, NEW M \in SUBSET Id, IsFiniteSet(M), \A i \in M : Present(i),
         NEW s \in Listing!Orderings(M)
  PROVE  /\ s \in Seq(M) /\ Len(s) = Cardinality(M) /\ Cardinality(M) \in Nat
         /\ Listing!Range(s) = M /\ Distinct(s)
         /\ \A p \in 1 .. Len(s) : Ahead(M, s[p]) = p - 1
<1> DEFINE n == Cardinality(M)
<1>1. n \in Nat
  BY FS_CardinalityType
<1>2. /\ s \in [1 .. n -> M] /\ \A i, j \in 1 .. n : i # j => s[i] # s[j]
      /\ \A p, q \in DOMAIN s : p < q => ~Listing!Before(s[q], s[p])
  BY SameCount DEF Listing!SetToSeqs, Listing!Orderings
<1>3. IsFiniteSet(1 .. n) /\ Cardinality(1 .. n) = n
  BY <1>1, FS_Interval
<1>4. s \in Injection(1 .. n, M)
  BY <1>2 DEF Injection, IsInjective
<1>5. s \in Surjection(1 .. n, M)
  BY <1>3, <1>4, FS_Injection
<1> HIDE DEF n
<1>6. s \in Seq(M) /\ Len(s) = n /\ DOMAIN s = 1 .. n
  BY <1>1, <1>2
<1>7. Listing!Range(s) = M /\ \A i \in M : \E p \in 1 .. n : s[p] = i
  BY <1>2, <1>5 DEF Listing!Range, Surjection
<1>8. ASSUME NEW p \in 1 .. n PROVE Ahead(M, s[p]) = p - 1
  <2> DEFINE A == {j \in M : Listing!Before(j, s[p])}
             f == [q \in 1 .. p - 1 |-> s[q]]
  <2>1. p \in Nat /\ s[p] \in M /\ p - 1 \in Int /\ 1 .. p - 1 \subseteq 1 .. n
    BY <1>1, <1>2
  <2>2. ASSUME NEW q \in 1 .. p - 1 PROVE s[q] \in A
    <3>1. q \in 1 .. n /\ q < p /\ q # p
      BY <2>1
    <3>2. s[q] # s[p] /\ ~Listing!Before(s[p], s[q]) /\ s[q] \in M
      BY <1>2, <1>6, <3>1
    <3>3. Listing!Before(s[q], s[p])
      BY <2>1, <3>2, BeforeTotal
    <3> QED BY <3>2, <3>3
  <2>3. ASSUME NEW j \in A PROVE \E q \in 1 .. p - 1 : s[q] = j
    <3>1. PICK q \in 1 .. n : s[q] = j
      BY <1>7
    <3>2. Listing!Before(s[q], s[p])
      BY <3>1
    <3>3. q # p
      BY <2>1, <3>2, BeforeTotal
    <3>4. ~(p < q)
      BY <1>2, <1>6, <3>2
    <3>5. q \in 1 .. p - 1
      BY <1>1, <3>3, <3>4
    <3> QED BY <3>1, <3>5
  <2> HIDE DEF A
  <2>4. f \in Injection(1 .. p - 1, A) /\ f \in Surjection(1 .. p - 1, A)
    <3>1. f \in [1 .. p - 1 -> A]
      BY <2>2
    <3>2. \A q, r \in 1 .. p - 1 : f[q] = f[r] => q = r
      BY <1>2, <2>1
    <3>3. \A j \in A : \E q \in 1 .. p - 1 : f[q] = j
      BY <2>3
    <3> HIDE DEF f
    <3> QED BY <3>1, <3>2, <3>3 DEF Injection, IsInjective, Surjection
  <2>5. IsFiniteSet(1 .. p - 1) /\ Cardinality(1 .. p - 1) = p - 1
    <3>1. 1 \in Int /\ p - 1 \in Int /\ (1 > p - 1 => p - 1 = 0) /\ (p - 1) - 1 + 1 = p - 1
      BY <2>1
    <3>2. IsFiniteSet(1 .. p - 1)
          /\ Cardinality(1 .. p - 1) = IF 1 > p - 1 THEN 0 ELSE (p - 1) - 1 + 1
      BY ONLY <3>1, FS_Interval
    <3> QED BY <3>1, <3>2
  <2> HIDE DEF f
  <2>6. Cardinality(A) = Cardinality(1 .. p - 1)
    BY ONLY <2>4, <2>5, FS_Surjection
  <2> QED BY <2>5, <2>6 DEF Ahead, A
<1>9. Distinct(s)
  BY <1>2, <1>6 DEF Distinct
<1>10. Len(s) = Cardinality(M) /\ Cardinality(M) \in Nat
  BY <1>1, <1>6 DEF n
<1> QED BY <1>6, <1>7, <1>8, <1>9, <1>10

\* How many of n rows a page holds.
PageLength(n, limit, offset) ==
  IF n <= offset THEN 0 ELSE IF n - offset < limit THEN n - offset ELSE limit

\* A page is what lies between its offset and the next one's.
LEMMA SlicePlaces ==
  ASSUME NEW M, NEW s \in Seq(M), NEW limit \in Nat, NEW offset \in Nat
  PROVE  LET page == Listing!Slice(s, limit, offset)
         IN /\ page \in Seq(M)
            /\ Len(page) = PageLength(Len(s), limit, offset)
            /\ \A p \in 1 .. Len(page) : offset + p \in 1 .. Len(s) /\ page[p] = s[offset + p]
<1> DEFINE top == IF offset + limit < Len(s) THEN offset + limit ELSE Len(s)
           page == SubSeq(s, offset + 1, top)
<1>1. Len(s) \in Nat /\ top \in Nat /\ top <= Len(s) /\ top <= offset + limit
  OBVIOUS
<1>2. page = Listing!Slice(s, limit, offset)
  BY DEF Listing!Slice
<1>3. CASE offset < top
  <2>1. /\ offset + 1 \in 1 .. Len(s) /\ top \in offset + 1 .. Len(s)
        /\ top - offset = PageLength(Len(s), limit, offset)
    BY <1>1, <1>3 DEF PageLength
  <2> HIDE DEF top
  <2>2. /\ page \in Seq(M) /\ Len(page) = top - offset
        /\ \A p \in 1 .. top - offset : page[p] = s[offset + p]
    BY <1>1, <1>3, <2>1
  <2>3. \A p \in 1 .. top - offset : offset + p \in 1 .. Len(s)
    BY <1>1, <2>1
  <2> QED BY <1>2, <2>1, <2>2, <2>3
<1>4. CASE ~(offset < top)
  <2>1. 0 = PageLength(Len(s), limit, offset)
    BY <1>1, <1>4 DEF PageLength
  <2> HIDE DEF top
  <2>2. page = << >>
    BY <1>1, <1>4
  <2> HIDE DEF page
  <2>3. page \in Seq(M) /\ Len(page) = 0
    BY <2>2
  <2> QED BY <1>2, <2>1, <2>3
<1> QED BY <1>3, <1>4

LEMMA AheadType ==
  ASSUME NEW M, IsFiniteSet(M), NEW i
  PROVE  Ahead(M, i) \in Nat
<1>1. {j \in M : Listing!Before(j, i)} \in SUBSET M
  OBVIOUS
<1> QED BY <1>1, FS_Subset, FS_CardinalityType DEF Ahead

\* A page shows exactly the rows with as many ahead, and a page that is not full
\* leaves nothing behind it.
LEMMA PageShows ==
  ASSUME Listing!ListingAssumption, NEW M \in SUBSET Id, IsFiniteSet(M), \A i \in M : Present(i),
         NEW s \in Listing!Orderings(M), NEW limit \in Nat, NEW offset \in Nat
  PROVE  LET page == Listing!Slice(s, limit, offset)
         IN /\ page \in Seq(M) /\ Distinct(page)
            /\ \A i \in M : i \in Listing!Range(page)
                              <=> offset <= Ahead(M, i) /\ Ahead(M, i) < offset + limit
            /\ Len(page) < limit => \A i \in M : Ahead(M, i) < offset + limit
<1> DEFINE page == Listing!Slice(s, limit, offset)
           n == Len(s)
<1>1. /\ s \in Seq(M) /\ n \in Nat /\ Listing!Range(s) = M /\ Distinct(s)
      /\ DOMAIN s = 1 .. n
      /\ \A p \in 1 .. n : Ahead(M, s[p]) = p - 1
  BY Places
<1>2. /\ page \in Seq(M)
      /\ Len(page) = PageLength(n, limit, offset)
      /\ \A p \in 1 .. Len(page) : offset + p \in 1 .. n /\ page[p] = s[offset + p]
  BY <1>1, SlicePlaces
<1>3. Len(page) \in Nat /\ DOMAIN page = 1 .. Len(page)
      /\ Listing!Range(page) = {page[p] : p \in 1 .. Len(page)}
  <2>1. page \in Seq(M)
    BY <1>2
  <2> HIDE DEF page
  <2>2. Len(page) \in Nat /\ DOMAIN page = 1 .. Len(page)
    BY <2>1
  <2> QED BY <2>2 DEF Listing!Range
<1>4. \A i \in M : \E p \in 1 .. n : s[p] = i /\ Ahead(M, i) = p - 1
  BY <1>1 DEF Listing!Range
<1> HIDE DEF page, n
<1>5. Distinct(page)
  <2>1. ASSUME NEW p \in 1 .. Len(page), NEW q \in 1 .. Len(page), p # q
        PROVE  page[p] # page[q]
    <3>1. /\ offset + p \in 1 .. n /\ offset + q \in 1 .. n /\ offset + p # offset + q
          /\ page[p] = s[offset + p] /\ page[q] = s[offset + q]
      BY <1>2, <1>3, <2>1
    <3> QED BY <1>1, <3>1 DEF Distinct
  <2> QED BY <1>3, <2>1 DEF Distinct
<1>6. ASSUME NEW i \in M, i \in Listing!Range(page)
      PROVE  offset <= Ahead(M, i) /\ Ahead(M, i) < offset + limit
  <2>1. PICK p \in 1 .. Len(page) : page[p] = i
    BY <1>3, <1>6
  <2>2. offset + p \in 1 .. n /\ i = s[offset + p]
    BY <1>2, <2>1
  <2>3. Ahead(M, i) = offset + p - 1
    BY <1>1, <2>2
  <2>4. Len(page) <= limit
    BY <1>1, <1>2, <1>3 DEF PageLength
  <2> QED BY <1>3, <2>3, <2>4
<1>7. ASSUME NEW i \in M, offset <= Ahead(M, i), Ahead(M, i) < offset + limit
      PROVE  i \in Listing!Range(page)
  <2>1. PICK p \in 1 .. n : s[p] = i /\ Ahead(M, i) = p - 1
    BY <1>4
  <2>2. p - offset \in 1 .. Len(page) /\ offset + (p - offset) = p
    BY <1>1, <1>2, <1>3, <1>7, <2>1 DEF PageLength
  <2>3. page[p - offset] = i
    BY <1>2, <2>1, <2>2
  <2> QED BY <1>3, <2>2, <2>3
<1>8. ASSUME Len(page) < limit, NEW i \in M PROVE Ahead(M, i) < offset + limit
  <2>1. PICK p \in 1 .. n : Ahead(M, i) = p - 1
    BY <1>4
  <2>2. n < offset + limit
    BY <1>1, <1>2, <1>3, <1>8 DEF PageLength
  <2> QED BY <1>1, <2>1, <2>2
<1>9. /\ page \in Seq(M) /\ Distinct(page)
      /\ \A i \in M : i \in Listing!Range(page)
                        <=> offset <= Ahead(M, i) /\ Ahead(M, i) < offset + limit
      /\ Len(page) < limit => \A i \in M : Ahead(M, i) < offset + limit
  BY <1>2, <1>5, <1>6, <1>7, <1>8
<1> QED BY <1>9 DEF page

LEMMA NextOffset ==
  ASSUME NEW p \in Nat \ {0}, NEW n \in Nat, NEW q, NEW m, q = p + 1, m = n
  PROVE  (q - 1) * m = (p - 1) * n + n
<1>1. PICK k \in Nat : p = k + 1
  BY p - 1 \in Nat
<1>2. p - 1 = k /\ q - 1 = k + 1
  BY <1>1
<1>3. (k + 1) * n = k * n + n
  OBVIOUS
<1> QED BY ONLY <1>2, <1>3, m = n

\* The pages of a walk, one behind the other.
LEMMA Joined ==
  ASSUME NEW S, NEW s \in Seq(S), NEW t \in Seq(S)
  PROVE  /\ s \o t \in Seq(S) /\ Listing!Range(s \o t) = Listing!Range(s) \union Listing!Range(t)
         /\ Distinct(s) /\ Distinct(t) /\ (\A x \in Listing!Range(t) : x \notin Listing!Range(s)) => Distinct(s \o t)
<1>1. /\ Len(s) \in Nat /\ Len(t) \in Nat /\ DOMAIN s = 1 .. Len(s) /\ DOMAIN t = 1 .. Len(t)
      /\ s \o t \in Seq(S) /\ DOMAIN (s \o t) = 1 .. Len(s) + Len(t)
      /\ \A p \in 1 .. Len(s) + Len(t) :
           (s \o t)[p] = IF p <= Len(s) THEN s[p] ELSE t[p - Len(s)]
  OBVIOUS
<1> DEFINE u == s \o t
<1>2. /\ DOMAIN u = 1 .. Len(s) + Len(t)
      /\ \A p \in 1 .. Len(s) : p \in DOMAIN u /\ u[p] = s[p]
      /\ \A p \in 1 .. Len(t) : Len(s) + p \in DOMAIN u /\ u[Len(s) + p] = t[p]
      /\ \A p \in DOMAIN u : \/ p \in 1 .. Len(s) /\ u[p] = s[p]
                             \/ p - Len(s) \in 1 .. Len(t) /\ u[p] = t[p - Len(s)]
  <2>1. \A p \in 1 .. Len(t) : (Len(s) + p) - Len(s) = p /\ ~(Len(s) + p <= Len(s))
                               /\ Len(s) + p \in 1 .. Len(s) + Len(t)
    BY <1>1
  <2>2. \A p \in 1 .. Len(s) + Len(t) : ~(p <= Len(s)) => p - Len(s) \in 1 .. Len(t)
    BY <1>1
  <2> QED BY <1>1, <2>1, <2>2
<1> HIDE DEF u
<1>3. Listing!Range(u) = Listing!Range(s) \union Listing!Range(t)
  <2>1. \A p \in 1 .. Len(s) : s[p] \in Listing!Range(u)
    BY <1>2 DEF Listing!Range
  <2>2. \A p \in 1 .. Len(t) : t[p] \in Listing!Range(u)
    BY <1>2 DEF Listing!Range
  <2>3. \A p \in DOMAIN u : u[p] \in Listing!Range(s) \union Listing!Range(t)
    BY <1>1, <1>2 DEF Listing!Range
  <2> QED BY <1>1, <2>1, <2>2, <2>3 DEF Listing!Range
<1>4. ASSUME Distinct(s), Distinct(t), \A x \in Listing!Range(t) : x \notin Listing!Range(s)
      PROVE  Distinct(u)
  <2>1. ASSUME NEW p \in DOMAIN u, NEW q \in DOMAIN u, p # q PROVE u[p] # u[q]
    <3>1. CASE p \in 1 .. Len(s) /\ u[p] = s[p] /\ q \in 1 .. Len(s) /\ u[q] = s[q]
      BY <1>1, <1>4, <2>1, <3>1 DEF Distinct
    <3>2. CASE /\ p - Len(s) \in 1 .. Len(t) /\ u[p] = t[p - Len(s)]
               /\ q - Len(s) \in 1 .. Len(t) /\ u[q] = t[q - Len(s)]
      <4>1. p - Len(s) # q - Len(s)
        BY <1>1, <1>2, <2>1
      <4> QED BY <1>1, <1>4, <3>2, <4>1 DEF Distinct
    <3>3. CASE /\ p \in 1 .. Len(s) /\ u[p] = s[p]
               /\ q - Len(s) \in 1 .. Len(t) /\ u[q] = t[q - Len(s)]
      <4>1. u[p] \in Listing!Range(s) /\ u[q] \in Listing!Range(t)
        BY <1>1, <3>3 DEF Listing!Range
      <4> QED BY <1>4, <4>1
    <3>4. CASE /\ q \in 1 .. Len(s) /\ u[q] = s[q]
               /\ p - Len(s) \in 1 .. Len(t) /\ u[p] = t[p - Len(s)]
      <4>1. u[q] \in Listing!Range(s) /\ u[p] \in Listing!Range(t)
        BY <1>1, <3>4 DEF Listing!Range
      <4> QED BY <1>4, <4>1
    <3> QED BY <1>2, <3>1, <3>2, <3>3, <3>4
  <2> QED BY <2>1 DEF Distinct
<1> QED BY <1>1, <1>3, <1>4 DEF u

-----------------------------------------------------------------------------
\* Steps.

\* While the table stays, so do the listing's places.
LEMMA SameTable ==
  ASSUME jobs' = jobs
  PROVE  /\ \A scope, status : Listing!Matching(scope, status)' = Listing!Matching(scope, status)
         /\ \A M, i : Ahead(M, i)' = Ahead(M, i)
<1>1. \A scope, status : Listing!Matching(scope, status)' = Listing!Matching(scope, status)
  BY DEF Listing!Matching, Listing!MatchingIn
<1>2. \A i, j : Listing!Before(i, j)' = Listing!Before(i, j)
  BY DEF Listing!Before, Listing!Earlier
<1>3. \A M, i : Ahead(M, i)' = Ahead(M, i)
  BY <1>2 DEF Ahead
<1> QED BY <1>1, <1>3

LEMMA NextPageStep ==
  ASSUME Listing!ListingAssumption, ListingInv, Listing!NextPage
  PROVE  ListingInv'
<1> DEFINE offset == Offset
           L == Listed
<1>1. /\ walk.state = "walking" /\ walk \in WalkType
      /\ Listing!FilterOffset(walk.page, walk.size) # Null
      /\ jobs' = jobs /\ reply' = reply /\ writes' = writes
  BY DEF Listing!NextPage, ListingInv, WalkInv, Listing!Idle
<1>2. /\ walk.scope \in Queue \union {All} /\ walk.status \in {"Pending", "Done"}
      /\ walk.size \in Nat \ {0} /\ walk.page \in Nat \ {0}
      /\ walk.got \in Seq(Id) /\ walk.start \in SUBSET Id
      /\ walk.moved \in BOOLEAN /\ walk.left \in BOOLEAN
  BY <1>1 DEF WalkType
<1>3. Listing!FilterOffset(walk.page, walk.size) = offset /\ offset \in Nat
  BY <1>1, <1>2 DEF Listing!FilterOffset, Offset
<1>4. PICK s \in Listing!Orderings(L) :
        walk' = [walk EXCEPT !.got = @ \o Listing!Slice(s, walk.size, offset), !.page = @ + 1,
                             !.state = IF Len(Listing!Slice(s, walk.size, offset)) < walk.size
                                       THEN "over" ELSE @]
  BY <1>3 DEF Listing!NextPage, Listed
<1> DEFINE page == Listing!Slice(s, walk.size, offset)
           more == IF Len(page) < walk.size THEN "over" ELSE "walking"
<1>5. L \in SUBSET Id /\ IsFiniteSet(L) /\ \A i \in L : Present(i)
  BY <1>2, MatchingPresent DEF ListingInv, Listed
<1> HIDE DEF offset, L
<1>6. /\ page \in Seq(L) /\ Distinct(page)
      /\ \A i \in L : i \in Listing!Range(page)
                        <=> offset <= Ahead(L, i) /\ Ahead(L, i) < offset + walk.size
      /\ Len(page) < walk.size => \A i \in L : Ahead(L, i) < offset + walk.size
  BY <1>2, <1>3, <1>4, <1>5, PageShows
<1>7. page \in Seq(Id) /\ Listing!Range(page) \subseteq L
  BY <1>5, <1>6 DEF Listing!Range
<1> HIDE DEF page
<1>8. /\ walk.got \o page \in Seq(Id) /\ Listing!Range(walk.got \o page) = Listing!Range(walk.got) \union Listing!Range(page)
      /\ Distinct(walk.got) /\ (\A x \in Listing!Range(page) : x \notin Listing!Range(walk.got))
           => Distinct(walk.got \o page)
  BY <1>2, <1>6, <1>7, Joined
<1>9. walk' = [walk EXCEPT !.got = walk.got \o page, !.page = walk.page + 1, !.state = more]
  BY <1>1, <1>4 DEF page
<1>10. more \in {"walking", "over"} /\ walk.page + 1 \in Nat \ {0}
       /\ (more = "over" => Len(page) < walk.size)
  BY <1>2
<1> HIDE DEF more
<1>11. /\ walk' \in WalkType
       /\ walk'.state = more /\ walk'.got = walk.got \o page /\ walk'.page = walk.page + 1
       /\ walk'.size = walk.size /\ walk'.scope = walk.scope /\ walk'.status = walk.status
       /\ walk'.start = walk.start /\ walk'.moved = walk.moved /\ walk'.left = walk.left
  BY <1>1, <1>8, <1>9, <1>10 DEF WalkType
<1>12. Offset' = offset + walk.size
  <2>1. Offset' = (walk'.page - 1) * walk'.size
    BY DEF Offset
  <2>2. walk'.page = walk.page + 1 /\ walk'.size = walk.size
    BY <1>11
  <2>3. (walk'.page - 1) * walk'.size = (walk.page - 1) * walk.size + walk.size
    BY ONLY <1>2, <2>2, NextOffset
  <2>4. offset = (walk.page - 1) * walk.size
    BY DEF offset, Offset
  <2> QED BY ONLY <2>1, <2>3, <2>4
<1>13. Listed' = L
  BY <1>1, <1>11, SameTable DEF L, Listed
<1>14. \A i : Ahead(Listed, i)' = Ahead(L, i)
  <2>1. \A M, i : Ahead(M, i)' = Ahead(M, i)
    BY <1>1, SameTable
  <2> QED BY <1>13, <2>1
<1>15. /\ ~walk.left => \A i \in walk.start :
                          i \in L /\ (i \in Listing!Range(walk.got) \/ Ahead(L, i) >= offset)
       /\ ~walk.moved => /\ Distinct(walk.got)
                         /\ \A i \in Listing!Range(walk.got) : i \in L /\ Ahead(L, i) < offset
  BY <1>1 DEF ListingInv, WalkInv, L, offset
<1>16. \A i \in L : Ahead(L, i) \in Nat
  BY <1>5, AheadType
<1>17. ~walk.left => \A i \in walk.start :
         i \in L /\ (i \in Listing!Range(walk.got \o page) \/ Ahead(L, i) >= offset + walk.size)
  BY <1>2, <1>3, <1>6, <1>8, <1>15, <1>16
<1>18. ASSUME ~walk.moved
       PROVE  /\ Distinct(walk.got \o page)
              /\ \A i \in Listing!Range(walk.got \o page) : i \in L /\ Ahead(L, i) < offset + walk.size
  <2>1. \A i \in Listing!Range(page) : i \in L /\ offset <= Ahead(L, i) /\ Ahead(L, i) < offset + walk.size
    BY <1>6, <1>7
  <2>2. \A i \in Listing!Range(walk.got) : i \in L /\ Ahead(L, i) < offset
    BY <1>15, <1>18
  <2>3. \A x \in Listing!Range(page) : x \notin Listing!Range(walk.got)
    BY <1>3, <1>16, <2>1, <2>2
  <2>4. Distinct(walk.got \o page)
    BY <1>8, <1>15, <1>18, <2>3
  <2>5. \A i \in Listing!Range(walk.got) : Ahead(L, i) < offset + walk.size
    BY <1>2, <1>3, <1>16, <2>2
  <2> QED BY <1>8, <2>1, <2>2, <2>4, <2>5
<1>19. more = "over" /\ ~walk.left => walk.start \subseteq Listing!Range(walk.got \o page)
  BY <1>2, <1>3, <1>6, <1>10, <1>16, <1>17
<1>20. WalkInv'
  BY <1>11, <1>12, <1>13, <1>14, <1>17, <1>18 DEF WalkInv
<1>21. Listing!WalkExact'
  BY <1>11, <1>18, <1>19 DEF Listing!WalkExact, Distinct
<1>22. Listing!TypeOK'
  BY <1>1, <1>8, <1>11, <1>2 DEF Listing!TypeOK, ListingInv
<1>23. Listing!PageInRange' /\ Listing!FailureForCause'
  BY <1>1
  DEF ListingInv, Listing!PageInRange, Listing!FailureForCause, Listing!Matching,
      Listing!MatchingIn
<1> QED BY <1>20, <1>21, <1>22, <1>23 DEF ListingInv

LEMMA StartWalkStep ==
  ASSUME Listing!ListingAssumption, ListingInv, NEW scope \in Queue \union {All},
         NEW status \in {"Pending", "Done"}, NEW size \in PageSize,
         Listing!StartWalk(scope, status, size)
  PROVE  ListingInv'
<1> DEFINE M == Listing!Matching(scope, status)
<1>1. /\ size \in Nat \ {0} /\ jobs' = jobs /\ writes' = writes /\ reply' = [call |-> "none"]
      /\ walk' = [Listing!NewWalk(scope, status, size) EXCEPT !.start = M]
  BY DEF Listing!StartWalk, Listing!ListingAssumption
<1>2. M \in SUBSET Id /\ IsFiniteSet(M)
  BY MatchingPresent DEF ListingInv
<1>3. M = Listing!MatchingIn(jobs', scope, status) /\ \A Q, i : Ahead(Q, i)' = Ahead(Q, i)
  BY <1>1, SameTable DEF Listing!Matching
<1> HIDE DEF M
<1>4. /\ walk' \in WalkType /\ walk'.state = "walking" /\ walk'.got = <<>> /\ walk'.page = 1
      /\ walk'.size = size /\ walk'.scope = scope /\ walk'.status = status /\ walk'.start = M
  <2>1. walk' = [state |-> "walking", scope |-> scope, status |-> status, size |-> size,
                 page |-> 1, got |-> <<>>, start |-> M, moved |-> FALSE, left |-> FALSE]
    BY <1>1 DEF Listing!NewWalk
  <2>2. <<>> \in Seq(Id) /\ 1 \in Nat \ {0}
    OBVIOUS
  <2>3. walk' \in WalkType
    <3>1. size \in Nat \ {0} /\ M \in SUBSET Id
      BY <1>1, <1>2
    <3>2. walk' \in [state : {"walking"}, scope : {scope}, status : {status}, size : {size},
                     page : {1}, got : {<<>>}, start : {M}, moved : {FALSE}, left : {FALSE}]
      BY ONLY <2>1
    <3> QED BY <2>2, <3>1, <3>2 DEF WalkType
  <2> QED BY <2>1, <2>3
<1>5. Listed' = M
  <2>1. Listed' = Listing!MatchingIn(jobs', walk'.scope, walk'.status)
    BY DEF Listed, Listing!Matching
  <2> QED BY <1>3, <1>4, <2>1
<1>6. \A i : Ahead(Listed, i)' = Ahead(M, i)
  BY <1>3, <1>5
<1>7. Offset' = 0
  <2>1. Offset' = (walk'.page - 1) * walk'.size
    BY DEF Offset
  <2>2. (1 - 1) * size = 0
    BY <1>1
  <2> QED BY <1>4, <2>1, <2>2
<1>8. \A i \in M : Ahead(M, i) \in Nat
  BY <1>2, AheadType
<1>9. Listing!Range(<<>>) = {} /\ Distinct(<<>>)
  BY DEF Listing!Range, Distinct
<1>10. WalkInv'
  BY <1>4, <1>5, <1>6, <1>7, <1>8, <1>9 DEF WalkInv
<1>11. Listing!WalkExact' /\ Listing!PageInRange' /\ Listing!FailureForCause'
  BY <1>1, <1>4 DEF Listing!WalkExact, Listing!PageInRange, Listing!FailureForCause
<1>12. Listing!TypeOK'
  <2>1. walk'.got \in Seq(Id) /\ walk'.start \subseteq Id
    BY <1>4 DEF WalkType
  <2> QED BY <1>1, <2>1 DEF Listing!TypeOK, ListingInv
<1> QED BY <1>10, <1>11, <1>12 DEF ListingInv

LEMMA EndWalkStep ==
  ASSUME Listing!ListingAssumption, ListingInv, Listing!EndWalk
  PROVE  ListingInv'
<1>1. walk' = Listing!Idle /\ walk'.state = "idle" /\ jobs' = jobs /\ reply' = reply /\ writes' = writes
  BY DEF Listing!EndWalk, Listing!Idle
<1>2. WalkInv' /\ Listing!WalkExact'
  BY <1>1 DEF WalkInv, Listing!WalkExact
<1>3. Listing!TypeOK'
  BY <1>1 DEF Listing!TypeOK, ListingInv
<1>4. Listing!PageInRange' /\ Listing!FailureForCause'
  BY <1>1
  DEF ListingInv, Listing!PageInRange, Listing!FailureForCause, Listing!Matching,
      Listing!MatchingIn
<1> QED BY <1>2, <1>3, <1>4 DEF ListingInv

\* A call that reads leaves the walk alone.
LEMMA ReadStep ==
  ASSUME ListingInv, jobs' = jobs, walk' = walk, writes' = writes
  PROVE  Listing!TypeOK' /\ WalkInv' /\ Listing!WalkExact'
<1>1. Listed' = Listed
  BY DEF Listed, Listing!Matching, Listing!MatchingIn
<1>2. \A M, i : Ahead(M, i)' = Ahead(M, i)
  BY SameTable
<1>3. \A i : Ahead(Listed, i)' = Ahead(Listed, i)
  BY <1>1, <1>2
<1>4. Offset' = Offset
  BY DEF Offset
<1>5. WalkInv'
  BY <1>1, <1>3, <1>4 DEF WalkInv, ListingInv
<1> QED BY <1>5 DEF Listing!TypeOK, Listing!WalkExact, ListingInv

\* No stored row makes a conversion panic, and each refusal has its cause.
LEMMA Conversion ==
  ASSUME Listing!TypeOK, NEW i \in Id, Present(i), NEW scope
  PROVE  /\ Listing!TaskRow(i) = IF jobs[i].shape = "malformed" THEN "Row" ELSE "ok"
         /\ Listing!Converted(scope, i) =
              IF jobs[i].shape = "malformed" THEN "Row"
              ELSE IF scope # All /\ jobs[i].shape = "undecodable" THEN "Decode" ELSE "ok"
<1>1. Listing!TaskRow(i) = IF jobs[i].shape = "malformed" THEN "Row" ELSE "ok"
  BY DEF Listing!TaskRow, Listing!TryIntoTaskCompact, Listing!RowMetadata
<1> QED BY <1>1 DEF Listing!Converted

LEMMA ListStep ==
  ASSUME Listing!ListingAssumption, ListingInv, NEW scope \in Queue \union {All},
         NEW status \in {"Pending", "Done"}, NEW limit \in PageSize, NEW page \in Page,
         Listing!ListTasks(scope, status, limit, page)
  PROVE  ListingInv'
<1> DEFINE M == Listing!Matching(scope, status)
           offset == Listing!FilterOffset(page, limit)
<1>1. jobs' = jobs /\ walk' = walk /\ writes' = writes
  BY DEF Listing!ListTasks
<1>2. Listing!TypeOK' /\ WalkInv' /\ Listing!WalkExact'
  BY <1>1, ReadStep
<1>3. CASE ~Listing!FitsI32(limit) \/ offset = Null
  <2>1. reply' = [call |-> "list", page |-> page, limit |-> limit, scope |-> scope,
                  status |-> status, answer |-> "InvalidArgument"]
    BY <1>3 DEF Listing!ListTasks
  <2>2. "rows" \notin DOMAIN reply' /\ reply'.answer = "InvalidArgument"
    BY <2>1
  <2>3. Listing!PageInRange' /\ Listing!FailureForCause'
    BY <2>2 DEF Listing!PageInRange, Listing!FailureForCause
  <2> QED BY <1>2, <2>3 DEF ListingInv
<1>4. CASE Listing!FitsI32(limit) /\ offset # Null
  <2>0. PICK s \in Listing!Orderings(M) : \E answer \in Listing!PageResult(scope, Listing!Slice(s, limit, offset)) :
          reply' = [call |-> "list", page |-> page, limit |-> limit, scope |-> scope,
                    status |-> status, answer |-> answer, rows |-> Listing!Slice(s, limit, offset)]
    BY <1>4 DEF Listing!ListTasks
  <2>1. PICK answer \in Listing!PageResult(scope, Listing!Slice(s, limit, offset)) :
          reply' = [call |-> "list", page |-> page, limit |-> limit, scope |-> scope,
                    status |-> status, answer |-> answer, rows |-> Listing!Slice(s, limit, offset)]
    BY <2>0
  <2> DEFINE rows == Listing!Slice(s, limit, offset)
  <2>2. /\ limit \in Nat /\ page \in Nat \ {0} /\ (page - 1) * limit \in Nat
        /\ offset = (page - 1) * limit
    BY <1>4 DEF Listing!FilterOffset, Listing!ListingAssumption
  <2>3. M \in SUBSET Id /\ IsFiniteSet(M) /\ \A i \in M : Present(i)
    BY MatchingPresent DEF ListingInv
  <2>4. Listing!MatchingIn(jobs', scope, status) = M
    BY <1>1 DEF Listing!Matching
  <2> HIDE DEF M, offset
  <2>5. s \in Seq(M) /\ Len(s) = Cardinality(M) /\ Cardinality(M) \in Nat
    BY <2>0, <2>3, Places
  <2>6. rows \in Seq(M) /\ Len(rows) = PageLength(Cardinality(M), limit, offset)
    BY <2>2, <2>5, SlicePlaces
  <2> HIDE DEF rows
  <2>7. /\ reply'.call = "list" /\ reply'.page = page /\ reply'.limit = limit
        /\ reply'.scope = scope /\ reply'.status = status /\ reply'.answer = answer
        /\ reply'.rows = rows
    BY <2>1 DEF rows
  <2>8. Listing!PageInRange'
    <3> DEFINE n == Cardinality(M)
               rest == IF n > offset THEN n - offset ELSE 0
    <3>1. Len(rows) = IF rest < limit THEN rest ELSE limit
      BY <2>2, <2>5, <2>6 DEF PageLength
    <3>2. Listing!Matching(reply.scope, reply.status)' = M
      <4>1. Listing!Matching(reply.scope, reply.status)' = Listing!MatchingIn(jobs', reply'.scope, reply'.status)
        BY DEF Listing!Matching
      <4> QED BY <2>4, <2>7, <4>1
    <3> HIDE DEF rows
    <3> QED BY <2>2, <2>7, <3>1, <3>2, SameCount DEF Listing!PageInRange
  <2>9. \A p \in DOMAIN rows : rows[p] \in Id /\ Present(rows[p])
    BY <2>3, <2>6
  <2>10. ASSUME answer # "ok"
         PROVE  \E p \in DOMAIN rows :
                  \/ jobs[rows[p]].shape = "malformed" /\ answer = "Row"
                  \/ jobs[rows[p]].shape = "undecodable" /\ answer = "Decode" /\ scope # All
    <3>1. \/ \E p \in DOMAIN rows : answer = Listing!TaskRow(rows[p])
          \/ \E p \in DOMAIN rows : answer = Listing!Converted(scope, rows[p])
      BY <2>1, <2>10 DEF Listing!PageResult, rows
    <3>2. \A p \in DOMAIN rows :
            /\ Listing!TaskRow(rows[p]) = IF jobs[rows[p]].shape = "malformed" THEN "Row" ELSE "ok"
            /\ Listing!Converted(scope, rows[p]) =
                 IF jobs[rows[p]].shape = "malformed" THEN "Row"
                 ELSE IF scope # All /\ jobs[rows[p]].shape = "undecodable" THEN "Decode" ELSE "ok"
      BY <2>9, Conversion DEF ListingInv
    <3> QED BY <2>10, <3>1, <3>2
  <2>11. Listing!FailureForCause'
    BY <1>1, <2>7, <2>10 DEF Listing!FailureForCause
  <2> QED BY <1>2, <2>8, <2>11 DEF ListingInv
<1> QED BY <1>3, <1>4

LEMMA FetchStep ==
  ASSUME Listing!ListingAssumption, ListingInv, NEW q \in Queue, NEW i \in Id, Listing!FetchById(q, i)
  PROVE  ListingInv'
<1>1. jobs' = jobs /\ walk' = walk /\ writes' = writes
  BY DEF Listing!FetchById
<1>2. Listing!TypeOK' /\ WalkInv' /\ Listing!WalkExact'
  BY <1>1, ReadStep
<1>3. reply'.call = "fetch" /\ reply'.answer \in {"none", "Row", "Decode", "ok"}
  <2>1. reply' = [call |-> "fetch", queue |-> q, id |-> i,
                  answer |-> IF jobs[i] # Listing!Absent /\ jobs[i].queue = q
                             THEN Listing!Converted(q, i) ELSE "none"]
    BY DEF Listing!FetchById
  <2>2. jobs[i] # Listing!Absent => Present(i)
    BY DEF ListingInv, Listing!TypeOK, Present
  <2>3. jobs[i] # Listing!Absent => Listing!Converted(q, i) \in {"Row", "Decode", "ok"}
    BY <2>2, Conversion DEF ListingInv
  <2> QED BY <2>1, <2>3
<1>4. Listing!PageInRange' /\ Listing!FailureForCause'
  BY <1>3 DEF Listing!PageInRange, Listing!FailureForCause
<1> QED BY <1>2, <1>4 DEF ListingInv

\* A write takes its row out of one listing or into another and leaves the order
\* of the others alone: rows that enter only push others back.
LEMMA WriteStep ==
  ASSUME Listing!ListingAssumption, ListingInv, NEW x \in Id, NEW row \in Listing!Row \union {Listing!Absent},
         row # Listing!Absent => (row.done_at = Null <=> row.status = "Pending"),
         jobs[x].status # row.status,
         Listing!Write(x, row)
  PROVE  ListingInv'
<1>1. /\ writes \in Nat /\ writes < MaxWrites /\ writes' = writes + 1 /\ MaxWrites \in Nat
      /\ jobs' = [jobs EXCEPT ![x] = row]
      /\ walk' = Listing!Observed(jobs') /\ reply' = [call |-> "none"]
  BY DEF Listing!Write, ListingInv, Listing!TypeOK, Listing!ListingAssumption
<1>2. jobs \in [Id -> Listing!Row \union {Listing!Absent}] /\ jobs' \in [Id -> Listing!Row \union {Listing!Absent}]
      /\ jobs'[x] = row /\ \A i \in Id : i # x => jobs'[i] = jobs[i]
  BY <1>1 DEF ListingInv, Listing!TypeOK
<1>3. Listing!PageInRange' /\ Listing!FailureForCause'
  BY <1>1 DEF Listing!PageInRange, Listing!FailureForCause
<1>0. /\ \A i \in Id : jobs'[i] # Listing!Absent => (jobs'[i].done_at = Null <=> jobs'[i].status = "Pending")
      /\ writes' \in 0 .. MaxWrites
  <2>1. \A i \in Id : jobs[i] # Listing!Absent => (jobs[i].done_at = Null <=> jobs[i].status = "Pending")
    BY DEF ListingInv, Listing!TypeOK
  <2>2. ASSUME NEW i \in Id, jobs'[i] # Listing!Absent
        PROVE  jobs'[i].done_at = Null <=> jobs'[i].status = "Pending"
    <3>1. CASE i = x
      BY <1>2, <2>2, <3>1
    <3>2. CASE i # x
      <4>1. jobs'[i] = jobs[i]
        BY <1>2, <3>2
      <4> QED BY <2>1, <2>2, <4>1
    <3> QED BY <3>1, <3>2
  <2>3. writes' \in 0 .. MaxWrites
    BY <1>1
  <2> QED BY <2>2, <2>3
<1>4. CASE walk.state # "walking"
  <2>1. walk' = walk
    BY <1>1, <1>4 DEF Listing!Observed
  <2>2. WalkInv'
    BY <1>4, <2>1 DEF WalkInv, ListingInv
  <2>3. Listing!WalkExact'
    BY <2>1 DEF Listing!WalkExact, ListingInv
  <2>4. Listing!TypeOK'
    <3>1. walk'.state # "idle" => walk'.got \in Seq(Id) /\ walk'.start \subseteq Id
      BY <2>1 DEF Listing!TypeOK, ListingInv
    <3> QED BY <1>0, <1>2, <3>1 DEF Listing!TypeOK
  <2> QED BY <1>3, <2>2, <2>3, <2>4 DEF ListingInv
<1>5. CASE walk.state = "walking"
  <2> DEFINE L == Listed
             N == Listing!MatchingIn(jobs', walk.scope, walk.status)
             moved == walk.moved \/ L # N
             left == walk.left \/ ~(L \subseteq N)
             behind(i) == Cardinality({j \in N : Listing!Before(j, i)'})
  <2>1. walk \in WalkType
    BY <1>5 DEF ListingInv, WalkInv, Listing!Idle
  <2>2. walk' = [walk EXCEPT !.moved = moved, !.left = left]
    BY <1>1, <1>5 DEF Listing!Observed, Listed
  <2>3. moved \in BOOLEAN /\ left \in BOOLEAN
    BY <2>1 DEF WalkType
  <2>4. /\ L \in SUBSET Id /\ N \in SUBSET Id /\ IsFiniteSet(L) /\ IsFiniteSet(N)
        /\ \A i \in L : i \in N => jobs'[i] = jobs[i]
    <3>1. L \in SUBSET Id /\ N \in SUBSET Id
      BY DEF Listed, Listing!Matching, Listing!MatchingIn
    <3>2. \A i \in L : i \in N => i # x
      BY <1>2 DEF Listed, Listing!Matching, Listing!MatchingIn
    <3>3. IsFiniteSet(L) /\ IsFiniteSet(N)
      BY <3>1, SameCount, FS_Subset DEF Listing!ListingAssumption
    <3> HIDE DEF L, N
    <3> QED BY <1>2, <3>1, <3>2, <3>3
  <2> HIDE DEF L, N, moved, left, behind
  <2>5. /\ walk' \in WalkType /\ walk'.state = "walking" /\ walk'.got = walk.got
        /\ walk'.page = walk.page /\ walk'.size = walk.size
        /\ walk'.scope = walk.scope /\ walk'.status = walk.status /\ walk'.start = walk.start
        /\ walk'.moved = moved /\ walk'.left = left
    BY <1>5, <2>1, <2>2, <2>3 DEF WalkType
  <2>6. Listed' = N
    <3>1. Listed' = Listing!MatchingIn(jobs', walk'.scope, walk'.status)
      BY DEF Listed, Listing!Matching, Listing!MatchingIn
    <3> QED BY <2>5, <3>1 DEF N
  <2>7. Offset' = Offset
    <3>1. Offset' = (walk'.page - 1) * walk'.size
      BY DEF Offset
    <3>2. walk'.page = walk.page /\ walk'.size = walk.size
      BY <2>5
    <3> QED BY ONLY <3>1, <3>2 DEF Offset
  <2>8. ASSUME L \subseteq N, NEW i \in L
        PROVE  /\ Ahead(L, i) \in Nat /\ behind(i) \in Nat
               /\ behind(i) >= Ahead(L, i)
               /\ L = N => behind(i) = Ahead(L, i)
    <3> DEFINE A == {j \in L : Listing!Before(j, i)}
               B == {j \in N : Listing!Before(j, i)'}
    <3>1. ASSUME NEW j \in L PROVE Listing!Before(j, i)' <=> Listing!Before(j, i)
      <4>1. jobs'[i] = jobs[i] /\ jobs'[j] = jobs[j]
        BY <2>4, <2>8
      <4> QED BY <4>1 DEF Listing!Before, Listing!Earlier
    <3>2. A \in SUBSET B /\ B \in SUBSET N /\ (L = N => A = B)
      BY <2>8, <3>1
    <3>3. Ahead(L, i) = Cardinality(A) /\ behind(i) = Cardinality(B)
      BY DEF Ahead, behind
    <3> HIDE DEF A, B
    <3>4. IsFiniteSet(B) /\ IsFiniteSet(A) /\ Cardinality(A) <= Cardinality(B)
      BY <2>4, <3>2, FS_Subset
    <3>5. Cardinality(A) \in Nat /\ Cardinality(B) \in Nat
      BY <3>4, FS_CardinalityType
    <3> QED BY <3>2, <3>3, <3>4, <3>5
  <2>9. \A i : Ahead(Listed, i)' = behind(i)
    BY <2>6 DEF Ahead, behind
  <2>10. Offset \in Nat
    <3>1. walk.page \in Nat \ {0} /\ walk.size \in Nat
      BY <2>1 DEF WalkType
    <3> QED BY <3>1 DEF Offset
  <2>11. /\ ~walk.left => \A i \in walk.start :
                            i \in L /\ (i \in Listing!Range(walk.got) \/ Ahead(L, i) >= Offset)
         /\ ~walk.moved => /\ Distinct(walk.got)
                           /\ \A i \in Listing!Range(walk.got) : i \in L /\ Ahead(L, i) < Offset
    BY <1>5 DEF ListingInv, WalkInv, L
  <2>12. ~left => \A i \in walk.start :
                    i \in N /\ (i \in Listing!Range(walk.got) \/ behind(i) >= Offset)
    <3> SUFFICES ASSUME ~left, NEW i \in walk.start
                 PROVE  i \in N /\ (i \in Listing!Range(walk.got) \/ behind(i) >= Offset)
      OBVIOUS
    <3>1. ~walk.left /\ L \subseteq N
      BY DEF left
    <3>2. i \in L /\ (i \in Listing!Range(walk.got) \/ Ahead(L, i) >= Offset)
      BY <2>11, <3>1
    <3>3. Ahead(L, i) \in Nat /\ behind(i) \in Nat /\ behind(i) >= Ahead(L, i)
      BY <2>8, <3>1, <3>2
    <3> QED BY <2>10, <3>1, <3>2, <3>3
  <2>13. ~moved => /\ Distinct(walk.got)
                   /\ \A i \in Listing!Range(walk.got) : i \in N /\ behind(i) < Offset
    <3> SUFFICES ASSUME ~moved
                 PROVE  /\ Distinct(walk.got)
                        /\ \A i \in Listing!Range(walk.got) : i \in N /\ behind(i) < Offset
      OBVIOUS
    <3>1. ~walk.moved /\ L = N
      BY DEF moved
    <3>2. \A i \in L : behind(i) = Ahead(L, i)
      BY <2>8, <3>1
    <3> QED BY <2>11, <3>1, <3>2
  <2>14. WalkInv'
    BY <2>5, <2>6, <2>7, <2>9, <2>12, <2>13 DEF WalkInv
  <2>15. Listing!WalkExact'
    BY <2>5 DEF Listing!WalkExact
  <2>16. Listing!TypeOK'
    <3>1. walk'.got \in Seq(Id) /\ walk'.start \subseteq Id
      BY <2>5 DEF WalkType
    <3> QED BY <1>0, <1>2, <3>1 DEF Listing!TypeOK
  <2> QED BY <1>3, <2>14, <2>15, <2>16 DEF ListingInv
<1> QED BY <1>4, <1>5

LEMMA WritersStep ==
  ASSUME Listing!ListingAssumption, ListingInv, NEW i \in Id,
         \/ \E q \in Queue, r \in RunAt, shape \in Listing!Shape : Listing!Enqueue(i, q, r, shape)
         \/ \E d \in DoneAt : Listing!Finish(i, d)
         \/ Listing!Purge(i)
  PROVE  ListingInv'
<1>1. jobs[i] \in Listing!Row \union {Listing!Absent} /\ Null \notin DoneAt
  BY DEF ListingInv, Listing!TypeOK, Listing!ListingAssumption
<1>2. ASSUME NEW q \in Queue, NEW r \in RunAt, NEW shape \in Listing!Shape, Listing!Enqueue(i, q, r, shape)
      PROVE  ListingInv'
  <2> DEFINE row == [queue |-> q, status |-> "Pending", run_at |-> r, done_at |-> Null,
                     shape |-> shape]
  <2>1. row \in Listing!Row /\ row.status = "Pending" /\ row.done_at = Null /\ Listing!Write(i, row)
    BY <1>2 DEF Listing!Enqueue, Listing!Row
  <2>2. jobs[i].status # row.status
    BY <1>2 DEF Listing!Enqueue, Listing!Absent
  <2> HIDE DEF row
  <2> QED BY <2>1, <2>2, WriteStep
<1>3. ASSUME NEW d \in DoneAt, Listing!Finish(i, d) PROVE ListingInv'
  <2> DEFINE row == [jobs[i] EXCEPT !.status = "Done", !.done_at = d]
  <2>1. jobs[i] \in Listing!Row /\ jobs[i].status = "Pending" /\ Listing!Write(i, row)
    <3>1. jobs[i].status = "Pending" /\ Listing!Write(i, row)
      BY <1>3 DEF Listing!Finish
    <3>2. jobs[i] # Listing!Absent
      BY <3>1 DEF Listing!Absent
    <3> QED BY <1>1, <3>1, <3>2
  <2>2. row \in Listing!Row /\ row.status = "Done" /\ row.done_at = d /\ d # Null
    BY <1>1, <2>1 DEF Listing!Row
  <2> HIDE DEF row
  <2> QED BY <2>1, <2>2, WriteStep
<1>4. ASSUME Listing!Purge(i) PROVE ListingInv'
  <2>1. jobs[i].status = "Done" /\ Listing!Write(i, Listing!Absent) /\ Listing!Absent.status = "Absent"
    BY <1>4 DEF Listing!Purge, Listing!Absent
  <2> QED BY <2>1, WriteStep
<1> QED BY <1>2, <1>3, <1>4

\* Whatever the table, the page size and the writes between two pages
\* (list_tasks, list_all_tasks): a walk shows no row twice while nothing moves and
\* hides none while nothing leaves, an answered page has the length its place
\* gives it (filter_offset_i32), and a page fails only for a row of its own.
THEOREM ListingsExact ==
  ASSUME Listing!ListingAssumption
  PROVE  Listing!Spec => [](/\ Listing!TypeOK /\ Listing!WalkExact
                            /\ Listing!PageInRange /\ Listing!FailureForCause)
<1>1. Listing!Init => ListingInv
  <2> SUFFICES ASSUME Listing!Init PROVE ListingInv
    OBVIOUS
  <2>1. walk.state = "idle" /\ reply.call = "none" /\ 0 \in 0 .. MaxWrites
    BY DEF Listing!Init, Listing!Idle, Listing!ListingAssumption
  <2>2. Listing!TypeOK
    BY <2>1 DEF Listing!Init, Listing!TypeOK
  <2>3. WalkInv /\ Listing!WalkExact
    BY <2>1 DEF Listing!Init, WalkInv, Listing!WalkExact
  <2>4. Listing!PageInRange /\ Listing!FailureForCause
    BY <2>1 DEF Listing!PageInRange, Listing!FailureForCause
  <2> QED BY <2>2, <2>3, <2>4 DEF ListingInv
<1>2. ListingInv /\ [Listing!Next]_Listing!vars => ListingInv'
  <2> SUFFICES ASSUME ListingInv, [Listing!Next]_Listing!vars PROVE ListingInv'
    OBVIOUS
  <2>1. ASSUME NEW scope \in Queue \union {All}, NEW status \in {"Pending", "Done"},
               NEW limit \in PageSize, NEW page \in Page, Listing!ListTasks(scope, status, limit, page)
        PROVE  ListingInv'
    BY <2>1, ListStep
  <2>2. ASSUME NEW scope \in Queue \union {All}, NEW status \in {"Pending", "Done"},
               NEW size \in PageSize, Listing!StartWalk(scope, status, size)
        PROVE  ListingInv'
    BY <2>2, StartWalkStep
  <2>3. ASSUME NEW q \in Queue, NEW i \in Id, Listing!FetchById(q, i) PROVE ListingInv'
    BY <2>3, FetchStep
  <2>4. CASE Listing!NextPage
    BY <2>4, NextPageStep
  <2>5. CASE Listing!EndWalk
    BY <2>5, EndWalkStep
  <2>6. ASSUME NEW i \in Id,
               \/ \E q \in Queue, r \in RunAt, shape \in Listing!Shape : Listing!Enqueue(i, q, r, shape)
               \/ \E d \in DoneAt : Listing!Finish(i, d)
               \/ Listing!Purge(i)
        PROVE  ListingInv'
    BY <2>6, WritersStep
  <2>7. CASE UNCHANGED Listing!vars
    <3>1. jobs' = jobs /\ walk' = walk /\ writes' = writes /\ reply' = reply
      BY <2>7 DEF Listing!vars
    <3>2. Listing!TypeOK' /\ WalkInv' /\ Listing!WalkExact'
      BY <3>1, ReadStep
    <3>3. Listing!PageInRange' /\ Listing!FailureForCause'
      BY <3>1
      DEF ListingInv, Listing!PageInRange, Listing!FailureForCause, Listing!Matching,
          Listing!MatchingIn
    <3> QED BY <3>2, <3>3 DEF ListingInv
  <2> QED BY <2>1, <2>2, <2>3, <2>4, <2>5, <2>6, <2>7 DEF Listing!Next
<1>3. ListingInv => /\ Listing!TypeOK /\ Listing!WalkExact
                    /\ Listing!PageInRange /\ Listing!FailureForCause
  BY DEF ListingInv
<1> QED BY <1>1, <1>2, <1>3, PTL DEF Listing!Spec

-----------------------------------------------------------------------------
\* QueueStats.

\* A row names its claimant as long as it is claimed, and only a registration of
\* its own queue.
ClaimantsKnown ==
  \A t \in Task : jobs[t] # Stats!Absent =>
    /\ jobs[t].status \in {"Queued", "Running"} => jobs[t].lock_by # Null
    /\ jobs[t].lock_by # Null =>
         jobs[t].lock_by \in registered /\ QueueOf[jobs[t].lock_by] = jobs[t].queue

\* A refresher that will run CONCURRENTLY found the view populated, and a view
\* stays so.
StatementFits ==
  /\ refresh \in [Refresher -> {"idle", "blocking", "concurrently"}]
  /\ \A r \in Refresher : refresh[r] = "concurrently" => populated
  /\ rejected = {}

StatsInv == Stats!TypeOK /\ ClaimantsKnown /\ StatementFits

-----------------------------------------------------------------------------
\* The answers.

LEMMA TasksFinite ==
  ASSUME Stats!StatsAssumption
  PROVE  IsFiniteSet(Task)
<1>1. Stats!IsFiniteSet(Task) = IsFiniteSet(Task)
  BY DEF Stats!IsFiniteSet, IsFiniteSet
<1> QED BY <1>1 DEF Stats!StatsAssumption

LEMMA CountType ==
  ASSUME Stats!StatsAssumption, NEW S \in SUBSET Task
  PROVE  Stats!Count(S) \in Nat
<1>1. Stats!Cardinality(S) = Cardinality(S)
  BY DEF Stats!Cardinality, Cardinality
<1>2. IsFiniteSet(S)
  BY TasksFinite, FS_Subset
<1> QED BY <1>1, <1>2, FS_CardinalityType DEF Stats!Count

LEMMA SubsetsOfTask ==
  ASSUME NEW q
  PROVE  Stats!In(q) \in SUBSET Task /\ \A t \in Stats!In(q) : jobs[t] # Stats!Absent /\ jobs[t].queue = q
BY DEF Stats!In, Stats!Rows

\* The newest run_at of rows that exist is a time.
LEMMA NewestIsTime ==
  ASSUME Stats!StatsAssumption, Stats!TypeOK, NEW q, Stats!In(q) # {}
  PROVE  Stats!MaxRunAt(Stats!In(q)) \in Nat
<1> DEFINE T == {jobs[t].run_at : t \in Stats!In(q)}
<1>1. Stats!In(q) \in SUBSET Task /\ \A t \in Stats!In(q) : jobs[t] # Stats!Absent
  BY SubsetsOfTask
<1>2. T \in SUBSET Nat
  BY <1>1 DEF Stats!TypeOK, Stats!Row
<1>3. IsFiniteSet(Stats!In(q))
  BY <1>1, TasksFinite, FS_Subset
<1>4. IsFiniteSet(T)
  <2> DEFINE f == [t \in Stats!In(q) |-> jobs[t].run_at]
  <2>1. f \in [Stats!In(q) -> T] /\ \A x \in T : \E t \in Stats!In(q) : f[t] = x
    OBVIOUS
  <2> HIDE DEF f, T
  <2>2. f \in Surjection(Stats!In(q), T)
    BY <2>1 DEF Surjection
  <2> QED BY <1>3, <2>2, FS_Surjection
<1>5. T # {}
  OBVIOUS
<1> HIDE DEF T
<1>6. Stats!Max(T) \in T
  BY <1>2, <1>4, <1>5, Greatest DEF Stats!Max
<1> QED BY <1>2, <1>6 DEF Stats!MaxRunAt, T

Counted == {"RUNNING_JOBS", "PENDING_JOBS", "FAILED_JOBS", "ACTIVE_JOBS", "JOBS_PAST_HOUR",
            "TOTAL_JOBS", "DONE_JOBS", "KILLED_JOBS", "JOBS_PAST_7_DAYS"}

\* A queue with rows is listed with its whole rollup.
LEMMA ListedStats ==
  ASSUME Stats!StatsAssumption, NEW q \in Stats!AllJobTypes, Stats!In(q) # {}
  PROVE  /\ Stats!ListQueues[q].stats = Stats!Rendered(Stats!JobRollup(Stats!In(q)))
         /\ "TOTAL_JOBS" \in DOMAIN Stats!ListQueues[q].stats
<1> DEFINE stats == Stats!Rendered(Stats!JobRollup(Stats!In(q)))
<1>1. \A s \in DOMAIN stats : stats[s] # Null
  BY DEF Stats!Rendered, Stats!StatsAssumption
<1>2. "TOTAL_JOBS" \in DOMAIN stats
  BY DEF Stats!Rendered, Stats!JobRollup
<1> HIDE DEF stats
<1>3. Stats!Decoded(stats) = stats
  BY <1>1 DEF Stats!Decoded
<1>4. Stats!ListQueues[q].stats = stats
  BY <1>3 DEF Stats!ListQueues, stats
<1> QED BY <1>2, <1>4 DEF stats

LEMMA NeverDropped ==
  ASSUME Stats!StatsAssumption
  PROVE  Stats!StatsNeverDropped
<1>1. DOMAIN Stats!ListQueues = Stats!AllJobTypes
  BY DEF Stats!ListQueues
<1>2. ASSUME NEW q \in Stats!AllJobTypes, Stats!In(q) # {} PROVE Stats!ListQueues[q].stats # << >>
  <2>1. "TOTAL_JOBS" \in DOMAIN Stats!ListQueues[q].stats
    BY <1>2, ListedStats
  <2> QED BY <2>1
<1> QED BY <1>1, <1>2 DEF Stats!StatsNeverDropped

Shared == Counted \union {"STALE_RUNNING_JOBS", "KILL_RATE", "JOBS_TODAY", "KILLED_JOBS_TODAY",
                          "AVG_JOBS_PER_MINUTE_PAST_HOUR", "SUCCESS_RATE",
                          "AVG_JOB_DURATION_MINS", "LONGEST_RUNNING_JOB_MINS"}

\* The two rollups count the same rows in the same way.
LEMMA SameRollup ==
  ASSUME NEW S
  PROVE  /\ DOMAIN Stats!JobRollup(S) = Shared \union {"MOST_RECENT_JOB"}
         /\ Shared \union {"MOST_RECENT_JOB"} \subseteq DOMAIN Stats!MetricsRollup(S)
         /\ \A s \in Shared : Stats!JobRollup(S)[s] = Stats!MetricsRollup(S)[s]
         /\ Stats!JobRollup(S).MOST_RECENT_JOB = Stats!As("text", Stats!MaxRunAt(S))
         /\ Stats!MetricsRollup(S).MOST_RECENT_JOB = Stats!As("epoch", Stats!MaxRunAt(S))
<1> DEFINE J == Stats!JobRollup(S)
           M == Stats!MetricsRollup(S)
<1>1. /\ DOMAIN J = Shared \union {"MOST_RECENT_JOB"}
      /\ J.MOST_RECENT_JOB = Stats!As("text", Stats!MaxRunAt(S))
  BY DEF Stats!JobRollup, Shared, Counted
<1>2. /\ Shared \union {"MOST_RECENT_JOB"} \subseteq DOMAIN M
      /\ M.MOST_RECENT_JOB = Stats!As("epoch", Stats!MaxRunAt(S))
  BY DEF Stats!MetricsRollup, Shared, Counted
<1>3. \A s \in Counted : J[s] = M[s]
  <2>1. {"Pending", "Queued", "Running"} = {"Pending", "Running", "Queued"}
    OBVIOUS
  <2> QED BY <2>1 DEF Stats!JobRollup, Stats!MetricsRollup, Counted
<1>4. J.KILLED_JOBS_TODAY = M.KILLED_JOBS_TODAY
  <2>1. Stats!Having(Stats!Today(S), {"Killed"}) = Stats!Today(Stats!Having(S, {"Killed"}))
    BY DEF Stats!Having, Stats!Today
  <2> QED BY <2>1 DEF Stats!JobRollup, Stats!MetricsRollup
<1>5. J.STALE_RUNNING_JOBS = M.STALE_RUNNING_JOBS
  BY DEF Stats!JobRollup, Stats!MetricsRollup, Stats!StaleRunning
<1>6. /\ J.KILL_RATE = M.KILL_RATE /\ J.SUCCESS_RATE = M.SUCCESS_RATE
      /\ J.JOBS_TODAY = M.JOBS_TODAY
      /\ J.AVG_JOBS_PER_MINUTE_PAST_HOUR = M.AVG_JOBS_PER_MINUTE_PAST_HOUR
      /\ J.AVG_JOB_DURATION_MINS = M.AVG_JOB_DURATION_MINS
      /\ J.LONGEST_RUNNING_JOB_MINS = M.LONGEST_RUNNING_JOB_MINS
  BY DEF Stats!JobRollup, Stats!MetricsRollup
<1> HIDE DEF J, M
<1>7. \A s \in Shared : J[s] = M[s]
  BY <1>3, <1>4, <1>5, <1>6 DEF Shared
<1> QED BY <1>1, <1>2, <1>7 DEF J, M

LEMMA PagesDoAgree ==
  ASSUME Stats!StatsAssumption, Stats!TypeOK
  PROVE  Stats!PagesAgree
<1>1. DOMAIN Stats!ListQueues = Stats!AllJobTypes
  BY DEF Stats!ListQueues
<1>2. ASSUME NEW q \in Stats!AllJobTypes, NEW s \in DOMAIN Stats!ListQueues[q].stats
      PROVE  IF s = "MOST_RECENT_JOB" THEN Stats!ListQueues[q].stats[s][2] = Stats!MetricsForQueue(q)[s][2]
             ELSE Stats!ListQueues[q].stats[s] = Stats!MetricsForQueue(q)[s]
  <2> DEFINE J == Stats!JobRollup(Stats!In(q))
             M == Stats!MetricsRollup(Stats!In(q))
             newest == Stats!MaxRunAt(Stats!In(q))
  <2>1. Stats!In(q) # {}
    <3> SUFFICES ASSUME Stats!In(q) = {} PROVE FALSE
      OBVIOUS
    <3>1. Stats!ListQueues[q].stats = << >>
      BY DEF Stats!ListQueues
    <3> QED BY <1>2, <3>1
  <2>2. Stats!ListQueues[q].stats = Stats!Rendered(J) /\ Stats!MetricsForQueue(q) = Stats!Rendered(M)
    BY <2>1, ListedStats DEF Stats!MetricsForQueue
  <2>3. /\ DOMAIN J = Shared \union {"MOST_RECENT_JOB"} /\ DOMAIN J \subseteq DOMAIN M
        /\ \A x \in Shared : J[x] = M[x]
        /\ J["MOST_RECENT_JOB"] = Stats!As("text", newest) /\ M["MOST_RECENT_JOB"] = Stats!As("epoch", newest)
    BY SameRollup
  <2>4. newest \in Nat
    BY <2>1, NewestIsTime
  <2> HIDE DEF J, M, newest
  <2>5. /\ s \in DOMAIN J /\ s \in DOMAIN M
        /\ Stats!ListQueues[q].stats[s] = IF J[s] = Null THEN 0 ELSE J[s]
        /\ Stats!MetricsForQueue(q)[s] = IF M[s] = Null THEN 0 ELSE M[s]
    BY <1>2, <2>2, <2>3 DEF Stats!Rendered
  <2>6. CASE s = "MOST_RECENT_JOB"
    <3>1. /\ newest # Null /\ <<"text", newest>> # Null /\ <<"epoch", newest>> # Null
      BY <2>4 DEF Stats!StatsAssumption
    <3>2. J[s] = <<"text", newest>> /\ M[s] = <<"epoch", newest>>
      BY <2>3, <2>6, <3>1 DEF Stats!As
    <3>3. Stats!ListQueues[q].stats[s] = <<"text", newest>> /\ Stats!MetricsForQueue(q)[s] = <<"epoch", newest>>
      BY <2>5, <3>1, <3>2
    <3> QED BY <2>6, <3>3
  <2>7. CASE s # "MOST_RECENT_JOB"
    BY <2>3, <2>5, <2>7
  <2> QED BY <2>6, <2>7
<1>3. \A q \in Stats!AllJobTypes : [x \in Stats!AllJobTypes |-> Stats!MetricsForQueue(x)][q] = Stats!MetricsForQueue(q)
  OBVIOUS
<1> QED BY <1>1, <1>2, <1>3 DEF Stats!PagesAgree

\* A queue shows who works for it.
LEMMA WorkersAreListed ==
  ASSUME Stats!StatsAssumption, StatsInv
  PROVE  Stats!WorkersListed
<1>1. /\ DOMAIN Stats!ListQueues = Stats!AllJobTypes
      /\ \A q \in Stats!AllJobTypes : Stats!ListQueues[q].workers = Stats!LockedWorkers(q)
  BY DEF Stats!ListQueues
<1>2. ASSUME NEW q \in Stats!AllJobTypes, NEW w \in Stats!LockedWorkers(q)
      PROVE  w \in registered /\ QueueOf[w] = q
  <2>1. PICK t \in Stats!In(q) : w = jobs[t].lock_by /\ w # Null
    BY <1>2 DEF Stats!LockedWorkers, Stats!Having
  <2> QED BY <2>1, SubsetsOfTask DEF StatsInv, ClaimantsKnown
<1>3. \A w \in registered : QueueOf[w] \in Stats!AllJobTypes
  BY DEF Stats!AllJobTypes
<1>4. ASSUME NEW t \in Stats!Rows, jobs[t].status \in {"Queued", "Running"}
      PROVE  jobs[t].queue \in Stats!AllJobTypes /\ jobs[t].lock_by \in Stats!LockedWorkers(jobs[t].queue)
  <2>1. t \in Task /\ jobs[t] # Stats!Absent /\ jobs[t].queue \in Stats!AllJobTypes /\ t \in Stats!In(jobs[t].queue)
    BY DEF Stats!Rows, Stats!AllJobTypes, Stats!In
  <2>2. jobs[t].lock_by # Null
    BY <1>4, <2>1 DEF StatsInv, ClaimantsKnown
  <2> QED BY <1>4, <2>1, <2>2 DEF Stats!LockedWorkers, Stats!Having
<1> QED BY <1>1, <1>2, <1>3, <1>4 DEF Stats!WorkersListed

-----------------------------------------------------------------------------
\* The steps.

\* A write of one row keeps the invariant when the row does.
LEMMA SetRowStep ==
  ASSUME Stats!StatsAssumption, StatsInv, NEW t \in Task, NEW row \in Stats!Row \union {Stats!Absent}, Stats!SetRow(t, row),
         row # Stats!Absent =>
           /\ row.status \in {"Pending", "Queued", "Running"} => row.done_at = Null
           /\ row.status \in {"Queued", "Running"} => row.lock_by # Null
           /\ row.lock_by # Null => row.lock_by \in registered /\ QueueOf[row.lock_by] = row.queue
  PROVE  StatsInv'
<1>1. /\ jobs \in [Task -> Stats!Row \union {Stats!Absent}] /\ jobs' = [jobs EXCEPT ![t] = row]
      /\ registered' = registered /\ now' = now /\ populated' = populated
      /\ refresh' = refresh /\ rejected' = rejected
  BY DEF StatsInv, Stats!TypeOK, Stats!SetRow, Stats!snapVars
<1>2. jobs' \in [Task -> Stats!Row \union {Stats!Absent}] /\ jobs'[t] = row /\ \A u \in Task : u # t => jobs'[u] = jobs[u]
  BY <1>1
<1>3. Stats!TypeOK'
  <2>1. \A u \in Task : jobs'[u] # Stats!Absent /\ jobs'[u].status \in {"Pending", "Queued", "Running"}
                          => jobs'[u].done_at = Null
    BY <1>2 DEF StatsInv, Stats!TypeOK, Stats!Rows
  <2> QED BY <1>1, <1>2, <2>1 DEF StatsInv, Stats!TypeOK, Stats!Rows
<1>4. ClaimantsKnown'
  BY <1>1, <1>2 DEF StatsInv, ClaimantsKnown
<1>5. StatementFits'
  BY <1>1 DEF StatsInv, StatementFits
<1> QED BY <1>3, <1>4, <1>5 DEF StatsInv

LEMMA RowFacts ==
  ASSUME Stats!StatsAssumption, StatsInv, NEW t \in Task,
         jobs[t].status \in Stats!Status
  PROVE  /\ jobs[t] \in Stats!Row /\ jobs[t] # Stats!Absent
         /\ jobs[t].lock_by # Null =>
              jobs[t].lock_by \in registered /\ QueueOf[jobs[t].lock_by] = jobs[t].queue
         /\ jobs[t].status \in {"Pending", "Queued", "Running"} => jobs[t].done_at = Null
         /\ jobs[t].status \in {"Queued", "Running"} => jobs[t].lock_by # Null
<1>1. jobs[t] # Stats!Absent
  BY DEF Stats!Status, Stats!Absent
<1>2. jobs[t] \in Stats!Row
  BY <1>1 DEF StatsInv, Stats!TypeOK
<1> QED BY <1>1, <1>2 DEF StatsInv, ClaimantsKnown, Stats!TypeOK, Stats!Rows

LEMMA RowStep ==
  ASSUME Stats!StatsAssumption, StatsInv, NEW t \in Task,
         \/ \E q \in Queue, d \in Delay : Stats!Enqueue(t, q, d)
         \/ \E w \in Worker : Stats!Claim(t, w)
         \/ Stats!Start(t)
         \/ \E s \in {"Done", "Failed", "Killed"} : Stats!Ack(t, s)
         \/ \E dead \in BOOLEAN : Stats!Recover(t, dead)
         \/ Stats!Purge(t)
  PROVE  StatsInv'
<1> DEFINE old == jobs[t]
<1>0. now \in Nat /\ registered \subseteq Worker /\ Null \notin Worker
  BY DEF StatsInv, Stats!TypeOK, Stats!StatsAssumption
<1>1. ASSUME NEW q \in Queue, NEW d \in Delay, Stats!Enqueue(t, q, d) PROVE StatsInv'
  <2> DEFINE row == [queue |-> q, status |-> "Pending", run_at |-> now + d, done_at |-> Null,
                     lock_by |-> Null]
  <2>1. Stats!SetRow(t, row) /\ now + d \in Nat
    BY <1>0, <1>1 DEF Stats!Enqueue, Stats!StatsAssumption
  <2>2. row \in Stats!Row
    BY <2>1 DEF Stats!Row, Stats!Status
  <2> QED BY <2>1, <2>2, SetRowStep
<1>2. ASSUME NEW w \in Worker, Stats!Claim(t, w) PROVE StatsInv'
  <2> DEFINE row == [old EXCEPT !.status = "Queued", !.lock_by = w, !.done_at = Null]
  <2>1. Stats!SetRow(t, row) /\ w \in registered /\ QueueOf[w] = old.queue /\ old.status \in Stats!Status /\ w # Null
    BY <1>0, <1>2 DEF Stats!Claim, Stats!Status
  <2>2. old \in Stats!Row
    BY <2>1, RowFacts
  <2>3. /\ row \in Stats!Row /\ row.status = "Queued" /\ row.lock_by = w /\ row.done_at = Null
        /\ row.queue = old.queue
    BY <2>2 DEF Stats!Row, Stats!Status
  <2> HIDE DEF row
  <2> QED BY <2>1, <2>3, SetRowStep
<1>3. ASSUME Stats!Start(t) PROVE StatsInv'
  <2> DEFINE row == [old EXCEPT !.status = "Running"]
  <2>1. Stats!SetRow(t, row) /\ old.status = "Queued"
    BY <1>3 DEF Stats!Start
  <2>2. /\ old \in Stats!Row /\ old.done_at = Null /\ old.lock_by # Null
        /\ old.lock_by \in registered /\ QueueOf[old.lock_by] = old.queue
    BY <2>1, RowFacts DEF Stats!Status
  <2>3. /\ row \in Stats!Row /\ row.lock_by = old.lock_by /\ row.done_at = old.done_at
        /\ row.queue = old.queue
    BY <2>2 DEF Stats!Row, Stats!Status
  <2> HIDE DEF row, old
  <2> QED BY <2>1, <2>2, <2>3, SetRowStep
<1>4. ASSUME NEW s \in {"Done", "Failed", "Killed"}, Stats!Ack(t, s) PROVE StatsInv'
  <2> DEFINE row == [old EXCEPT !.status = s, !.done_at = now]
  <2>1. Stats!SetRow(t, row) /\ old.status = "Running"
    BY <1>4 DEF Stats!Ack
  <2>2. /\ old \in Stats!Row
        /\ old.lock_by \in registered /\ QueueOf[old.lock_by] = old.queue
    BY <2>1, RowFacts DEF Stats!Status
  <2>3. /\ row \in Stats!Row /\ row.lock_by = old.lock_by /\ row.status = s /\ row.queue = old.queue
    BY <1>0, <2>2 DEF Stats!Row, Stats!Status
  <2> HIDE DEF row, old
  <2> QED BY <2>1, <2>2, <2>3, SetRowStep
<1>5. ASSUME NEW dead \in BOOLEAN, Stats!Recover(t, dead) PROVE StatsInv'
  <2> DEFINE row == [old EXCEPT !.status = IF dead THEN "Killed" ELSE "Pending", !.lock_by = Null,
                                !.done_at = IF dead THEN now ELSE Null]
  <2>1. Stats!SetRow(t, row) /\ old.status \in {"Queued", "Running"}
    BY <1>5 DEF Stats!Recover
  <2>2. old \in Stats!Row
    BY <2>1, RowFacts DEF Stats!Status
  <2>3. /\ row \in Stats!Row /\ row.lock_by = Null
        /\ row.status = IF dead THEN "Killed" ELSE "Pending"
        /\ row.done_at = IF dead THEN now ELSE Null
    BY <1>0, <2>2 DEF Stats!Row, Stats!Status
  <2> HIDE DEF row, old
  <2> QED BY <2>1, <2>3, SetRowStep
<1>6. ASSUME Stats!Purge(t) PROVE StatsInv'
  <2>1. Stats!SetRow(t, Stats!Absent)
    BY <1>6 DEF Stats!Purge
  <2> QED BY <2>1, SetRowStep
<1> HIDE DEF old
<1> QED BY <1>1, <1>2, <1>3, <1>4, <1>5, <1>6

LEMMA OtherStep ==
  ASSUME Stats!StatsAssumption, StatsInv,
         \/ \E w \in Worker : Stats!Register(w) \/ Stats!Prune(w)
         \/ Stats!Tick
         \/ \E r \in Refresher : Stats!ChooseStatement(r) \/ Stats!RunStatement(r)
  PROVE  StatsInv'
<1>1. ASSUME NEW w \in Worker, Stats!Register(w) PROVE StatsInv'
  <2>1. /\ jobs' = jobs /\ now' = now /\ populated' = populated /\ refresh' = refresh
        /\ rejected' = rejected /\ registered' = registered \union {w}
    BY <1>1 DEF Stats!Register, Stats!snapVars
  <2> QED BY <2>1 DEF StatsInv, Stats!TypeOK, ClaimantsKnown, StatementFits, Stats!Rows
<1>2. ASSUME NEW w \in Worker, Stats!Prune(w) PROVE StatsInv'
  <2>1. /\ jobs' = jobs /\ now' = now /\ populated' = populated /\ refresh' = refresh
        /\ rejected' = rejected /\ registered' = registered \ {w}
        /\ \A t \in Task : jobs[t] # Stats!Absent => jobs[t].lock_by # w
    BY <1>2 DEF Stats!Prune, Stats!snapVars, Stats!Rows
  <2> QED BY <2>1 DEF StatsInv, Stats!TypeOK, ClaimantsKnown, StatementFits, Stats!Rows
<1>3. ASSUME Stats!Tick PROVE StatsInv'
  <2>1. /\ jobs' = jobs /\ populated' = populated /\ refresh' = refresh
        /\ rejected' = rejected /\ registered' = registered /\ now' \in 0 .. MaxTime
    BY <1>3 DEF Stats!Tick, Stats!snapVars, StatsInv, Stats!TypeOK, Stats!StatsAssumption
  <2> QED BY <2>1 DEF StatsInv, Stats!TypeOK, ClaimantsKnown, StatementFits, Stats!Rows
<1>4. ASSUME NEW r \in Refresher, Stats!ChooseStatement(r) PROVE StatsInv'
  <2>1. /\ jobs' = jobs /\ now' = now /\ registered' = registered /\ populated' = populated
        /\ rejected' = rejected
        /\ refresh' = [refresh EXCEPT ![r] = IF populated THEN "concurrently" ELSE "blocking"]
    BY <1>4 DEF Stats!ChooseStatement, Stats!tableVars
  <2>2. StatementFits'
    BY <2>1 DEF StatsInv, StatementFits
  <2> QED BY <2>1, <2>2 DEF StatsInv, Stats!TypeOK, ClaimantsKnown, Stats!Rows
<1>5. ASSUME NEW r \in Refresher, Stats!RunStatement(r) PROVE StatsInv'
  <2>1. refresh[r] = "concurrently" => populated
    BY DEF StatsInv, StatementFits
  <2>2. /\ jobs' = jobs /\ now' = now /\ registered' = registered /\ populated'
        /\ rejected' = rejected /\ refresh' = [refresh EXCEPT ![r] = "idle"]
    BY <1>5, <2>1 DEF Stats!RunStatement, Stats!tableVars
  <2>3. StatementFits'
    BY <2>2 DEF StatsInv, StatementFits
  <2> QED BY <2>2, <2>3 DEF StatsInv, Stats!TypeOK, ClaimantsKnown, Stats!Rows
<1> QED BY <1>1, <1>2, <1>3, <1>4, <1>5

LEMMA StatsStep ==
  ASSUME Stats!StatsAssumption, StatsInv, [Stats!Next]_Stats!vars
  PROVE  StatsInv'
<1>1. CASE UNCHANGED Stats!vars
  BY <1>1 DEF Stats!vars, StatsInv, Stats!TypeOK, ClaimantsKnown, StatementFits, Stats!Rows
<1>2. CASE Stats!Next
  BY <1>2, RowStep, OtherStep DEF Stats!Next
<1> QED BY <1>1, <1>2

LEMMA StatsInit ==
  ASSUME Stats!StatsAssumption, Stats!Init
  PROVE  StatsInv
<1>1. Stats!TypeOK
  BY DEF Stats!Init, Stats!TypeOK, Stats!Rows, Stats!StatsAssumption
<1>2. ClaimantsKnown /\ StatementFits
  BY DEF Stats!Init, ClaimantsKnown, StatementFits
<1> QED BY <1>1, <1>2 DEF StatsInv

\* What list_queues and metrics report of a queue agrees, is never dropped and
\* names the workers that hold its tasks, and PostgreSQL never refuses
\* refresh_queue_stats_snapshot, for any tasks, queues, workers and refreshers.
THEOREM StatsAreSound ==
  ASSUME Stats!StatsAssumption
  PROVE  Stats!Spec => [](/\ Stats!TypeOK /\ Stats!StatsNeverDropped /\ Stats!PagesAgree
                          /\ Stats!WorkersListed /\ Stats!RefreshAccepted)
<1>1. Stats!Init => StatsInv
  BY StatsInit
<1>2. StatsInv /\ [Stats!Next]_Stats!vars => StatsInv'
  BY StatsStep
<1>3. StatsInv => /\ Stats!TypeOK /\ Stats!StatsNeverDropped /\ Stats!PagesAgree
                  /\ Stats!WorkersListed /\ Stats!RefreshAccepted
  <2> SUFFICES ASSUME StatsInv
               PROVE  /\ Stats!TypeOK /\ Stats!StatsNeverDropped /\ Stats!PagesAgree
                      /\ Stats!WorkersListed /\ Stats!RefreshAccepted
    OBVIOUS
  <2>1. Stats!TypeOK /\ Stats!RefreshAccepted
    BY DEF StatsInv, StatementFits, Stats!RefreshAccepted
  <2> QED BY <2>1, NeverDropped, PagesDoAgree, WorkersAreListed
<1> QED BY <1>1, <1>2, <1>3, PTL DEF Stats!Spec

-----------------------------------------------------------------------------
\* The snapshot.

\* The view's columns are counts that list_queues reports as well.
LEMMA SnapshotColumns ==
  ASSUME Stats!StatsAssumption, NEW q \in Stats!AllJobTypes, Stats!In(q) # {}
  PROVE  /\ DOMAIN Stats!SnapshotRow(Stats!In(q)) = Counted
         /\ \A s \in Counted : Stats!SnapshotRow(Stats!In(q))[s] = Stats!ListQueues[q].stats[s]
<1> DEFINE S == Stats!In(q)
           J == Stats!JobRollup(S)
           V == Stats!SnapshotRow(S)
<1>1. /\ \A statuses : Stats!Having(S, statuses) \in SUBSET Task
      /\ \A span : Stats!Since(S, span) \in SUBSET Task /\ S \in SUBSET Task
  BY SubsetsOfTask DEF Stats!Having, Stats!Since
<1>2. /\ \A statuses : Stats!Count(Stats!Having(S, statuses)) \in Nat
      /\ \A span : Stats!Count(Stats!Since(S, span)) \in Nat
      /\ Stats!Count(S) \in Nat
  BY <1>1, CountType
<1> HIDE DEF S
<1>3. DOMAIN V = Counted /\ Counted \subseteq DOMAIN J
  BY DEF Stats!SnapshotRow, Stats!JobRollup, Counted
<1>4. \A s \in Counted : V[s] = J[s]
  BY DEF Stats!SnapshotRow, Stats!JobRollup, Counted
<1>5. \A s \in Counted : V[s] \in Nat
  BY <1>2 DEF Stats!SnapshotRow, Counted
<1> HIDE DEF V, J
<1>6. Stats!ListQueues[q].stats = Stats!Rendered(J)
  BY ListedStats DEF J, S
<1>7. \A s \in Counted : J[s] # Null
  BY <1>4, <1>5 DEF Stats!StatsAssumption
<1>8. \A s \in Counted : Stats!Rendered(J)[s] = J[s]
  BY <1>3, <1>7 DEF Stats!Rendered
<1> QED BY <1>3, <1>4, <1>6, <1>8 DEF V, S

\* A refreshed snapshot shows what list_queues shows at that moment
\* (refresh_queue_stats_snapshot).
THEOREM SnapshotIsExact ==
  ASSUME Stats!StatsAssumption
  PROVE  Stats!Spec => [][Stats!RefreshAgrees]_Stats!vars
<1>1. ASSUME NEW r \in Refresher, Stats!RunStatement(r), r \notin rejected'
      PROVE  \A q \in DOMAIN snapshot' : \A s \in DOMAIN snapshot'[q] :
               snapshot'[q][s] = Stats!ListQueues[q].stats[s]
  <2>1. snapshot' = [q \in {jobs[t].queue : t \in Stats!Rows} |-> Stats!SnapshotRow(Stats!In(q))]
    BY <1>1 DEF Stats!RunStatement
  <2>2. ASSUME NEW q \in {jobs[t].queue : t \in Stats!Rows}
        PROVE  \A s \in DOMAIN Stats!SnapshotRow(Stats!In(q)) : Stats!SnapshotRow(Stats!In(q))[s] = Stats!ListQueues[q].stats[s]
    <3>1. q \in Stats!AllJobTypes /\ Stats!In(q) # {}
      BY DEF Stats!AllJobTypes, Stats!In
    <3> QED BY <3>1, SnapshotColumns
  <2> QED BY <2>1, <2>2
<1>2. Stats!RefreshAgrees
  BY <1>1 DEF Stats!RefreshAgrees
<1> QED BY <1>2, PTL DEF Stats!Spec

=============================================================================
