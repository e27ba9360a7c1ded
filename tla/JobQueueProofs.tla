--------------------------- MODULE JobQueueProofs ---------------------------
(***************************************************************************)
(* Proofs of the invariants of JobQueue for every set of tasks, names,     *)
(* storages and claims, every retry budget and every stale deadline.       *)
(***************************************************************************)
EXTENDS JobQueue, TLAPS

-----------------------------------------------------------------------------
(* Type correctness. *)

\* The claim timestamp is a whole number of seconds.
LEMMA ThisSecondType ==
  ASSUME now \in Nat
  PROVE  ThisSecond \in Nat
BY ClockAssumption, Z3 DEF ThisSecond

\* Charging a row of the table keeps its counter a natural number.
LEMMA ChargedType ==
  ASSUME TypeOK, NEW t \in Task
  PROVE  Charged(t) \in Nat
BY BudgetAssumption DEF TypeOK, JobRow, Charged

\* recover_owned yields rows of the table, whatever statuses it charges.
LEMMA RecoveredType ==
  ASSUME TypeOK, NEW t \in Task, NEW C
  PROVE  Recovered(t, C) \in JobRow
<1> DEFINE next == IF jobs[t].status \in C THEN Charged(t) ELSE jobs[t].attempts
           dead == next >= MaxAttempts[t]
<1>1. next \in Nat /\ jobs[t] \in JobRow
  BY ChargedType DEF TypeOK, JobRow
<1>2. CASE dead
  BY <1>1, <1>2 DEF Recovered, JobRow, Status
<1>3. CASE ~dead
  BY <1>1, <1>3 DEF Recovered, JobRow, Status
<1> QED BY <1>2, <1>3

\* Recovering a set of rows keeps the table a table.
LEMMA RecoverOwnedType ==
  ASSUME TypeOK, NEW S, NEW C, RecoverOwned(S, C)
  PROVE  jobs' \in [Task -> JobRow]
BY RecoveredType DEF TypeOK, RecoverOwned

\* Writing one row keeps the table a table.
LEMMA WriteRowType ==
  ASSUME TypeOK, NEW t \in Task, NEW r \in JobRow, WriteRow(t, r)
  PROVE  jobs' \in [Task -> JobRow]
BY DEF TypeOK, WriteRow

\* Retirement concerns storages only: a caller without a token has no lease.
LEMMA RetireType ==
  ASSUME TypeOK, NEW s \in Caller, NEW n \in Name
  PROVE  Retire(s, n) \in SUBSET (Storage \X Name)
BY CallerAssumption DEF TypeOK, Retire

\* A claim record made from a row of the table is a claim record.
LEMMA NewClaimType ==
  ASSUME TypeOK, NEW s \in Caller, NEW n \in Name, NEW t \in Task,
         NEW a \in Nat \union {None}, NEW g \in Stage
  PROVE  NewClaim(s, n, t, a, g) \in ClaimRecord
BY DEF TypeOK, JobRow, NewClaim, ClaimRecord

\* A held claim is a claim record.
LEMMA HeldType ==
  ASSUME TypeOK, NEW c \in Claim, Held(c)
  PROVE  claims[c] \in ClaimRecord
BY DEF TypeOK, Held

\* The history counter stays a counter.
LEMMA CountStartType ==
  ASSUME TypeOK, NEW t \in Task, CountStart(t)
  PROVE  starts' \in [Task -> Nat]
<1>1. starts[t] \in Nat
  BY DEF TypeOK
<1> QED BY <1>1 DEF TypeOK, CountStart

\* Type correctness of the steps that concern a row alone.
LEMMA TypeRow ==
  ASSUME TypeOK, NEW t \in Task, RowStep(t)
  PROVE  TypeOK'
<1>1. ASSUME NEW d \in Delay, Enqueue(t, d) PROVE TypeOK'
  <2>1. now + d \in Nat /\ jobs[t] \in JobRow
    BY ClockAssumption DEF TypeOK
  <2>2. [jobs[t] EXCEPT !.status = "Pending", !.run_at = now + d] \in JobRow
    BY <2>1 DEF JobRow, Status
  <2>3. jobs' \in [Task -> JobRow]
    BY <1>1, <2>2, WriteRowType DEF Enqueue
  <2> QED BY <1>1, <2>3 DEF TypeOK, Enqueue, memVars
<1>2. CASE Purge(t)
  <2>1. [jobs[t] EXCEPT !.status = "Purged", !.lock_by = None, !.lock_at = None,
                        !.done_at = "null"] \in JobRow
    <3>1. jobs[t] \in JobRow
      BY DEF TypeOK
    <3> QED BY <3>1 DEF JobRow, Status
  <2>2. jobs' \in [Task -> JobRow]
    BY <1>2, <2>1, WriteRowType DEF Purge
  <2> QED BY <1>2, <2>2 DEF TypeOK, Purge, memVars
<1>3. CASE Sweep(t)
  BY <1>3, RecoverOwnedType DEF TypeOK, Sweep, memVars
<1> QED BY <1>1, <1>2, <1>3 DEF RowStep

\* Type correctness of the steps that concern a registration alone.
LEMMA TypeWorker ==
  ASSUME TypeOK, NEW n \in Name, WorkerStep(n)
  PROVE  TypeOK'
BY DEF TypeOK, WorkerStep, PruneWorker, AdminRegister, memVars

\* Type correctness of the steps of a storage's registration.
LEMMA TypeStorage ==
  ASSUME TypeOK, NEW s \in Storage, NEW n \in Name, StorageStep(s, n)
  PROVE  TypeOK'
<1>1. CASE \E S \in SUBSET Orphaned : StartupSweep(s, n, S)
  BY <1>1, RecoverOwnedType DEF TypeOK, StartupSweep
<1>2. CASE Register(s, n)
  BY <1>2, RecoverOwnedType DEF TypeOK, Register
<1>3. CASE RegisterRefused(s, n)
  BY <1>3 DEF TypeOK, RegisterRefused, dbVars
<1>4. CASE KeepAlive(s, n)
  BY <1>4 DEF TypeOK, KeepAlive, memVars
<1>5. CASE RetireWorker(s, n)
  BY <1>5, NullAssumption DEF TypeOK, RetireWorker, Retire, dbVars
<1>6. CASE ReleaseWorker(s, n)
  BY <1>6, RecoverOwnedType DEF TypeOK, ReleaseWorker, memVars
<1> QED BY <1>1, <1>2, <1>3, <1>4, <1>5, <1>6 DEF StorageStep

\* Type correctness of the claiming statements.
LEMMA TypeFetch ==
  ASSUME TypeOK, NEW s \in Caller, NEW n \in Name, NEW t \in Task, FetchStep(s, n, t)
  PROVE  TypeOK'
<1>0. ThisSecond \in Nat
  BY ThisSecondType DEF TypeOK
<1>r. jobs[t] \in JobRow
  BY DEF TypeOK
<1>1. Fetched(n, t) \in JobRow
  BY <1>0, <1>r DEF Fetched, JobRow, Status
<1>2. Quarantined(t) \in JobRow
  <2>1. Charged(t) \in Nat
    BY ChargedType
  <2> QED BY <1>r, <2>1 DEF Quarantined, JobRow, Status
<1>3. Locked(n, t) \in JobRow
  BY <1>0, <1>r DEF Locked, JobRow, Status
<1>4. ASSUME NEW c \in Claim, FetchNext(s, n, t, c) PROVE TypeOK'
  <2>1. jobs' \in [Task -> JobRow]
    BY <1>1, <1>4, WriteRowType DEF FetchNext
  <2>2. claims' \in [Claim -> ClaimRecord \union {NoClaim}]
    BY <1>0, <1>4, NewClaimType DEF TypeOK, FetchNext, Stage
  <2> QED BY <1>4, <2>1, <2>2 DEF TypeOK, FetchNext
<1>5. ASSUME NEW c \in Claim, LockTask(s, n, t, c) PROVE TypeOK'
  <2>1. jobs' \in [Task -> JobRow]
    BY <1>3, <1>5, WriteRowType DEF LockTask
  <2>2. Locked(n, t).lock_at \in Nat \union {None}
    BY <1>3 DEF JobRow
  <2>3. (IF jobs[t].status = "Running" THEN "relocked" ELSE "started") \in Stage
    BY DEF Stage
  <2>4. claims' \in [Claim -> ClaimRecord \union {NoClaim}]
    BY <1>5, <2>2, <2>3, NewClaimType DEF TypeOK, LockTask
  <2> QED BY <1>5, <2>1, <2>4, CountStartType DEF TypeOK, LockTask
<1>6. CASE FetchUnconfirmed(s, n, t)
  <2>1. jobs' \in [Task -> JobRow]
    BY <1>1, <1>6, WriteRowType DEF FetchUnconfirmed
  <2> QED BY <1>6, <2>1, RetireType DEF TypeOK, FetchUnconfirmed
<1>7. CASE FetchMalformed(s, n, t)
  <2>1. jobs' \in [Task -> JobRow]
    BY <1>2, <1>7, WriteRowType DEF FetchMalformed
  <2> QED BY <1>7, <2>1 DEF TypeOK, FetchMalformed, memVars
<1>8. CASE LockUnconfirmed(s, n, t)
  <2>1. jobs' \in [Task -> JobRow]
    BY <1>3, <1>8, WriteRowType DEF LockUnconfirmed
  <2> QED BY <1>8, <2>1, RetireType, CountStartType DEF TypeOK, LockUnconfirmed
<1> QED BY <1>4, <1>5, <1>6, <1>7, <1>8 DEF FetchStep

\* Type correctness of the steps of a held claim.
LEMMA TypeClaim ==
  ASSUME TypeOK, NEW c \in Claim, ClaimStep(c)
  PROVE  TypeOK'
<1>0. Held(c)
  BY DEF ClaimStep, FailUndecodable, StartTask, StartUnconfirmed, StartRefused,
         MayAck, AckTask, AckUnconfirmed, Abandon
<1> DEFINE t == claims[c].task
<1>1. /\ t \in Task /\ claims[c].name \in Name /\ claims[c].storage \in Caller
      /\ claims[c].attempts \in Nat
  BY <1>0, HeldType DEF ClaimRecord
<1>2. Retire(claims[c].storage, claims[c].name) \in SUBSET (Storage \X Name)
  BY <1>1, RetireType
<1>3. Undecodable(t) \in JobRow
  <2>1. Charged(t) \in Nat /\ jobs[t] \in JobRow
    BY <1>1, ChargedType DEF TypeOK
  <2>2. (IF jobs[t].attempts + 1 >= MaxAttempts[t] THEN "Killed" ELSE "Failed") \in Status
    BY DEF Status
  <2> QED BY <2>1, <2>2 DEF Undecodable, JobRow
<1>4. [jobs[t] EXCEPT !.status = "Running"] \in JobRow
  BY <1>1 DEF TypeOK, JobRow, Status
<1>5. \A res : Acked(claims[c], res) \in JobRow
  <2>1. claims[c].attempts + 1 \in Nat /\ jobs[t] \in JobRow
    BY <1>1 DEF TypeOK
  <2>2. \A res : CalculateStatus(t, claims[c].attempts + 1, res) \in Status
    BY DEF CalculateStatus, Status
  <2> QED BY <2>1, <2>2 DEF Acked, JobRow
<1>6. ASSUME Forget(c) PROVE claims' \in [Claim -> ClaimRecord \union {NoClaim}]
  BY <1>6 DEF TypeOK, Forget
<1>7. \A g \in Stage : [claims EXCEPT ![c].stage = g] \in [Claim -> ClaimRecord \union {NoClaim}]
  BY <1>0, HeldType DEF TypeOK, ClaimRecord
<1>8. CASE FailUndecodable(c)
  <2>1. jobs' \in [Task -> JobRow]
    BY <1>1, <1>3, <1>8, WriteRowType DEF FailUndecodable
  <2> QED BY <1>6, <1>8, <2>1 DEF TypeOK, FailUndecodable
<1>9. CASE StartTask(c)
  <2>1. jobs' \in [Task -> JobRow]
    BY <1>1, <1>4, <1>9, WriteRowType DEF StartTask, StartRow
  <2> QED BY <1>1, <1>7, <1>9, <2>1, CountStartType DEF TypeOK, StartTask, StartRow, Stage
<1>10. CASE StartUnconfirmed(c)
  <2>1. jobs' \in [Task -> JobRow]
    BY <1>1, <1>4, <1>10, WriteRowType DEF StartUnconfirmed, StartRow
  <2> QED BY <1>1, <1>2, <1>7, <1>10, <2>1, CountStartType
          DEF TypeOK, StartUnconfirmed, StartRow, Stage
<1>11. CASE StartRefused(c)
  BY <1>6, <1>11 DEF TypeOK, StartRefused, dbVars
<1>12. ASSUME NEW res, AckTask(c, res) PROVE TypeOK'
  <2>1. jobs' \in [Task -> JobRow]
    BY <1>1, <1>5, <1>12, WriteRowType DEF AckTask
  <2> QED BY <1>6, <1>12, <2>1 DEF TypeOK, AckTask
<1>13. ASSUME NEW res, AckUnconfirmed(c, res) PROVE TypeOK'
  <2>1. jobs' \in [Task -> JobRow]
    BY <1>1, <1>5, <1>13, WriteRowType DEF AckUnconfirmed
  <2> QED BY <1>2, <1>13, <2>1 DEF TypeOK, AckUnconfirmed
<1>14. CASE Abandon(c)
  BY <1>2, <1>6, <1>14 DEF TypeOK, Abandon, dbVars
<1> QED BY <1>8, <1>9, <1>10, <1>11, <1>12, <1>13, <1>14 DEF ClaimStep

\* Every state of the protocol has the types of the tables and of the memory
\* of its processes.
THEOREM TypeCorrect == Spec => []TypeOK
<1>1. Init => TypeOK
  BY ClockAssumption DEF Init, TypeOK, NewRow, JobRow, Status
<1>2. ASSUME TypeOK, [Next]_vars PROVE TypeOK'
  <2>1. ASSUME NEW s \in Storage, Crash(s) PROVE TypeOK'
    BY <1>2, <2>1 DEF TypeOK, Crash, dbVars
  <2>2. CASE Tick
    BY <1>2, <2>2 DEF TypeOK, Tick, dbVars, memVars
  <2>3. CASE UNCHANGED vars
    BY <1>2, <2>3 DEF TypeOK, vars
  <2> QED BY <1>2, <2>1, <2>2, <2>3, TypeRow, TypeWorker, TypeStorage, TypeFetch, TypeClaim
          DEF Next
<1> QED BY <1>1, <1>2, PTL DEF Spec

-----------------------------------------------------------------------------
(* Safety. *)

\* The inductive invariant: the properties support each other.  RowShape gives
\* that an active row has an attempt left, so that ending it always charges;
\* ChargedExecutions and StartedClaimExact rest on that charge, and
\* OneExecutionPerAttempt on StartedClaimExact.
QueueInv ==
  /\ TypeOK
  /\ RowShape
  /\ OwnerRegistered
  /\ ChargedExecutions
  /\ StartedClaimExact
  /\ OneExecutionPerAttempt

\* What one statement may do to a row j of task t that it rewrites as r: the
\* result has the shape of a row, the attempts never decrease, and a Running
\* row is left only at the price of an attempt.
SoundWrite(t, j, r) ==
  /\ ShapeOK(t, r)
  /\ r.attempts >= j.attempts
  /\ j.status = "Running" =>
       \/ r.attempts > j.attempts
       \/ /\ r.status = "Running" /\ r.attempts = j.attempts
          /\ r.lock_by = j.lock_by /\ r.lock_at = j.lock_at

\* Every row is rewritten soundly or left alone.
SoundStep == \A t \in Task : SoundWrite(t, jobs[t], jobs'[t])

\* The facts about the rows that the lemmas on statements start from.
LEMMA RowFacts ==
  ASSUME TypeOK, RowShape, NEW t \in Task
  PROVE  /\ jobs[t] \in JobRow /\ jobs[t].attempts \in Nat
         /\ MaxAttempts[t] \in Nat \ {0}
         /\ ShapeOK(t, jobs[t])
         /\ SoundWrite(t, jobs[t], jobs[t])
BY BudgetAssumption DEF TypeOK, RowShape, JobRow, SoundWrite

\* A row with an attempt left is charged exactly one.
LEMMA ChargedIsNext ==
  ASSUME TypeOK, NEW t \in Task, jobs[t].attempts < MaxAttempts[t]
  PROVE  Charged(t) = jobs[t].attempts + 1
BY BudgetAssumption DEF TypeOK, JobRow, Charged

\* A step that leaves the table alone is sound.
LEMMA SameRowsSound ==
  ASSUME TypeOK, RowShape, jobs' = jobs
  PROVE  SoundStep
BY RowFacts DEF SoundStep

\* A statement that writes one row soundly is sound.
LEMMA WriteRowSound ==
  ASSUME TypeOK, RowShape, NEW t \in Task, NEW r, SoundWrite(t, jobs[t], r), WriteRow(t, r)
  PROVE  SoundStep
<1> SUFFICES ASSUME NEW u \in Task PROVE SoundWrite(u, jobs[u], jobs'[u])
  BY DEF SoundStep
<1>1. CASE u = t
  BY <1>1 DEF WriteRow, TypeOK
<1>2. CASE u # t
  BY <1>2, RowFacts DEF WriteRow, TypeOK
<1> QED BY <1>1, <1>2

\* Recovery of an active row is sound if it charges at least the Running ones.
LEMMA RecoveredSound ==
  ASSUME TypeOK, RowShape, NEW t \in Task, NEW C, "Running" \in C,
         jobs[t].status \in Active
  PROVE  SoundWrite(t, jobs[t], Recovered(t, C)) /\ Recovered(t, C).lock_by = None
         /\ Recovered(t, C).status \in {"Pending", "Killed"}
<1> DEFINE next == IF jobs[t].status \in C THEN Charged(t) ELSE jobs[t].attempts
           dead == next >= MaxAttempts[t]
           r == Recovered(t, C)
<1>1. /\ jobs[t] \in JobRow /\ jobs[t].attempts \in Nat /\ MaxAttempts[t] \in Nat \ {0}
      /\ jobs[t].attempts < MaxAttempts[t]
  BY RowFacts DEF ShapeOK
<1>2. /\ next \in Nat /\ next <= MaxAttempts[t] /\ next >= jobs[t].attempts
      /\ jobs[t].status = "Running" => next > jobs[t].attempts
  BY <1>1, ChargedIsNext
<1>3. /\ r.status = (IF dead THEN "Killed" ELSE "Pending")
      /\ r.attempts = next /\ r.lock_by = None /\ r.lock_at = None
      /\ r.done_at = (IF dead THEN "set" ELSE "null")
  BY <1>1 DEF Recovered, JobRow
<1>4. ShapeOK(t, r)
  BY <1>1, <1>2, <1>3 DEF ShapeOK, Active
<1> QED BY <1>2, <1>3, <1>4 DEF SoundWrite

\* Recovery of a set of active rows is sound, and leaves no owner on them.
LEMMA RecoverSound ==
  ASSUME TypeOK, RowShape, NEW S, NEW C, "Running" \in C,
         \A t \in S \cap Task : jobs[t].status \in Active,
         RecoverOwned(S, C)
  PROVE  /\ SoundStep
         /\ \A t \in Task : jobs'[t].lock_by \in {None, jobs[t].lock_by}
         /\ \A t \in Task : jobs'[t].status = "Running" => jobs[t].status = "Running"
<1> SUFFICES ASSUME NEW t \in Task
             PROVE  /\ SoundWrite(t, jobs[t], jobs'[t])
                    /\ jobs'[t].lock_by \in {None, jobs[t].lock_by}
                    /\ jobs'[t].status = "Running" => jobs[t].status = "Running"
  BY DEF SoundStep
<1>1. jobs'[t] = IF t \in S THEN Recovered(t, C) ELSE jobs[t]
  BY DEF RecoverOwned
<1>2. CASE t \in S
  BY <1>1, <1>2, RecoveredSound
<1>3. CASE t \notin S
  BY <1>1, <1>3, RowFacts
<1> QED BY <1>2, <1>3

\* The history counts only rows that become Running.
StartsSound ==
  \A t \in Task : starts'[t] <= starts[t]
    + (IF jobs[t].status # "Running" /\ jobs'[t].status = "Running" THEN 1 ELSE 0)

\* The slot of c is unchanged or free.
Retained(c) == claims'[c] \in {NoClaim, claims[c]}

\* The slot of c holds a claim whose row this step left Running under its epoch.
Launched(c) ==
  /\ EpochHolds(claims[c])' /\ jobs'[claims'[c].task].status = "Running"
  /\ claims'[c].stage = "started" =>
       /\ jobs[claims'[c].task].status # "Running"
       /\ jobs[claims'[c].task].attempts = claims'[c].attempts
       /\ \A d \in Claim : d # c => Retained(d)

ClaimsSound ==
  \A c \in Claim : \/ Retained(c)
                   \/ claims'[c].stage \in {"claimed", "attempted"}
                   \/ Launched(c)

\* Sound steps preserve the invariant.
LEMMA SoundPreserves ==
  ASSUME QueueInv, TypeOK', SoundStep, OwnerRegistered', StartsSound, ClaimsSound
  PROVE  QueueInv'
<1>1. RowShape'
  BY DEF SoundStep, SoundWrite, RowShape
<1>2. ChargedExecutions'
  <2> SUFFICES ASSUME NEW t \in Task
               PROVE  starts'[t] <= jobs'[t].attempts
                        + (IF jobs'[t].status = "Running" THEN 1 ELSE 0)
    BY DEF ChargedExecutions
  <2>1. /\ starts[t] \in Nat /\ starts'[t] \in Nat
        /\ jobs[t].attempts \in Nat /\ jobs'[t].attempts \in Nat
    BY DEF QueueInv, TypeOK, JobRow
  <2>2. starts[t] <= jobs[t].attempts + (IF jobs[t].status = "Running" THEN 1 ELSE 0)
    BY DEF QueueInv, ChargedExecutions
  <2>3. SoundWrite(t, jobs[t], jobs'[t])
    BY DEF SoundStep
  <2>4. starts'[t] <= starts[t]
          + (IF jobs[t].status # "Running" /\ jobs'[t].status = "Running" THEN 1 ELSE 0)
    BY DEF StartsSound
  <2> QED BY <2>1, <2>2, <2>3, <2>4 DEF SoundWrite
<1>3. StartedClaimExact'
  <2> SUFFICES ASSUME NEW c \in Claim, Held(c)', claims'[c].stage \in {"started", "relocked"}
               PROVE  \/ jobs'[claims'[c].task].attempts > claims'[c].attempts
                      \/ EpochHolds(claims[c])' /\ jobs'[claims'[c].task].status = "Running"
    BY DEF StartedClaimExact
  <2>1. CASE Launched(c)
    BY <2>1 DEF Launched
  <2>2. CASE Retained(c)
    <3>1. claims'[c] = claims[c] /\ Held(c)
      BY <2>2 DEF Retained, Held
    <3> DEFINE t == claims[c].task
    <3>2. t \in Task /\ claims[c].attempts \in Nat
      BY <3>1, HeldType DEF QueueInv, ClaimRecord
    <3>3. jobs[t].attempts \in Nat /\ jobs'[t].attempts \in Nat
      BY <3>2 DEF QueueInv, TypeOK, JobRow
    <3>4. SoundWrite(t, jobs[t], jobs'[t])
      BY <3>2 DEF SoundStep
    <3>5. jobs[t].attempts > claims[c].attempts
          \/ (EpochHolds(claims[c]) /\ jobs[t].status = "Running")
      BY <3>1 DEF QueueInv, StartedClaimExact
    <3> QED BY <3>1, <3>2, <3>3, <3>4, <3>5 DEF SoundWrite, EpochHolds, Active
  <2> QED BY <2>1, <2>2 DEF ClaimsSound
<1>4. OneExecutionPerAttempt'
  <2> SUFFICES ASSUME NEW c \in Claim, NEW d \in Claim, c # d, Held(c)', Held(d)',
                      claims'[c].task = claims'[d].task,
                      claims'[c].stage = "started", claims'[d].stage = "started"
               PROVE  claims'[c].attempts # claims'[d].attempts
    BY DEF OneExecutionPerAttempt
  <2>1. ASSUME NEW e \in Claim, NEW f \in Claim, e # f, Launched(e), Held(f)',
               claims'[e].task = claims'[f].task,
               claims'[e].stage = "started", claims'[f].stage = "started"
        PROVE  claims'[e].attempts # claims'[f].attempts
    <3>1. claims'[f] = claims[f] /\ Held(f)
      BY <2>1 DEF Launched, Retained, Held
    <3> DEFINE t == claims[f].task
    <3>2. t \in Task /\ claims[f].attempts \in Nat
      BY <3>1, HeldType DEF QueueInv, ClaimRecord
    <3>3. jobs[t].attempts > claims[f].attempts
      BY <2>1, <3>1 DEF QueueInv, StartedClaimExact, Launched
    <3>4. jobs[t].attempts = claims'[e].attempts /\ jobs[t].attempts \in Nat
      BY <2>1, <3>1, <3>2 DEF Launched, QueueInv, TypeOK, JobRow
    <3> QED BY <3>1, <3>2, <3>3, <3>4
  <2>2. CASE Retained(c) /\ Retained(d)
    BY <2>2 DEF Retained, Held, QueueInv, OneExecutionPerAttempt
  <2> QED BY <2>1, <2>2 DEF ClaimsSound
<1> QED BY <1>1, <1>2, <1>3, <1>4 DEF QueueInv

\* Who may write under a name is a registered worker of that name.
LEMMA CurrentIsRegistered ==
  ASSUME NEW s \in Caller, NEW n \in Name, CurrentWorker(s, n)
  PROVE  Registered(n)
BY CallerAssumption, NullAssumption DEF CurrentWorker, Registered

\* A step that adds no owner and removes no registration keeps owners registered.
LEMMA OwnersKept ==
  ASSUME TypeOK, OwnerRegistered,
         \A t \in Task : jobs'[t].lock_by \in {None, jobs[t].lock_by},
         \A n \in Name : Registered(n) => Registered(n)'
  PROVE  OwnerRegistered'
BY DEF OwnerRegistered, TypeOK, JobRow

\* The owners after a statement that writes one row.
LEMMA OwnersAfterWrite ==
  ASSUME TypeOK, OwnerRegistered, NEW t \in Task, NEW r, WriteRow(t, r),
         lease_token' = lease_token,
         r.lock_by = None \/ r.lock_by = jobs[t].lock_by \/ Registered(r.lock_by)
  PROVE  OwnerRegistered'
BY DEF OwnerRegistered, TypeOK, WriteRow, Registered

\* A step that keeps every row from becoming Running leaves the history sound.
LEMMA StartsKept ==
  ASSUME TypeOK, starts' = starts
  PROVE  StartsSound
BY DEF StartsSound, TypeOK

\* A step that changes no claim leaves the claims sound.
LEMMA ClaimsKept ==
  ASSUME claims' = claims
  PROVE  ClaimsSound
BY DEF ClaimsSound, Retained

\* Forgetting a claim leaves the claims sound.
LEMMA ForgetSound ==
  ASSUME TypeOK, NEW c \in Claim, Forget(c)
  PROVE  ClaimsSound
BY DEF ClaimsSound, Retained, Forget, TypeOK

\* The steps that concern a row alone.
LEMMA InvRow ==
  ASSUME QueueInv, NEW t \in Task, RowStep(t)
  PROVE  QueueInv'
<1>0. TypeOK /\ RowShape /\ OwnerRegistered /\ TypeOK'
  BY TypeRow DEF QueueInv
<1>1. StartsSound /\ ClaimsSound
  BY <1>0, StartsKept, ClaimsKept
     DEF RowStep, Enqueue, Purge, Sweep, memVars
<1>2. ASSUME NEW d \in Delay, Enqueue(t, d) PROVE SoundStep /\ OwnerRegistered'
  <2> DEFINE r == [jobs[t] EXCEPT !.status = "Pending", !.run_at = now + d]
  <2>1. /\ r.status = "Pending" /\ r.attempts = jobs[t].attempts /\ r.lock_by = jobs[t].lock_by
        /\ r.lock_at = jobs[t].lock_at /\ r.done_at = jobs[t].done_at
    BY <1>0 DEF TypeOK, JobRow
  <2>2. SoundWrite(t, jobs[t], r)
    BY <1>0, <1>2, <2>1, RowFacts DEF Enqueue, SoundWrite, ShapeOK, Active
  <2>3. WriteRow(t, r) /\ lease_token' = lease_token
    BY <1>2 DEF Enqueue
  <2> QED BY <1>0, <2>1, <2>2, <2>3, WriteRowSound, OwnersAfterWrite
<1>3. ASSUME Purge(t) PROVE SoundStep /\ OwnerRegistered'
  <2> DEFINE r == [jobs[t] EXCEPT !.status = "Purged", !.lock_by = None, !.lock_at = None,
                                  !.done_at = "null"]
  <2>1. /\ r.status = "Purged" /\ r.attempts = jobs[t].attempts /\ r.lock_by = None
        /\ r.lock_at = None /\ r.done_at = "null"
    BY <1>0 DEF TypeOK, JobRow
  <2>2. SoundWrite(t, jobs[t], r)
    BY <1>0, <1>3, <2>1, RowFacts DEF Purge, Terminal, SoundWrite, ShapeOK, Active
  <2>3. WriteRow(t, r) /\ lease_token' = lease_token
    BY <1>3 DEF Purge
  <2> QED BY <1>0, <2>1, <2>2, <2>3, WriteRowSound, OwnersAfterWrite
<1>4. ASSUME Sweep(t) PROVE SoundStep /\ OwnerRegistered'
  <2>1. jobs[t].status \in Active /\ RecoverOwned({t}, Active) /\ lease_token' = lease_token
    BY <1>4 DEF Sweep, Orphaned, Owned
  <2>2. SoundStep /\ \A u \in Task : jobs'[u].lock_by \in {None, jobs[u].lock_by}
    BY <1>0, <2>1, RecoverSound DEF Active
  <2> QED BY <1>0, <2>1, <2>2, OwnersKept DEF Registered
<1> QED BY <1>0, <1>1, <1>2, <1>3, <1>4, SoundPreserves DEF RowStep

\* The steps that concern a registration alone.
LEMMA InvWorker ==
  ASSUME QueueInv, NEW n \in Name, WorkerStep(n)
  PROVE  QueueInv'
<1>0. TypeOK /\ RowShape /\ OwnerRegistered /\ TypeOK'
  BY TypeWorker DEF QueueInv
<1>1. jobs' = jobs /\ StartsSound /\ ClaimsSound
  BY <1>0, StartsKept, ClaimsKept DEF WorkerStep, PruneWorker, AdminRegister, memVars
<1>2. SoundStep
  BY <1>0, <1>1, SameRowsSound
<1>3. OwnerRegistered'
  <2>1. CASE PruneWorker(n)
    BY <1>0, <2>1 DEF PruneWorker, OwnerRegistered, Registered, TypeOK, JobRow
  <2>2. CASE AdminRegister(n)
    BY <1>0, <2>2, NullAssumption DEF AdminRegister, OwnerRegistered, Registered, TypeOK, JobRow
  <2> QED BY <2>1, <2>2 DEF WorkerStep
<1> QED BY <1>0, <1>1, <1>2, <1>3, SoundPreserves

\* The steps of a storage's registration.
LEMMA InvStorage ==
  ASSUME QueueInv, NEW s \in Storage, NEW n \in Name, StorageStep(s, n)
  PROVE  QueueInv'
<1>0. TypeOK /\ RowShape /\ OwnerRegistered /\ TypeOK'
  BY TypeStorage DEF QueueInv
<1>1. StartsSound /\ ClaimsSound
  BY <1>0, StartsKept, ClaimsKept
     DEF StorageStep, StartupSweep, Register, RegisterRefused, KeepAlive, RetireWorker,
         ReleaseWorker, memVars
<1>2. ASSUME NEW S, NEW C, S \subseteq Task, "Running" \in C,
             \A t \in S : jobs[t].status \in Active, RecoverOwned(S, C),
             \A m \in Name : Registered(m) => Registered(m)'
      PROVE  SoundStep /\ OwnerRegistered'
  <2>1. SoundStep /\ \A u \in Task : jobs'[u].lock_by \in {None, jobs[u].lock_by}
    BY <1>0, <1>2, RecoverSound
  <2> QED BY <1>0, <1>2, <2>1, OwnersKept
<1>3. CASE \E S \in SUBSET Orphaned : StartupSweep(s, n, S)
  <2>1. PICK S \in SUBSET Orphaned : StartupSweep(s, n, S)
    BY <1>3
  <2>2. S \subseteq Task /\ \A t \in S : jobs[t].status \in Active
    BY DEF Orphaned, Owned
  <2>3. RecoverOwned(S, Active) /\ lease_token' = lease_token
    BY <2>1 DEF StartupSweep
  <2>4. SoundStep /\ OwnerRegistered'
    BY <1>2, <2>2, <2>3 DEF Registered, Active
  <2> QED BY <1>0, <1>1, <2>4, SoundPreserves
<1>4. CASE Register(s, n)
  <2> DEFINE S == IF Registered(n) /\ (lease_token[n] # s \/ Stale(n)) THEN Owned(n) ELSE {}
  <2>1. S \subseteq Task /\ \A t \in S : jobs[t].status \in Active
    BY DEF Owned
  <2>2. RecoverOwned(S, Active)
    BY <1>4 DEF Register
  <2>3. \A m \in Name : Registered(m) => Registered(m)'
    BY <1>0, <1>4, NullAssumption DEF Register, Registered, TypeOK
  <2>4. "Running" \in Active
    BY DEF Active
  <2>5. SoundStep /\ OwnerRegistered'
    BY <1>2, <2>1, <2>2, <2>3, <2>4
  <2> QED BY <1>0, <1>1, <2>5, SoundPreserves
<1>5. CASE ReleaseWorker(s, n)
  <2>1. Owned(n) \subseteq Task /\ \A t \in Owned(n) : jobs[t].status \in Active
    BY DEF Owned
  <2>2. RecoverOwned(Owned(n), {"Running"})
    BY <1>5 DEF ReleaseWorker
  <2>3. \A m \in Name : Registered(m) => Registered(m)'
    BY <1>0, <1>5, NullAssumption DEF ReleaseWorker, Registered, TypeOK
  <2>4. SoundStep /\ OwnerRegistered'
    BY <1>2, <2>1, <2>2, <2>3
  <2> QED BY <1>0, <1>1, <2>4, SoundPreserves
<1>6. CASE RegisterRefused(s, n) \/ KeepAlive(s, n) \/ RetireWorker(s, n)
  <2>1. jobs' = jobs /\ lease_token' = lease_token
    BY <1>6 DEF RegisterRefused, KeepAlive, RetireWorker, dbVars
  <2>2. SoundStep
    BY <1>0, <2>1, SameRowsSound
  <2>3. OwnerRegistered'
    BY <1>0, <2>1 DEF OwnerRegistered, Registered
  <2> QED BY <1>0, <1>1, <2>2, <2>3, SoundPreserves
<1> QED BY <1>3, <1>4, <1>5, <1>6 DEF StorageStep

\* The row operators of the claiming statements write soundly.
LEMMA FetchRowsSound ==
  ASSUME QueueInv, NEW n \in Name, NEW t \in Task
  PROVE  /\ Claimable(t) => SoundWrite(t, jobs[t], Fetched(n, t))
         /\ Claimable(t) => SoundWrite(t, jobs[t], Quarantined(t))
         /\ Claimable(t) \/ t \in Owned(n) => SoundWrite(t, jobs[t], Locked(n, t))
         /\ Fetched(n, t).lock_by = n /\ Fetched(n, t).status = "Queued"
         /\ Quarantined(t).lock_by = None
         /\ Locked(n, t).lock_by = n /\ Locked(n, t).status = "Running"
         /\ Locked(n, t).attempts = jobs[t].attempts
<1>0. /\ TypeOK /\ jobs[t] \in JobRow /\ jobs[t].attempts \in Nat
      /\ MaxAttempts[t] \in Nat \ {0} /\ ShapeOK(t, jobs[t])
  BY RowFacts DEF QueueInv
<1>1. ThisSecond \in Nat /\ ThisSecond # None /\ n # None
  BY <1>0, ThisSecondType, NullAssumption DEF TypeOK
<1>2. /\ Fetched(n, t).status = "Queued" /\ Fetched(n, t).attempts = jobs[t].attempts
      /\ Fetched(n, t).lock_by = n /\ Fetched(n, t).lock_at = ThisSecond
      /\ Fetched(n, t).done_at = "null"
  BY <1>0 DEF Fetched, JobRow
<1>3. /\ Quarantined(t).status = "Killed" /\ Quarantined(t).attempts = Charged(t)
      /\ Quarantined(t).lock_by = None /\ Quarantined(t).lock_at = None
      /\ Quarantined(t).done_at = "set"
  BY <1>0 DEF Quarantined, JobRow
<1>4. /\ Locked(n, t).status = "Running" /\ Locked(n, t).attempts = jobs[t].attempts
      /\ Locked(n, t).lock_by = n /\ Locked(n, t).done_at = "null"
      /\ Locked(n, t).lock_at = IF t \in Owned(n) THEN jobs[t].lock_at ELSE ThisSecond
  BY <1>0 DEF Locked, JobRow, Owned
<1>5. Claimable(t) => SoundWrite(t, jobs[t], Fetched(n, t))
  BY <1>0, <1>1, <1>2 DEF Claimable, SoundWrite, ShapeOK, Active
<1>6. Claimable(t) => SoundWrite(t, jobs[t], Quarantined(t))
  BY <1>0, <1>3, ChargedIsNext DEF Claimable, SoundWrite, ShapeOK, Active
<1>7. Claimable(t) => SoundWrite(t, jobs[t], Locked(n, t))
  BY <1>0, <1>1, <1>4 DEF Claimable, SoundWrite, ShapeOK, Active, Owned
<1>8. t \in Owned(n) => SoundWrite(t, jobs[t], Locked(n, t))
  BY <1>0, <1>1, <1>4 DEF SoundWrite, ShapeOK, Active, Owned
<1> QED BY <1>2, <1>3, <1>4, <1>5, <1>6, <1>7, <1>8

\* Counting the start of the row a statement writes as Running.
LEMMA CountStartSound ==
  ASSUME TypeOK, NEW t \in Task, NEW r, WriteRow(t, r), r.status = "Running", CountStart(t)
  PROVE  StartsSound
<1> SUFFICES ASSUME NEW u \in Task
             PROVE  starts'[u] <= starts[u]
                      + (IF jobs[u].status # "Running" /\ jobs'[u].status = "Running"
                         THEN 1 ELSE 0)
  BY DEF StartsSound
<1>1. starts[u] \in Nat
  BY DEF TypeOK
<1>2. CASE u = t
  BY <1>1, <1>2 DEF TypeOK, WriteRow, CountStart
<1>3. CASE u # t
  BY <1>1, <1>3 DEF TypeOK, WriteRow, CountStart
<1> QED BY <1>2, <1>3

\* The claiming statements.
LEMMA InvFetch ==
  ASSUME QueueInv, NEW s \in Caller, NEW n \in Name, NEW t \in Task, FetchStep(s, n, t)
  PROVE  QueueInv'
<1>0. TypeOK /\ RowShape /\ OwnerRegistered /\ TypeOK'
  BY TypeFetch DEF QueueInv
<1>1. ASSUME NEW c \in Claim, FetchNext(s, n, t, c) PROVE QueueInv'
  <2>1. /\ Registered(n) /\ Claimable(t) /\ WriteRow(t, Fetched(n, t))
        /\ lease_token' = lease_token /\ starts' = starts
    BY <1>1, CurrentIsRegistered DEF FetchNext, MayFetch
  <2>2. SoundStep
    BY <1>0, <2>1, FetchRowsSound, WriteRowSound
  <2>3. OwnerRegistered'
    BY <1>0, <2>1, FetchRowsSound, OwnersAfterWrite
  <2>4. ClaimsSound
    BY <1>0, <1>1 DEF FetchNext, NewClaim, ClaimsSound, Retained, TypeOK
  <2> QED BY <1>0, <2>1, <2>2, <2>3, <2>4, StartsKept, SoundPreserves
<1>2. ASSUME FetchUnconfirmed(s, n, t) PROVE QueueInv'
  <2>1. /\ Registered(n) /\ Claimable(t) /\ WriteRow(t, Fetched(n, t))
        /\ lease_token' = lease_token /\ starts' = starts /\ claims' = claims
    BY <1>2, CurrentIsRegistered DEF FetchUnconfirmed, MayFetch
  <2>2. SoundStep
    BY <1>0, <2>1, FetchRowsSound, WriteRowSound
  <2>3. OwnerRegistered'
    BY <1>0, <2>1, FetchRowsSound, OwnersAfterWrite
  <2> QED BY <1>0, <2>1, <2>2, <2>3, StartsKept, ClaimsKept, SoundPreserves
<1>3. ASSUME FetchMalformed(s, n, t) PROVE QueueInv'
  <2>1. /\ Claimable(t) /\ WriteRow(t, Quarantined(t))
        /\ lease_token' = lease_token /\ starts' = starts /\ claims' = claims
    BY <1>3 DEF FetchMalformed, MayFetch, memVars
  <2>2. SoundStep
    BY <1>0, <2>1, FetchRowsSound, WriteRowSound
  <2>3. OwnerRegistered'
    BY <1>0, <2>1, FetchRowsSound, OwnersAfterWrite
  <2> QED BY <1>0, <2>1, <2>2, <2>3, StartsKept, ClaimsKept, SoundPreserves
<1>4. ASSUME MayLock(s, n, t), WriteRow(t, Locked(n, t)), lease_token' = lease_token,
             CountStart(t)
      PROVE  SoundStep /\ OwnerRegistered' /\ StartsSound
  <2>1. Registered(n) /\ (Claimable(t) \/ t \in Owned(n))
    BY <1>4, CurrentIsRegistered DEF MayLock
  <2>2. SoundStep
    BY <1>0, <1>4, <2>1, FetchRowsSound, WriteRowSound
  <2>3. OwnerRegistered'
    BY <1>0, <1>4, <2>1, FetchRowsSound, OwnersAfterWrite
  <2>4. StartsSound
    BY <1>0, <1>4, FetchRowsSound, CountStartSound
  <2> QED BY <2>2, <2>3, <2>4
<1>5. ASSUME NEW c \in Claim, LockTask(s, n, t, c) PROVE QueueInv'
  <2>1. SoundStep /\ OwnerRegistered' /\ StartsSound
    BY <1>4, <1>5 DEF LockTask
  <2>2. ClaimsSound
    <3> DEFINE k == NewClaim(s, n, t, Locked(n, t).lock_at,
                             IF jobs[t].status = "Running" THEN "relocked" ELSE "started")
    <3>1. claims'[c] = k /\ \A d \in Claim : d # c => Retained(d)
      BY <1>0, <1>5 DEF LockTask, TypeOK, Retained
    <3>2. jobs'[t] = Locked(n, t)
      BY <1>0, <1>5 DEF LockTask, WriteRow, TypeOK
    <3>3. /\ k.task = t /\ k.name = n /\ k.attempts = jobs[t].attempts
          /\ k.lock_at = Locked(n, t).lock_at
          /\ k.stage = (IF jobs[t].status = "Running" THEN "relocked" ELSE "started")
      BY DEF NewClaim
    <3>4. EpochHolds(claims[c])'
      BY <3>1, <3>2, <3>3, FetchRowsSound DEF EpochHolds, Active
    <3>5. Launched(c)
      BY <3>1, <3>2, <3>3, <3>4, FetchRowsSound DEF Launched
    <3> QED BY <3>1, <3>5 DEF ClaimsSound
  <2> QED BY <1>0, <2>1, <2>2, SoundPreserves
<1>6. ASSUME LockUnconfirmed(s, n, t) PROVE QueueInv'
  <2>1. SoundStep /\ OwnerRegistered' /\ StartsSound
    BY <1>4, <1>6 DEF LockUnconfirmed
  <2>2. ClaimsSound
    BY <1>6, ClaimsKept DEF LockUnconfirmed
  <2> QED BY <1>0, <2>1, <2>2, SoundPreserves
<1> QED BY <1>1, <1>2, <1>3, <1>5, <1>6 DEF FetchStep

\* The row operators of a claim's own statements write soundly.
LEMMA ClaimRowsSound ==
  ASSUME QueueInv, NEW k \in ClaimRecord, EpochHolds(k)
  PROVE  /\ SoundWrite(k.task, jobs[k.task], Undecodable(k.task))
         /\ Undecodable(k.task).lock_by = jobs[k.task].lock_by
         /\ \A res : /\ SoundWrite(k.task, jobs[k.task], Acked(k, res))
                     /\ Acked(k, res).lock_by = jobs[k.task].lock_by
         /\ LET r == [jobs[k.task] EXCEPT !.status = "Running"]
            IN /\ SoundWrite(k.task, jobs[k.task], r)
               /\ r.lock_by = jobs[k.task].lock_by /\ r.lock_at = jobs[k.task].lock_at
               /\ r.attempts = jobs[k.task].attempts /\ r.status = "Running"
<1> DEFINE t == k.task
           u == Undecodable(t)
           a == jobs[t].attempts
<1>0. t \in Task /\ TypeOK /\ RowShape
  BY DEF ClaimRecord, QueueInv
<1>1. /\ jobs[t] \in JobRow /\ a \in Nat /\ MaxAttempts[t] \in Nat \ {0}
      /\ ShapeOK(t, jobs[t]) /\ a < MaxAttempts[t] /\ a = k.attempts
      /\ jobs[t].status \in Active
  BY <1>0, RowFacts DEF ShapeOK, EpochHolds
<1>2. /\ u.status = (IF a + 1 >= MaxAttempts[t] THEN "Killed" ELSE "Failed")
      /\ u.attempts = a + 1 /\ u.lock_by = jobs[t].lock_by /\ u.lock_at = jobs[t].lock_at
      /\ u.done_at = "set"
  BY <1>0, <1>1, ChargedIsNext DEF Undecodable, JobRow
<1>3. SoundWrite(t, jobs[t], u)
  BY <1>1, <1>2 DEF SoundWrite, ShapeOK, Active
<1>4. ASSUME NEW res
      PROVE  SoundWrite(t, jobs[t], Acked(k, res)) /\ Acked(k, res).lock_by = jobs[t].lock_by
  <2> DEFINE r == Acked(k, res)
  <2>1. /\ r.status = CalculateStatus(t, a + 1, res) /\ r.attempts = a + 1
        /\ r.lock_by = jobs[t].lock_by /\ r.lock_at = jobs[t].lock_at /\ r.done_at = "set"
    BY <1>1 DEF Acked, JobRow
  <2>2. r.status \in {"Done", "Killed"} \/ (r.status = "Failed" /\ MaxAttempts[t] > a + 1)
    BY <2>1 DEF CalculateStatus
  <2> QED BY <1>1, <2>1, <2>2 DEF SoundWrite, ShapeOK, Active
<1> DEFINE g == [jobs[t] EXCEPT !.status = "Running"]
<1>5. /\ g.status = "Running" /\ g.attempts = a /\ g.lock_by = jobs[t].lock_by
      /\ g.lock_at = jobs[t].lock_at /\ g.done_at = jobs[t].done_at
  BY <1>1 DEF JobRow
<1>6. SoundWrite(t, jobs[t], g)
  BY <1>1, <1>5 DEF SoundWrite, ShapeOK, Active
<1> QED BY <1>2, <1>3, <1>4, <1>5, <1>6

\* The steps of a held claim.
LEMMA InvClaim ==
  ASSUME QueueInv, NEW c \in Claim, ClaimStep(c)
  PROVE  QueueInv'
<1>0. TypeOK /\ RowShape /\ OwnerRegistered /\ TypeOK'
  BY TypeClaim DEF QueueInv
<1>1. Held(c)
  BY DEF ClaimStep, FailUndecodable, StartTask, StartUnconfirmed, StartRefused,
         MayAck, AckTask, AckUnconfirmed, Abandon
<1> DEFINE k == claims[c]
           t == k.task
<1>2. k \in ClaimRecord /\ t \in Task
  BY <1>0, <1>1, HeldType DEF ClaimRecord
<1>3. ASSUME FailUndecodable(c) PROVE QueueInv'
  <2>1. /\ EpochHolds(k) /\ WriteRow(t, Undecodable(t)) /\ Forget(c)
        /\ lease_token' = lease_token /\ starts' = starts
    BY <1>3 DEF FailUndecodable, AckMatches
  <2>2. SoundStep /\ OwnerRegistered'
    BY <1>0, <1>2, <2>1, ClaimRowsSound, WriteRowSound, OwnersAfterWrite
  <2> QED BY <1>0, <2>1, <2>2, StartsKept, ForgetSound, SoundPreserves
<1>4. ASSUME NEW res, AckTask(c, res) PROVE QueueInv'
  <2>1. /\ EpochHolds(k) /\ WriteRow(t, Acked(k, res)) /\ Forget(c)
        /\ lease_token' = lease_token /\ starts' = starts
    BY <1>4 DEF AckTask, AckMatches
  <2>2. SoundStep /\ OwnerRegistered'
    BY <1>0, <1>2, <2>1, ClaimRowsSound, WriteRowSound, OwnersAfterWrite
  <2> QED BY <1>0, <2>1, <2>2, StartsKept, ForgetSound, SoundPreserves
<1>5. ASSUME NEW res, AckUnconfirmed(c, res) PROVE QueueInv'
  <2>1. /\ EpochHolds(k) /\ WriteRow(t, Acked(k, res)) /\ claims' = claims
        /\ lease_token' = lease_token /\ starts' = starts
    BY <1>5 DEF AckUnconfirmed, AckMatches
  <2>2. SoundStep /\ OwnerRegistered'
    BY <1>0, <1>2, <2>1, ClaimRowsSound, WriteRowSound, OwnersAfterWrite
  <2> QED BY <1>0, <2>1, <2>2, StartsKept, ClaimsKept, SoundPreserves
<1>6. ASSUME StartRefused(c) \/ Abandon(c) PROVE QueueInv'
  <2>1. /\ jobs' = jobs /\ Forget(c)
        /\ lease_token' = lease_token /\ starts' = starts
    BY <1>6 DEF StartRefused, Abandon, dbVars
  <2>2. SoundStep
    BY <1>0, <2>1, SameRowsSound
  <2>3. OwnerRegistered'
    BY <1>0, <2>1 DEF OwnerRegistered, Registered
  <2> QED BY <1>0, <2>1, <2>2, <2>3, StartsKept, ForgetSound, SoundPreserves
<1>7. ASSUME StartMatches(k), StartRow(t), lease_token' = lease_token
      PROVE  SoundStep /\ OwnerRegistered' /\ StartsSound
  <2> DEFINE r == [jobs[t] EXCEPT !.status = "Running"]
  <2>1. EpochHolds(k) /\ WriteRow(t, r) /\ CountStart(t)
    BY <1>7 DEF StartMatches, StartRow
  <2>2. /\ SoundWrite(t, jobs[t], r) /\ r.lock_by = jobs[t].lock_by /\ r.status = "Running"
    BY <1>2, <2>1, ClaimRowsSound
  <2> QED BY <1>0, <1>2, <1>7, <2>1, <2>2, WriteRowSound, OwnersAfterWrite, CountStartSound
<1>8. ASSUME StartTask(c) PROVE QueueInv'
  <2>1. SoundStep /\ OwnerRegistered' /\ StartsSound
    BY <1>7, <1>8 DEF StartTask
  <2>2. ClaimsSound
    <3> DEFINE r == [jobs[t] EXCEPT !.status = "Running"]
    <3>1. /\ StartMatches(k) /\ claims' = [claims EXCEPT ![c].stage = "started"]
          /\ WriteRow(t, r)
      BY <1>8 DEF StartTask, StartRow
    <3>2. claims'[c] = [k EXCEPT !.stage = "started"] /\ \A d \in Claim : d # c => Retained(d)
      BY <1>0, <3>1 DEF TypeOK, Retained
    <3>3. /\ claims'[c].task = t /\ claims'[c].name = k.name /\ claims'[c].lock_at = k.lock_at
          /\ claims'[c].attempts = k.attempts /\ claims'[c].stage = "started"
      BY <1>2, <3>2 DEF ClaimRecord
    <3>4. EpochHolds(k) /\ jobs[t].status = "Queued" /\ jobs'[t] = r
      BY <1>0, <1>2, <3>1 DEF StartMatches, WriteRow, TypeOK
    <3>5. /\ r.lock_by = jobs[t].lock_by /\ r.lock_at = jobs[t].lock_at
          /\ r.attempts = jobs[t].attempts /\ r.status = "Running"
      BY <1>2, <3>4, ClaimRowsSound
    <3>6. EpochHolds(claims[c])' /\ jobs[t].attempts = k.attempts
      BY <3>3, <3>4, <3>5 DEF EpochHolds, Active
    <3> HIDE DEF r
    <3>7. Launched(c)
      <4>1. jobs'[claims'[c].task].status = "Running" /\ jobs[claims'[c].task].status # "Running"
        BY <3>3, <3>4, <3>5
      <4>2. jobs[claims'[c].task].attempts = claims'[c].attempts
        BY <3>3, <3>6
      <4> QED BY <3>2, <3>6, <4>1, <4>2 DEF Launched
    <3> QED BY <3>2, <3>7 DEF ClaimsSound
  <2> QED BY <1>0, <2>1, <2>2, SoundPreserves
<1>9. ASSUME StartUnconfirmed(c) PROVE QueueInv'
  <2>1. SoundStep /\ OwnerRegistered' /\ StartsSound
    BY <1>7, <1>9 DEF StartUnconfirmed
  <2>2. claims'[c] = [k EXCEPT !.stage = "attempted"] /\ \A d \in Claim : d # c => Retained(d)
    BY <1>0, <1>9 DEF TypeOK, Retained, StartUnconfirmed
  <2>3. claims'[c].stage = "attempted"
    BY <1>2, <2>2 DEF ClaimRecord
  <2>4. ClaimsSound
    BY <2>2, <2>3 DEF ClaimsSound
  <2> QED BY <1>0, <2>1, <2>4, SoundPreserves
<1> QED BY <1>3, <1>4, <1>5, <1>6, <1>8, <1>9 DEF ClaimStep

\* The invariant holds in every state: initially nothing is owned or started,
\* and every statement writes soundly.
THEOREM QueueSafe == Spec => []QueueInv
<1>1. Init => QueueInv
  <2> SUFFICES ASSUME Init PROVE QueueInv
    OBVIOUS
  <2>1. TypeOK
    BY ClockAssumption DEF Init, TypeOK, NewRow, JobRow, Status
  <2>2. \A t \in Task : /\ jobs[t].status = "Absent" /\ jobs[t].attempts = 0
                        /\ jobs[t].lock_by = None /\ jobs[t].lock_at = None
                        /\ jobs[t].done_at = "null" /\ starts[t] = 0
    BY DEF Init, NewRow
  <2>3. \A c \in Claim : ~Held(c)
    BY DEF Init, Held
  <2>4. RowShape
    <3> SUFFICES ASSUME NEW t \in Task PROVE ShapeOK(t, jobs[t])
      BY DEF RowShape
    <3>1. MaxAttempts[t] \in Nat \ {0}
      BY BudgetAssumption
    <3> QED BY <2>2, <3>1 DEF ShapeOK, Active
  <2>5. OwnerRegistered /\ ChargedExecutions
    BY <2>2 DEF OwnerRegistered, ChargedExecutions
  <2>6. StartedClaimExact /\ OneExecutionPerAttempt
    BY <2>3 DEF StartedClaimExact, OneExecutionPerAttempt
  <2> QED BY <2>1, <2>4, <2>5, <2>6 DEF QueueInv
<1>2. ASSUME QueueInv, [Next]_vars PROVE QueueInv'
  <2>1. ASSUME NEW s \in Storage, Crash(s) PROVE QueueInv'
    <3>1. TypeOK /\ RowShape /\ OwnerRegistered /\ TypeOK'
      BY <1>2, <2>1 DEF QueueInv, TypeOK, Crash, dbVars
    <3>2. jobs' = jobs /\ lease_token' = lease_token /\ starts' = starts
      BY <2>1 DEF Crash, dbVars
    <3>3. ClaimsSound
      BY <2>1 DEF Crash, ClaimsSound, Retained
    <3>4. SoundStep /\ OwnerRegistered'
      BY <3>1, <3>2, SameRowsSound DEF OwnerRegistered, Registered
    <3> QED BY <1>2, <3>1, <3>2, <3>3, <3>4, StartsKept, SoundPreserves
  <2>2. ASSUME Tick \/ UNCHANGED vars PROVE QueueInv'
    <3>1. /\ jobs' = jobs /\ lease_token' = lease_token /\ starts' = starts
          /\ claims' = claims
      BY <2>2 DEF Tick, vars, dbVars, memVars
    <3>2. TypeOK /\ RowShape /\ OwnerRegistered /\ TypeOK'
      BY <1>2, <2>2 DEF QueueInv, TypeOK, Tick, vars, dbVars, memVars
    <3>3. SoundStep /\ OwnerRegistered'
      BY <3>1, <3>2, SameRowsSound DEF OwnerRegistered, Registered
    <3> QED BY <1>2, <3>1, <3>2, <3>3, StartsKept, ClaimsKept, SoundPreserves
  <2> QED BY <1>2, <2>1, <2>2, InvRow, InvWorker, InvStorage, InvFetch, InvClaim DEF Next
<1> QED BY <1>1, <1>2, PTL DEF Spec

\* No statement violates the shape constraints of the schema.
THEOREM RowsWellShaped == Spec => []RowShape
<1>1. QueueInv => RowShape
  BY DEF QueueInv
<1> QED BY <1>1, QueueSafe, PTL

\* The foreign key of lock_by always holds: an active row can be recovered.
THEOREM OwnersRegistered == Spec => []OwnerRegistered
<1>1. QueueInv => OwnerRegistered
  BY DEF QueueInv
<1> QED BY <1>1, QueueSafe, PTL

\* The number of executions of a task is bounded by its retry budget.
THEOREM ExecutionsCharged == Spec => []ChargedExecutions
<1>1. QueueInv => ChargedExecutions
  BY DEF QueueInv
<1> QED BY <1>1, QueueSafe, PTL

\* A started claim is current, or its row shows that it is over.
THEOREM StartedClaimsExact == Spec => []StartedClaimExact
<1>1. QueueInv => StartedClaimExact
  BY DEF QueueInv
<1> QED BY <1>1, QueueSafe, PTL

\* No two claims execute the same attempt of a task.
THEOREM SingleExecution == Spec => []OneExecutionPerAttempt
<1>1. QueueInv => OneExecutionPerAttempt
  BY DEF QueueInv
<1> QED BY <1>1, QueueSafe, PTL

-----------------------------------------------------------------------------
(* The life cycle. *)

\* What one statement may do to a row j of task t that it rewrites as r, seen
\* as a step of the life cycle.
LifeWrite(t, j, r) ==
  \/ r.status = j.status /\ r.attempts = j.attempts
  \/ j.status = "Absent" /\ r.status = "Pending" /\ r.attempts = j.attempts
  \/ /\ j.status \in {"Pending", "Failed"} /\ j.attempts < MaxAttempts[t]
     /\ r.status \in Active /\ r.attempts = j.attempts
  \/ j.status = "Queued" /\ r.status \in {"Running", "Pending"} /\ r.attempts = j.attempts
  \/ j.status \in Active /\ r.status = "Done" /\ r.attempts = j.attempts + 1
  \/ /\ j.status \in Active /\ r.attempts = j.attempts + 1
     /\ IF j.attempts + 1 < MaxAttempts[t] THEN r.status \in {"Pending", "Failed"}
        ELSE r.status = "Killed"
  \/ /\ j.status \in {"Pending", "Failed"} /\ j.attempts < MaxAttempts[t]
     /\ r.status = "Killed" /\ r.attempts = j.attempts + 1
  \/ j.status \in {"Done", "Killed"} /\ r.status = "Purged" /\ r.attempts = j.attempts

LifeStep == \A t \in Task : LifeWrite(t, jobs[t], jobs'[t])

\* A statement that writes one row so is a step of that task alone.
LEMMA WriteRowLife ==
  ASSUME TypeOK, NEW t \in Task, NEW r, LifeWrite(t, jobs[t], r), WriteRow(t, r)
  PROVE  LifeStep
<1> SUFFICES ASSUME NEW u \in Task PROVE LifeWrite(u, jobs[u], jobs'[u])
  BY DEF LifeStep
<1>1. CASE u = t
  BY <1>1 DEF WriteRow, TypeOK
<1>2. CASE u # t
  BY <1>2 DEF WriteRow, TypeOK, LifeWrite
<1> QED BY <1>1, <1>2

\* Recovery charges an active row and ends or frees it; without a charge it
\* hands an unstarted claim back.
LEMMA RecoverLife ==
  ASSUME TypeOK, RowShape, NEW S, NEW C, "Running" \in C,
         \A t \in S \cap Task : jobs[t].status \in Active,
         RecoverOwned(S, C)
  PROVE  LifeStep
<1> SUFFICES ASSUME NEW t \in Task PROVE LifeWrite(t, jobs[t], jobs'[t])
  BY DEF LifeStep
<1>1. jobs'[t] = IF t \in S THEN Recovered(t, C) ELSE jobs[t]
  BY DEF RecoverOwned
<1>2. CASE t \notin S
  BY <1>1, <1>2 DEF LifeWrite
<1>3. CASE t \in S
  <2> DEFINE next == IF jobs[t].status \in C THEN Charged(t) ELSE jobs[t].attempts
             dead == next >= MaxAttempts[t]
             r == Recovered(t, C)
  <2>1. /\ jobs[t] \in JobRow /\ jobs[t].attempts \in Nat /\ MaxAttempts[t] \in Nat \ {0}
        /\ jobs[t].attempts < MaxAttempts[t] /\ jobs[t].status \in Active
    BY <1>3, RowFacts DEF ShapeOK
  <2>2. r.status = (IF dead THEN "Killed" ELSE "Pending") /\ r.attempts = next
    BY <2>1 DEF Recovered, JobRow
  <2>3. CASE jobs[t].status \in C
    <3>1. next = jobs[t].attempts + 1
      BY <2>1, <2>3, ChargedIsNext
    <3> HIDE DEF next, r
    <3> QED BY <1>1, <1>3, <2>1, <2>2, <3>1 DEF LifeWrite, r
  <2>4. CASE jobs[t].status \notin C
    <3>1. next = jobs[t].attempts /\ jobs[t].status = "Queued"
      BY <2>1, <2>4 DEF Active
    <3> HIDE DEF next, r
    <3> QED BY <1>1, <1>3, <2>1, <2>2, <3>1 DEF LifeWrite, r
  <2> QED BY <2>3, <2>4
<1> QED BY <1>2, <1>3

\* Every step of the queue moves each task along its life cycle.
LEMMA NextLife ==
  ASSUME QueueInv, Next
  PROVE  LifeStep
<1>0. /\ TypeOK /\ RowShape
      /\ \A t \in Task : /\ jobs[t] \in JobRow /\ jobs[t].attempts \in Nat
                         /\ MaxAttempts[t] \in Nat \ {0} /\ ShapeOK(t, jobs[t])
  BY RowFacts DEF QueueInv
<1>1. ASSUME jobs' = jobs PROVE LifeStep
  BY <1>1 DEF LifeStep, LifeWrite
<1>2. ASSUME NEW t \in Task, RowStep(t) PROVE LifeStep
  <2>1. ASSUME NEW d \in Delay, Enqueue(t, d) PROVE LifeStep
    <3> DEFINE r == [jobs[t] EXCEPT !.status = "Pending", !.run_at = now + d]
    <3>1. r.status = "Pending" /\ r.attempts = jobs[t].attempts
      BY <1>0 DEF JobRow
    <3>2. WriteRow(t, r) /\ jobs[t].status = "Absent"
      BY <2>1 DEF Enqueue
    <3> HIDE DEF r
    <3> QED BY <1>0, <3>1, <3>2, WriteRowLife DEF LifeWrite
  <2>2. ASSUME Purge(t) PROVE LifeStep
    <3> DEFINE r == [jobs[t] EXCEPT !.status = "Purged", !.lock_by = None, !.lock_at = None,
                                    !.done_at = "null"]
    <3>1. r.status = "Purged" /\ r.attempts = jobs[t].attempts
      BY <1>0 DEF JobRow
    <3>2. WriteRow(t, r) /\ jobs[t].status \in {"Done", "Killed"}
      BY <1>0, <2>2 DEF Purge, Terminal, ShapeOK
    <3> HIDE DEF r
    <3> QED BY <1>0, <3>1, <3>2, WriteRowLife DEF LifeWrite
  <2>3. ASSUME Sweep(t) PROVE LifeStep
    <3>1. jobs[t].status \in Active /\ RecoverOwned({t}, Active)
      BY <2>3 DEF Sweep, Orphaned, Owned
    <3> QED BY <1>0, <3>1, RecoverLife DEF Active
  <2> QED BY <1>2, <2>1, <2>2, <2>3 DEF RowStep
<1>3. ASSUME NEW n \in Name, WorkerStep(n) PROVE LifeStep
  BY <1>1, <1>3 DEF WorkerStep, PruneWorker, AdminRegister
<1>4. ASSUME NEW s \in Storage, NEW n \in Name, StorageStep(s, n) PROVE LifeStep
  <2>1. Owned(n) \subseteq Task /\ \A t \in Owned(n) : jobs[t].status \in Active
    BY DEF Owned
  <2>2. "Running" \in Active /\ "Running" \in {"Running"}
    BY DEF Active
  <2>3. ASSUME NEW S \in SUBSET Orphaned, StartupSweep(s, n, S) PROVE LifeStep
    <3>1. RecoverOwned(S, Active) /\ \A t \in S \cap Task : jobs[t].status \in Active
      BY <2>3 DEF StartupSweep, Orphaned, Owned
    <3> QED BY <1>0, <2>2, <3>1, RecoverLife
  <2>4. CASE Register(s, n)
    <3> DEFINE S == IF Registered(n) /\ (lease_token[n] # s \/ Stale(n)) THEN Owned(n) ELSE {}
    <3>1. RecoverOwned(S, Active) /\ \A t \in S \cap Task : jobs[t].status \in Active
      BY <2>1, <2>4 DEF Register
    <3> HIDE DEF S
    <3> QED BY <1>0, <2>2, <3>1, RecoverLife
  <2>5. CASE ReleaseWorker(s, n)
    <3>1. RecoverOwned(Owned(n), {"Running"})
      BY <2>5 DEF ReleaseWorker
    <3> QED BY <1>0, <2>1, <2>2, <3>1, RecoverLife
  <2>6. CASE RegisterRefused(s, n) \/ KeepAlive(s, n) \/ RetireWorker(s, n)
    BY <1>1, <2>6 DEF RegisterRefused, KeepAlive, RetireWorker, dbVars
  <2> QED BY <1>4, <2>3, <2>4, <2>5, <2>6 DEF StorageStep
<1>5. ASSUME NEW s \in Caller, NEW n \in Name, NEW t \in Task, FetchStep(s, n, t) PROVE LifeStep
  <2>1. \/ Claimable(t) /\ WriteRow(t, Fetched(n, t))
        \/ Claimable(t) /\ WriteRow(t, Quarantined(t))
        \/ (Claimable(t) \/ t \in Owned(n)) /\ WriteRow(t, Locked(n, t))
    BY <1>5 DEF FetchStep, FetchNext, FetchUnconfirmed, FetchMalformed, LockTask, LockUnconfirmed,
                MayFetch, MayLock
  <2>2. /\ Fetched(n, t).status = "Queued" /\ Fetched(n, t).attempts = jobs[t].attempts
        /\ Quarantined(t).status = "Killed" /\ Quarantined(t).attempts = Charged(t)
        /\ Locked(n, t).status = "Running" /\ Locked(n, t).attempts = jobs[t].attempts
    BY <1>0 DEF Fetched, Quarantined, Locked, JobRow
  <2>3. Claimable(t) => /\ jobs[t].status \in {"Pending", "Failed"}
                        /\ jobs[t].attempts < MaxAttempts[t]
                        /\ Charged(t) = jobs[t].attempts + 1
    BY <1>0, ChargedIsNext DEF Claimable
  <2>4. t \in Owned(n) => jobs[t].status \in Active
    BY DEF Owned
  <2>5. /\ Claimable(t) => LifeWrite(t, jobs[t], Fetched(n, t)) /\ LifeWrite(t, jobs[t], Quarantined(t))
        /\ Claimable(t) \/ t \in Owned(n) => LifeWrite(t, jobs[t], Locked(n, t))
    BY <2>2, <2>3, <2>4 DEF LifeWrite, Active
  <2> QED BY <1>0, <2>1, <2>5, WriteRowLife
<1>6. ASSUME NEW c \in Claim, ClaimStep(c) PROVE LifeStep
  <2> DEFINE k == claims[c]
             t == k.task
             g == [jobs[t] EXCEPT !.status = "Running"]
  <2>1. k \in ClaimRecord /\ t \in Task
    BY <1>0, <1>6, HeldType DEF ClaimRecord, ClaimStep, FailUndecodable, StartTask, StartUnconfirmed,
                                StartRefused, MayAck, AckTask, AckUnconfirmed, Abandon
  <2>2. \/ jobs' = jobs
        \/ EpochHolds(k) /\ WriteRow(t, Undecodable(t))
        \/ EpochHolds(k) /\ \E res \in {"Ok", "Err"} : WriteRow(t, Acked(k, res))
        \/ EpochHolds(k) /\ jobs[t].status = "Queued" /\ WriteRow(t, g)
    BY <1>6 DEF ClaimStep, FailUndecodable, StartTask, StartUnconfirmed, StartRefused, AckTask,
                AckUnconfirmed, Abandon, AckMatches, StartMatches, StartRow, dbVars
  <2>3. EpochHolds(k) => /\ jobs[t].status \in Active /\ jobs[t].attempts = k.attempts
                         /\ jobs[t].attempts < MaxAttempts[t] /\ Charged(t) = jobs[t].attempts + 1
    BY <1>0, <2>1, ChargedIsNext DEF EpochHolds, ShapeOK
  <2>4. jobs[t] \in JobRow /\ jobs[t].attempts \in Nat /\ MaxAttempts[t] \in Nat \ {0}
    BY <1>0, <2>1
  <2>5. ASSUME EpochHolds(k) PROVE LifeWrite(t, jobs[t], Undecodable(t))
    <3>1. /\ Undecodable(t).attempts = jobs[t].attempts + 1
          /\ Undecodable(t).status =
               (IF jobs[t].attempts + 1 >= MaxAttempts[t] THEN "Killed" ELSE "Failed")
      BY <2>3, <2>4, <2>5 DEF Undecodable, JobRow
    <3> QED BY <2>3, <2>4, <2>5, <3>1 DEF LifeWrite
  <2>6. ASSUME EpochHolds(k), NEW res \in {"Ok", "Err"} PROVE LifeWrite(t, jobs[t], Acked(k, res))
    <3>1. /\ Acked(k, res).attempts = jobs[t].attempts + 1
          /\ Acked(k, res).status = CalculateStatus(t, jobs[t].attempts + 1, res)
      BY <2>3, <2>4, <2>6 DEF Acked, JobRow
    <3> QED BY <2>3, <2>4, <2>6, <3>1 DEF LifeWrite, CalculateStatus
  <2>7. ASSUME jobs[t].status = "Queued" PROVE LifeWrite(t, jobs[t], g)
    <3>1. g.status = "Running" /\ g.attempts = jobs[t].attempts
      BY <2>4 DEF JobRow
    <3> QED BY <2>7, <3>1 DEF LifeWrite
  <2> HIDE DEF g, k
  <2> QED BY <1>0, <1>1, <2>1, <2>2, <2>5, <2>6, <2>7, WriteRowLife
<1>7. ASSUME Tick \/ \E s \in Storage : Crash(s) PROVE LifeStep
  BY <1>1, <1>7 DEF Tick, Crash, dbVars
<1> QED BY <1>2, <1>3, <1>4, <1>5, <1>6, <1>7 DEF Next

\* The phase of a row by its status.
LEMMA PhaseByStatus ==
  ASSUME NEW t \in Task
  PROVE  /\ jobs[t].status = "Absent" => PhaseOf(t) = "absent"
         /\ jobs[t].status \in {"Pending", "Failed"} => PhaseOf(t) = "waiting"
         /\ jobs[t].status = "Queued" => PhaseOf(t) = "claimed"
         /\ jobs[t].status = "Running" => PhaseOf(t) = "running"
         /\ jobs[t].status = "Done" => PhaseOf(t) = "done"
         /\ jobs[t].status = "Killed" => PhaseOf(t) = "dead"
         /\ jobs[t].status = "Purged" => PhaseOf(t) = "removed"
BY DEF PhaseOf

LEMMA PhaseByStatusNext ==
  ASSUME NEW t \in Task
  PROVE  /\ jobs'[t].status = "Absent" => PhaseOf(t)' = "absent"
         /\ jobs'[t].status \in {"Pending", "Failed"} => PhaseOf(t)' = "waiting"
         /\ jobs'[t].status = "Queued" => PhaseOf(t)' = "claimed"
         /\ jobs'[t].status = "Running" => PhaseOf(t)' = "running"
         /\ jobs'[t].status = "Done" => PhaseOf(t)' = "done"
         /\ jobs'[t].status = "Killed" => PhaseOf(t)' = "dead"
         /\ jobs'[t].status = "Purged" => PhaseOf(t)' = "removed"
BY DEF PhaseOf

\* The queue starts where the life cycle starts.
LEMMA LifecycleInit == Init => Lifecycle!Init
<1> SUFFICES ASSUME Init PROVE Lifecycle!Init
  OBVIOUS
<1>1. \A t \in Task : jobs[t].status = "Absent" /\ jobs[t].attempts = 0
  BY DEF Init, NewRow
<1>2. \A t \in Task : PhaseOf(t) = "absent"
  BY <1>1, PhaseByStatus
<1> QED BY <1>1, <1>2 DEF Lifecycle!Init

\* A rewriting of the rows that is sound for the life cycle is a step of it.
LEMMA LifecycleStep ==
  ASSUME TypeOK, TypeOK', LifeStep
  PROVE  Lifecycle!Next
<1> DEFINE ph == [t \in Task |-> PhaseOf(t)]
           at == [t \in Task |-> jobs[t].attempts]
<1>1. ASSUME NEW t \in Task
      PROVE  /\ jobs[t].status \in Status /\ jobs'[t].status \in Status
             /\ jobs[t].attempts \in Nat /\ jobs'[t].attempts \in Nat
             /\ MaxAttempts[t] \in Nat \ {0}
  BY BudgetAssumption DEF TypeOK, JobRow
<1>2. ASSUME NEW t \in Task
      PROVE  /\ ph[t] = PhaseOf(t) /\ ph'[t] = PhaseOf(t)'
             /\ at[t] = jobs[t].attempts /\ at'[t] = jobs'[t].attempts
  OBVIOUS
<1>3. ph' \in [Task -> Lifecycle!Phase]
  <2>1. ASSUME NEW t \in Task PROVE PhaseOf(t)' \in Lifecycle!Phase
    BY <1>1, PhaseByStatusNext DEF Status, Lifecycle!Phase
  <2> QED BY <2>1
<1>4. at' \in [Task -> Nat]
  BY <1>1
<1>5. ASSUME NEW t \in Task PROVE Lifecycle!TaskStep(t)
  <2> DEFINE j == jobs[t]
             r == jobs'[t]
             m(from, to, charge) == /\ PhaseOf(t) \in from /\ PhaseOf(t)' = to
                                    /\ r.attempts = j.attempts + charge
  <2>1. LifeWrite(t, j, r)
    BY DEF LifeStep
  <2>2. \A from, to, charge : m(from, to, charge) => Lifecycle!Moves(t, from, to, charge)
    BY <1>2 DEF Lifecycle!Moves
  <2>3. CASE r.status = j.status /\ r.attempts = j.attempts
    <3>1. PhaseOf(t)' = PhaseOf(t)
      BY <2>3 DEF PhaseOf
    <3>2. Lifecycle!Stays(t)
      BY <1>2, <2>3, <3>1 DEF Lifecycle!Stays
    <3> QED BY <3>2 DEF Lifecycle!TaskStep
  <2>4. CASE j.status = "Absent" /\ r.status = "Pending" /\ r.attempts = j.attempts
    <3>1. m({"absent"}, "waiting", 0)
      BY <1>1, <2>4, PhaseByStatus, PhaseByStatusNext
    <3> HIDE DEF m
    <3>2. Lifecycle!Submit(t)
      BY <2>2, <3>1 DEF Lifecycle!Submit
    <3> QED BY <3>2 DEF Lifecycle!TaskStep
  <2>5. CASE /\ j.status \in {"Pending", "Failed"} /\ j.attempts < MaxAttempts[t]
             /\ r.status \in Active /\ r.attempts = j.attempts
    <3>1. m({"waiting"}, "claimed", 0) \/ m({"waiting"}, "running", 0)
      BY <1>1, <2>5, PhaseByStatus, PhaseByStatusNext DEF Active
    <3> HIDE DEF m
    <3>2. at[t] < MaxAttempts[t]
      BY <1>2, <2>5
    <3>3. Lifecycle!TakeUp(t)
      BY <2>2, <3>1, <3>2 DEF Lifecycle!TakeUp
    <3> QED BY <3>3 DEF Lifecycle!TaskStep
  <2>6. CASE j.status = "Queued" /\ r.status \in {"Running", "Pending"} /\ r.attempts = j.attempts
    <3>1. m({"claimed"}, "running", 0) \/ m({"claimed"}, "waiting", 0)
      BY <1>1, <2>6, PhaseByStatus, PhaseByStatusNext
    <3> HIDE DEF m
    <3>2. Lifecycle!Run(t) \/ Lifecycle!HandBack(t)
      BY <2>2, <3>1 DEF Lifecycle!Run, Lifecycle!HandBack
    <3> QED BY <3>2 DEF Lifecycle!TaskStep
  <2>7. CASE j.status \in Active /\ r.status = "Done" /\ r.attempts = j.attempts + 1
    <3>1. m({"claimed", "running"}, "done", 1)
      BY <1>1, <2>7, PhaseByStatus, PhaseByStatusNext DEF Active
    <3> HIDE DEF m
    <3>2. Lifecycle!Complete(t)
      BY <2>2, <3>1 DEF Lifecycle!Complete
    <3> QED BY <3>2 DEF Lifecycle!TaskStep
  <2>8. CASE /\ j.status \in Active /\ r.attempts = j.attempts + 1
             /\ IF j.attempts + 1 < MaxAttempts[t] THEN r.status \in {"Pending", "Failed"}
                ELSE r.status = "Killed"
    <3> DEFINE to == IF at[t] + 1 < MaxAttempts[t] THEN "waiting" ELSE "dead"
    <3>1. at[t] = j.attempts
      BY <1>2
    <3>2. PhaseOf(t) \in {"claimed", "running"}
      BY <2>8, PhaseByStatus DEF Active
    <3>3. PhaseOf(t)' = to
      BY <2>8, <3>1, PhaseByStatusNext
    <3>4. m({"claimed", "running"}, to, 1)
      BY <2>8, <3>2, <3>3
    <3>5. Lifecycle!Moves(t, {"claimed", "running"}, to, 1)
      <4> HIDE DEF m, to
      <4> QED BY <2>2, <3>4
    <3>6. Lifecycle!Fail(t)
      BY <3>5 DEF Lifecycle!Fail
    <3> QED BY <3>6 DEF Lifecycle!TaskStep
  <2>9. CASE /\ j.status \in {"Pending", "Failed"} /\ j.attempts < MaxAttempts[t]
             /\ r.status = "Killed" /\ r.attempts = j.attempts + 1
    <3>1. m({"waiting"}, "dead", 1)
      BY <1>1, <2>9, PhaseByStatus, PhaseByStatusNext
    <3> HIDE DEF m
    <3>2. at[t] < MaxAttempts[t]
      BY <1>2, <2>9
    <3>3. Lifecycle!Quarantine(t)
      BY <2>2, <3>1, <3>2 DEF Lifecycle!Quarantine
    <3> QED BY <3>3 DEF Lifecycle!TaskStep
  <2>10. CASE j.status \in {"Done", "Killed"} /\ r.status = "Purged" /\ r.attempts = j.attempts
    <3>1. m({"done", "dead"}, "removed", 0)
      BY <1>1, <2>10, PhaseByStatus, PhaseByStatusNext
    <3> HIDE DEF m
    <3>2. Lifecycle!Remove(t)
      BY <2>2, <3>1 DEF Lifecycle!Remove
    <3> QED BY <3>2 DEF Lifecycle!TaskStep
  <2> QED BY <2>1, <2>3, <2>4, <2>5, <2>6, <2>7, <2>8, <2>9, <2>10 DEF LifeWrite
<1> QED BY <1>3, <1>4, <1>5 DEF Lifecycle!Next

\* The queue implements the life cycle of its tasks: every transaction of any
\* worker, sweep or administrator is a step of each task it touches.
THEOREM QueueImplementsLifecycle == Spec => ImplementsLifecycle
<1>1. Init => Lifecycle!Init
  BY LifecycleInit
<1>2. ASSUME QueueInv, QueueInv', [Next]_vars PROVE [Lifecycle!Next]_(Lifecycle!vars)
  <2>1. CASE Next
    <3>1. LifeStep /\ TypeOK /\ TypeOK'
      BY <1>2, <2>1, NextLife DEF QueueInv
    <3> QED BY <3>1, LifecycleStep
  <2>2. CASE UNCHANGED vars
    <3>1. UNCHANGED jobs
      BY <2>2 DEF vars
    <3> QED BY <3>1 DEF Lifecycle!vars, PhaseOf
  <2> QED BY <1>2, <2>1, <2>2
<1> QED BY <1>1, <1>2, QueueSafe, PTL DEF Spec, ImplementsLifecycle, Lifecycle!Spec

-----------------------------------------------------------------------------
(* No claim is stranded behind a live registration. *)

\* The row t is active under the name n, whose registration a storage renews.
Managed(t, n) ==
  t \in Owned(n) /\ lease_token[n] \in Storage /\ LeaseActive(lease_token[n], n)

\* The storage has the claim of row t in slot c.
Backs(c, t, n) ==
  /\ Held(c) /\ claims[c].task = t /\ claims[c].storage = lease_token[n]
  /\ EpochHolds(claims[c])
  /\ jobs[t].status = "Running" => claims[c].stage \in {"started", "relocked"}

LEMMA StrandedMeans ==
  ASSUME None \notin Caller
  PROVE  NoStrandedClaim <=> \A t \in Task, n \in Name :
                                Managed(t, n) => \E c \in Claim : Backs(c, t, n)
BY DEF NoStrandedClaim, Managed, Backs

LEMMA StrandedMeansNext ==
  ASSUME None \notin Caller
  PROVE  NoStrandedClaim' <=> \A t \in Task, n \in Name :
                                 Managed(t, n)' => \E c \in Claim : Backs(c, t, n)'
BY DEF NoStrandedClaim, Managed, Backs

\* A step keeps the property if every row it leaves managed is backed by a new
\* claim, or is as before and keeps its claim.
LEMMA StayBacked ==
  ASSUME QueueInv, NoStrandedClaim, None \notin Caller,
         retired \subseteq retired', crashed \subseteq crashed',
         ASSUME NEW t \in Task, NEW n \in Name, Managed(t, n)'
         PROVE  \/ \E c \in Claim : Backs(c, t, n)'
                \/ /\ jobs'[t] = jobs[t] /\ lease_token'[n] = lease_token[n]
                   /\ \A c \in Claim : Managed(t, n) /\ Backs(c, t, n) => claims'[c] = claims[c]
  PROVE  NoStrandedClaim'
<1> SUFFICES ASSUME NEW t \in Task, NEW n \in Name, Managed(t, n)'
             PROVE  \E c \in Claim : Backs(c, t, n)'
  BY StrandedMeansNext
<1>1. CASE /\ jobs'[t] = jobs[t] /\ lease_token'[n] = lease_token[n]
           /\ \A c \in Claim : Managed(t, n) /\ Backs(c, t, n) => claims'[c] = claims[c]
  <2>1. Managed(t, n)
    BY <1>1 DEF Managed, Owned, LeaseActive
  <2>2. PICK c \in Claim : Backs(c, t, n)
    BY <2>1, StrandedMeans
  <2>3. claims'[c] = claims[c]
    BY <1>1, <2>1, <2>2
  <2>4. Backs(c, t, n)'
    BY <1>1, <2>2, <2>3 DEF Backs, Held, EpochHolds
  <2> QED BY <2>4
<1> QED BY <1>1

\* A step that changes no claim and no registration, and after which no row it
\* wrote is active.
LEMMA EndedRows ==
  ASSUME QueueInv, NoStrandedClaim, None \notin Caller,
         retired \subseteq retired', crashed \subseteq crashed',
         lease_token' = lease_token, claims' = claims,
         \A t \in Task : jobs'[t] = jobs[t] \/ jobs'[t].status \notin Active
  PROVE  NoStrandedClaim'
<1>1. ASSUME NEW t \in Task, NEW n \in Name, Managed(t, n)' PROVE jobs'[t] = jobs[t]
  BY <1>1 DEF Managed, Owned
<1> QED BY <1>1, StayBacked

\* What recovery leaves of the rows.
LEMMA RecoveredRows ==
  ASSUME TypeOK, RowShape, NEW S, NEW C, "Running" \in C,
         \A t \in S \cap Task : jobs[t].status \in Active,
         RecoverOwned(S, C)
  PROVE  \A t \in Task : IF t \in S THEN jobs'[t].status \notin Active ELSE jobs'[t] = jobs[t]
<1> SUFFICES ASSUME NEW t \in Task
             PROVE  IF t \in S THEN jobs'[t].status \notin Active ELSE jobs'[t] = jobs[t]
  OBVIOUS
<1>1. jobs'[t] = IF t \in S THEN Recovered(t, C) ELSE jobs[t]
  BY DEF RecoverOwned
<1>2. CASE t \in S
  <2>1. Recovered(t, C).status \in {"Pending", "Killed"}
    BY <1>2, RecoveredSound
  <2> QED BY <1>1, <1>2, <2>1 DEF Active
<1> QED BY <1>1, <1>2

\* A claim in memory is of a storage, in the runs where every caller has one.
LEMMA ClaimOfStorage ==
  ASSUME TypeOK, None \notin Caller, NEW c \in Claim, Held(c)
  PROVE  /\ claims[c] \in ClaimRecord /\ claims[c].task \in Task /\ claims[c].name \in Name
         /\ claims[c].storage \in Storage /\ claims[c].storage # None
<1>1. claims[c] \in ClaimRecord
  BY HeldType
<1> QED BY <1>1, CallerAssumption, NullAssumption DEF ClaimRecord

LEMMA BackedRow ==
  ASSUME QueueInv, NoStrandedClaim, None \notin Caller, NEW t \in Task, RowStep(t)
  PROVE  NoStrandedClaim'
<1>0. TypeOK /\ RowShape
  BY DEF QueueInv
<1>1. UNCHANGED <<lease_token, claims, retired, crashed>>
  BY DEF RowStep, Enqueue, Purge, Sweep, memVars
<1>2. \A u \in Task : jobs'[u] = jobs[u] \/ jobs'[u].status \notin Active
  <2>1. ASSUME NEW d \in Delay, Enqueue(t, d) PROVE jobs'[t].status = "Pending" /\ \A u \in Task : u # t => jobs'[u] = jobs[u]
    BY <1>0, <2>1 DEF Enqueue, WriteRow, TypeOK, JobRow
  <2>2. ASSUME Purge(t) PROVE jobs'[t].status = "Purged" /\ \A u \in Task : u # t => jobs'[u] = jobs[u]
    BY <1>0, <2>2 DEF Purge, WriteRow, TypeOK, JobRow
  <2>3. ASSUME Sweep(t) PROVE \A u \in Task : jobs'[u] = jobs[u] \/ jobs'[u].status \notin Active
    <3>1. jobs[t].status \in Active /\ RecoverOwned({t}, Active)
      BY <2>3 DEF Sweep, Orphaned, Owned
    <3> QED BY <1>0, <3>1, RecoveredRows DEF Active
  <2> QED BY <2>1, <2>2, <2>3 DEF RowStep, Active
<1> QED BY <1>1, <1>2, EndedRows

LEMMA BackedWorker ==
  ASSUME QueueInv, NoStrandedClaim, None \notin Caller, NEW n \in Name, WorkerStep(n)
  PROVE  NoStrandedClaim'
<1>0. TypeOK
  BY DEF QueueInv
<1>1. UNCHANGED <<jobs, claims, retired, crashed>>
  BY DEF WorkerStep, PruneWorker, AdminRegister, memVars
<1>2. ASSUME NEW m \in Name, lease_token'[m] \in Storage PROVE lease_token'[m] = lease_token[m]
  BY <1>0, <1>2, NullAssumption DEF WorkerStep, PruneWorker, AdminRegister, TypeOK, Registered
<1>3. ASSUME NEW t \in Task, NEW m \in Name, Managed(t, m)' PROVE lease_token'[m] = lease_token[m]
  BY <1>2, <1>3 DEF Managed
<1> QED BY <1>1, <1>3, StayBacked

LEMMA BackedStorage ==
  ASSUME QueueInv, NoStrandedClaim, None \notin Caller,
         NEW s \in Storage, NEW n \in Name, StorageStep(s, n)
  PROVE  NoStrandedClaim'
<1>0. TypeOK /\ RowShape /\ OwnerRegistered
  BY DEF QueueInv
<1>1. /\ UNCHANGED <<claims, crashed>> /\ retired \subseteq retired'
  BY DEF StorageStep, StartupSweep, Register, RegisterRefused, KeepAlive, RetireWorker, Retire,
         ReleaseWorker, memVars
<1>2. "Running" \in Active /\ Owned(n) \subseteq Task /\ \A t \in Owned(n) : jobs[t].status \in Active
  BY DEF Active, Owned
<1>3. ASSUME NEW S \in SUBSET Orphaned, StartupSweep(s, n, S) PROVE NoStrandedClaim'
  <2>1. /\ RecoverOwned(S, Active) /\ \A t \in S \cap Task : jobs[t].status \in Active
        /\ lease_token' = lease_token
    BY <1>3 DEF StartupSweep, Orphaned, Owned
  <2>2. \A t \in Task : jobs'[t] = jobs[t] \/ jobs'[t].status \notin Active
    BY <1>0, <1>2, <2>1, RecoveredRows
  <2> QED BY <1>1, <2>1, <2>2, EndedRows
<1>4. CASE Register(s, n)
  <2> DEFINE lost == Registered(n) /\ (lease_token[n] # s \/ Stale(n))
             S == IF lost THEN Owned(n) ELSE {}
  <2>1. /\ RecoverOwned(S, Active) /\ S \subseteq Owned(n)
        /\ lease_token' = [lease_token EXCEPT ![n] = s]
    BY <1>4 DEF Register
  <2>2. \A t \in Task : IF t \in S THEN jobs'[t].status \notin Active ELSE jobs'[t] = jobs[t]
    <3> HIDE DEF S
    <3> QED BY <1>0, <1>2, <2>1, RecoveredRows
  <2>3. \A m \in Name : m # n => lease_token'[m] = lease_token[m]
    BY <1>0, <2>1 DEF TypeOK
  <2>4. ASSUME NEW t \in Task, NEW m \in Name, Managed(t, m)'
        PROVE  jobs'[t] = jobs[t] /\ lease_token'[m] = lease_token[m]
    <3>1. jobs'[t] = jobs[t] /\ t \notin S /\ t \in Owned(m)
      BY <2>2, <2>4 DEF Managed, Owned
    <3>2. CASE m # n
      BY <2>3, <3>1, <3>2
    <3>3. CASE m = n
      <4>1. Registered(n)
        BY <1>0, <3>1, <3>3, NullAssumption DEF OwnerRegistered, Owned
      <4>2. lease_token[n] = s
        BY <3>1, <3>3, <4>1
      <4> QED BY <1>0, <2>1, <3>1, <3>3, <4>2 DEF TypeOK
    <3> QED BY <3>2, <3>3
  <2> QED BY <1>1, <2>4, StayBacked
<1>5. CASE ReleaseWorker(s, n)
  <2>1. /\ RecoverOwned(Owned(n), {"Running"}) /\ lease_token' = [lease_token EXCEPT ![n] = None]
    BY <1>5 DEF ReleaseWorker
  <2>2. \A t \in Task : IF t \in Owned(n) THEN jobs'[t].status \notin Active ELSE jobs'[t] = jobs[t]
    BY <1>0, <1>2, <2>1, RecoveredRows
  <2>3. ASSUME NEW t \in Task, NEW m \in Name, Managed(t, m)'
        PROVE  jobs'[t] = jobs[t] /\ lease_token'[m] = lease_token[m]
    <3>1. jobs'[t] = jobs[t]
      BY <2>2, <2>3 DEF Managed, Owned
    <3>2. m # n
      BY <1>0, <2>1, <2>3, NullAssumption DEF Managed, TypeOK
    <3> QED BY <1>0, <2>1, <3>1, <3>2 DEF TypeOK
  <2> QED BY <1>1, <2>3, StayBacked
<1>6. CASE RegisterRefused(s, n) \/ KeepAlive(s, n) \/ RetireWorker(s, n)
  <2>1. jobs' = jobs /\ lease_token' = lease_token
    BY <1>6 DEF RegisterRefused, KeepAlive, RetireWorker, dbVars
  <2> QED BY <1>1, <2>1, EndedRows
<1> QED BY <1>3, <1>4, <1>5, <1>6 DEF StorageStep

LEMMA BackedFetch ==
  ASSUME QueueInv, NoStrandedClaim, None \notin Caller,
         NEW s \in Caller, NEW n \in Name, NEW t \in Task, FetchStep(s, n, t)
  PROVE  NoStrandedClaim'
<1>0. TypeOK /\ jobs[t] \in JobRow /\ s \in Storage /\ s # None
  BY RowFacts, CallerAssumption, NullAssumption DEF QueueInv
<1>1. /\ retired \subseteq retired' /\ crashed' = crashed /\ lease_token' = lease_token
      /\ lease_token[n] = s
  BY <1>0 DEF FetchStep, FetchNext, FetchUnconfirmed, FetchMalformed, LockTask, LockUnconfirmed,
              MayFetch, MayLock, CurrentWorker, Retire, memVars
<1>2. ASSUME NEW r, WriteRow(t, r) PROVE jobs'[t] = r /\ \A u \in Task : u # t => jobs'[u] = jobs[u]
  BY <1>0, <1>2 DEF WriteRow, TypeOK
<1>3. /\ Fetched(n, t).status = "Queued" /\ Fetched(n, t).attempts = jobs[t].attempts
      /\ Fetched(n, t).lock_by = n /\ Fetched(n, t).lock_at = ThisSecond
      /\ Locked(n, t).status = "Running" /\ Locked(n, t).attempts = jobs[t].attempts
      /\ Locked(n, t).lock_by = n /\ Quarantined(t).status = "Killed"
  BY <1>0 DEF Fetched, Locked, Quarantined, JobRow
<1>4. ASSUME NEW r, WriteRow(t, r), r.lock_by = n, r.attempts = jobs[t].attempts,
             NEW c \in Claim, ~Held(c),
             NEW g \in Stage, r.status = "Queued" \/ (r.status = "Running" /\ g \in {"started", "relocked"}),
             claims' = [claims EXCEPT ![c] = NewClaim(s, n, t, r.lock_at, g)]
      PROVE  NoStrandedClaim'
  <2> DEFINE k == NewClaim(s, n, t, r.lock_at, g)
  <2>1. /\ k.task = t /\ k.name = n /\ k.storage = s /\ k.lock_at = r.lock_at /\ k.stage = g
        /\ k.attempts = jobs[t].attempts
    BY DEF NewClaim
  <2>2. claims'[c] = k /\ \A d \in Claim : d # c => claims'[d] = claims[d]
    BY <1>0, <1>4 DEF TypeOK
  <2>3. k # NoClaim
    <3>1. TypeOK'
      BY TypeFetch, <1>0
    <3>2. jobs'[t].lock_at \in Nat \union {None}
      BY <3>1 DEF TypeOK, JobRow
    <3>3. k \in ClaimRecord
      BY <1>0, <1>2, <1>4, <3>2, NewClaimType
    <3> QED BY <3>3, NullAssumption
  <2> HIDE DEF k
  <2>4. Backs(c, t, n)'
    BY <1>1, <1>2, <1>4, <2>1, <2>2, <2>3 DEF Backs, Held, EpochHolds, Active
  <2>5. ASSUME NEW u \in Task, NEW m \in Name, Managed(u, m)'
        PROVE  \/ \E d \in Claim : Backs(d, u, m)'
               \/ /\ jobs'[u] = jobs[u] /\ lease_token'[m] = lease_token[m]
                  /\ \A d \in Claim : Managed(u, m) /\ Backs(d, u, m) => claims'[d] = claims[d]
    <3>1. CASE u = t
      <4>1. m = n
        BY <1>2, <1>4, <2>5, <3>1 DEF Managed, Owned
      <4> QED BY <2>4, <3>1, <4>1
    <3>2. CASE u # t
      <4>1. jobs'[u] = jobs[u]
        BY <1>2, <1>4, <3>2
      <4> QED BY <1>1, <1>4, <2>2, <4>1 DEF Backs
    <3> QED BY <3>1, <3>2
  <2> QED BY <1>1, <2>5, StayBacked
<1>5. ASSUME NEW c \in Claim, FetchNext(s, n, t, c) PROVE NoStrandedClaim'
  <2>1. /\ WriteRow(t, Fetched(n, t)) /\ ~Held(c)
        /\ claims' = [claims EXCEPT ![c] = NewClaim(s, n, t, Fetched(n, t).lock_at, "claimed")]
    BY <1>3, <1>5 DEF FetchNext
  <2> QED BY <1>3, <1>4, <2>1 DEF Stage
<1>6. ASSUME NEW c \in Claim, LockTask(s, n, t, c) PROVE NoStrandedClaim'
  <2> DEFINE g == IF jobs[t].status = "Running" THEN "relocked" ELSE "started"
  <2>1. /\ WriteRow(t, Locked(n, t)) /\ ~Held(c)
        /\ claims' = [claims EXCEPT ![c] = NewClaim(s, n, t, Locked(n, t).lock_at, g)]
    BY <1>6 DEF LockTask
  <2>2. g \in Stage /\ g \in {"started", "relocked"}
    BY DEF Stage
  <2> HIDE DEF g
  <2> QED BY <1>3, <1>4, <2>1, <2>2
<1>7. ASSUME NEW r, WriteRow(t, r), r.lock_by = n, claims' = claims, retired' = Retire(s, n)
      PROVE  NoStrandedClaim'
  <2>1. <<s, n>> \in retired'
    BY <1>0, <1>7 DEF Retire
  <2>2. ASSUME NEW u \in Task, NEW m \in Name, Managed(u, m)' PROVE jobs'[u] = jobs[u]
    <3>1. CASE u = t
      <4>1. m = n
        BY <1>2, <1>7, <2>2, <3>1 DEF Managed, Owned
      <4> QED BY <1>0, <1>1, <2>1, <2>2, <4>1 DEF Managed, LeaseActive
    <3> QED BY <1>2, <1>7, <3>1
  <2> QED BY <1>1, <1>7, <2>2, StayBacked
<1>8. ASSUME FetchUnconfirmed(s, n, t) \/ LockUnconfirmed(s, n, t) PROVE NoStrandedClaim'
  BY <1>3, <1>7, <1>8 DEF FetchUnconfirmed, LockUnconfirmed
<1>9. ASSUME FetchMalformed(s, n, t) PROVE NoStrandedClaim'
  <2>1. WriteRow(t, Quarantined(t)) /\ claims' = claims
    BY <1>9 DEF FetchMalformed, memVars
  <2>2. \A u \in Task : jobs'[u] = jobs[u] \/ jobs'[u].status \notin Active
    BY <1>2, <1>3, <2>1 DEF Active
  <2> QED BY <1>1, <2>1, <2>2, EndedRows
<1> QED BY <1>5, <1>6, <1>8, <1>9 DEF FetchStep

LEMMA BackedClaim ==
  ASSUME QueueInv, NoStrandedClaim, None \notin Caller, NEW c \in Claim, ClaimStep(c)
  PROVE  NoStrandedClaim'
<1> DEFINE k == claims[c]
           t == k.task
<1>0. TypeOK /\ RowShape
  BY DEF QueueInv
<1>1. Held(c)
  BY DEF ClaimStep, FailUndecodable, StartTask, StartUnconfirmed, StartRefused, MayAck, AckTask,
         AckUnconfirmed, Abandon
<1>2. /\ k \in ClaimRecord /\ t \in Task /\ k.name \in Name /\ k.storage \in Storage
      /\ k.storage # None /\ jobs[t] \in JobRow
  BY <1>0, <1>1, ClaimOfStorage DEF TypeOK
<1>3. /\ retired \subseteq retired' /\ crashed' = crashed /\ lease_token' = lease_token
      /\ \A d \in Claim : d # c => claims'[d] = claims[d]
  BY <1>0 DEF ClaimStep, FailUndecodable, StartTask, StartUnconfirmed, StartRefused, AckTask,
              AckUnconfirmed, Abandon, Retire, Forget, dbVars, TypeOK
<1>4. ASSUME NEW r, WriteRow(t, r) PROVE jobs'[t] = r /\ \A u \in Task : u # t => jobs'[u] = jobs[u]
  BY <1>0, <1>2, <1>4 DEF WriteRow, TypeOK
<1>5. ASSUME NEW u \in Task, u # t, NEW m \in Name, NEW d \in Claim, Backs(d, u, m)
      PROVE  claims'[d] = claims[d]
  BY <1>3, <1>5 DEF Backs
<1>6. ASSUME NEW r, WriteRow(t, r), r.status \notin Active PROVE NoStrandedClaim'
  <2>1. ASSUME NEW u \in Task, NEW m \in Name, Managed(u, m)' PROVE jobs'[u] = jobs[u] /\ u # t
    BY <1>4, <1>6, <2>1 DEF Managed, Owned
  <2> QED BY <1>3, <1>5, <2>1, StayBacked
<1>7. ASSUME \/ FailUndecodable(c)
             \/ \E res \in {"Ok", "Err"} : AckTask(c, res) \/ AckUnconfirmed(c, res)
      PROVE  NoStrandedClaim'
  <2>1. Undecodable(t).status \notin Active
    BY <1>2 DEF Undecodable, JobRow, Active
  <2>2. \A res \in {"Ok", "Err"} : Acked(k, res).status \notin Active
    BY <1>2 DEF Acked, CalculateStatus, JobRow, Active
  <2> QED BY <1>6, <1>7, <2>1, <2>2 DEF FailUndecodable, AckTask, AckUnconfirmed
<1>8. ASSUME jobs' = jobs, Forget(c),
             \A u \in Task, m \in Name : Managed(u, m)' /\ Managed(u, m) => ~Backs(c, u, m)
      PROVE  NoStrandedClaim'
  <2>1. ASSUME NEW u \in Task, NEW m \in Name, Managed(u, m)'
        PROVE  /\ jobs'[u] = jobs[u] /\ lease_token'[m] = lease_token[m]
               /\ \A d \in Claim : Managed(u, m) /\ Backs(d, u, m) => claims'[d] = claims[d]
    BY <1>3, <1>8, <2>1
  <2> QED BY <1>3, <2>1, StayBacked
\* A refused start forgets no claim its row needs: the lease is over, or the
\* row no longer carries the claim, or it runs for another one.
<1>9. ASSUME StartRefused(c) PROVE NoStrandedClaim'
  <2>1. ASSUME NEW u \in Task, NEW m \in Name, Managed(u, m), Backs(c, u, m) PROVE FALSE
    <3>1. /\ u = t /\ EpochHolds(k) /\ k.storage = lease_token[m]
          /\ jobs[t].status = "Running" => k.stage \in {"started", "relocked"}
      BY <2>1 DEF Backs
    <3>2. jobs[t].status \in Active /\ k.name = m
      BY <2>1, <3>1 DEF Managed, Owned, EpochHolds
    <3>3. jobs[t].status = "Queued" /\ LeaseActive(k.storage, k.name)
      BY <1>9, <2>1, <3>1, <3>2 DEF StartRefused, Managed, Active
    <3>4. CurrentWorker(k.storage, k.name)
      BY <1>2, <3>1, <3>2 DEF CurrentWorker
    <3> QED BY <1>9, <3>1, <3>3, <3>4 DEF StartRefused, StartMatches
  <2>2. jobs' = jobs /\ Forget(c)
    BY <1>9 DEF StartRefused, dbVars
  <2> QED BY <1>8, <2>1, <2>2
\* An abandoned claim retires its name.
<1>10. ASSUME Abandon(c) PROVE NoStrandedClaim'
  <2>1. /\ jobs' = jobs /\ Forget(c) /\ <<k.storage, k.name>> \in retired'
    BY <1>2, <1>10 DEF Abandon, Retire, dbVars
  <2>2. ASSUME NEW u \in Task, NEW m \in Name, Managed(u, m)', Managed(u, m), Backs(c, u, m) PROVE FALSE
    <3>1. u = t /\ EpochHolds(k) /\ k.storage = lease_token'[m]
      BY <1>3, <2>2 DEF Backs
    <3>2. k.name = m
      BY <2>2, <3>1 DEF Managed, Owned, EpochHolds
    <3> QED BY <1>2, <2>1, <2>2, <3>1, <3>2 DEF Managed, LeaseActive
  <2> QED BY <1>8, <2>1, <2>2
<1> DEFINE g == [jobs[t] EXCEPT !.status = "Running"]
<1>11. g.status = "Running" /\ g.lock_by = jobs[t].lock_by /\ g.lock_at = jobs[t].lock_at
       /\ g.attempts = jobs[t].attempts
  BY <1>2 DEF JobRow
<1> HIDE DEF g
<1>12. ASSUME StartTask(c) PROVE NoStrandedClaim'
  <2>1. /\ StartMatches(k) /\ WriteRow(t, g) /\ claims' = [claims EXCEPT ![c].stage = "started"]
    BY <1>12 DEF StartTask, StartRow, g
  <2>2. claims'[c] = [k EXCEPT !.stage = "started"]
    BY <1>0, <2>1 DEF TypeOK
  <2>3. /\ claims'[c].task = t /\ claims'[c].name = k.name /\ claims'[c].storage = k.storage
        /\ claims'[c].lock_at = k.lock_at /\ claims'[c].attempts = k.attempts
        /\ claims'[c].stage = "started" /\ claims'[c] \in ClaimRecord
    BY <1>2, <2>2 DEF ClaimRecord, Stage
  <2>4. claims'[c] # NoClaim
    BY <2>3, NullAssumption
  <2>5. jobs'[t] = g /\ EpochHolds(k) /\ lease_token[k.name] = k.storage
    BY <1>2, <1>4, <2>1 DEF StartMatches, CurrentWorker
  <2>6. ASSUME NEW u \in Task, NEW m \in Name, u = t, m = k.name PROVE Backs(c, u, m)'
    BY <1>3, <1>11, <2>3, <2>4, <2>5, <2>6 DEF Backs, Held, EpochHolds, Active
  <2>7. ASSUME NEW u \in Task, NEW m \in Name, Managed(u, m)'
        PROVE  \/ \E d \in Claim : Backs(d, u, m)'
               \/ /\ jobs'[u] = jobs[u] /\ lease_token'[m] = lease_token[m]
                  /\ \A d \in Claim : Managed(u, m) /\ Backs(d, u, m) => claims'[d] = claims[d]
    <3>1. CASE u = t
      <4>1. m = k.name
        BY <1>11, <2>5, <2>7, <3>1 DEF Managed, Owned, EpochHolds
      <4> QED BY <2>6, <3>1, <4>1
    <3>2. CASE u # t
      BY <1>3, <1>4, <1>5, <2>1, <3>2
    <3> QED BY <3>1, <3>2
  <2> QED BY <1>3, <2>7, StayBacked
<1>13. ASSUME StartUnconfirmed(c) PROVE NoStrandedClaim'
  <2>1. /\ StartMatches(k) /\ WriteRow(t, g) /\ <<k.storage, k.name>> \in retired'
    BY <1>2, <1>13 DEF StartUnconfirmed, StartRow, Retire, g
  <2>2. jobs'[t] = g /\ EpochHolds(k) /\ lease_token[k.name] = k.storage
    BY <1>2, <1>4, <2>1 DEF StartMatches, CurrentWorker
  <2>3. ASSUME NEW u \in Task, NEW m \in Name, Managed(u, m)' PROVE jobs'[u] = jobs[u] /\ u # t
    <3>1. CASE u = t
      <4>1. m = k.name
        BY <1>11, <2>2, <2>3, <3>1 DEF Managed, Owned, EpochHolds
      <4> QED BY <1>2, <1>3, <2>1, <2>2, <2>3, <4>1 DEF Managed, LeaseActive
    <3> QED BY <1>4, <2>1, <3>1
  <2> QED BY <1>3, <1>5, <2>3, StayBacked
<1> QED BY <1>7, <1>9, <1>10, <1>12, <1>13 DEF ClaimStep

\* Where every claim carries a token, a storage renews a registration only
\* while it holds the claim of every active row of the name.
THEOREM NothingStranded == Spec => []NoStrandedClaim
<1>1. Init => NoStrandedClaim
  BY DEF Init, NewRow, NoStrandedClaim, Owned, Active
<1>2. ASSUME QueueInv, NoStrandedClaim, [Next]_vars PROVE NoStrandedClaim'
  <2>1. CASE None \in Caller
    BY <2>1 DEF NoStrandedClaim
  <2>2. CASE None \notin Caller
    <3>1. ASSUME Tick \/ UNCHANGED vars PROVE NoStrandedClaim'
      <4>1. UNCHANGED <<jobs, lease_token, claims, retired, crashed>>
        BY <3>1 DEF Tick, vars, dbVars, memVars
      <4> QED BY <1>2, <2>2, <4>1, EndedRows
    <3>2. ASSUME NEW s \in Storage, Crash(s) PROVE NoStrandedClaim'
      <4>1. UNCHANGED <<jobs, lease_token, retired>> /\ crashed' = crashed \union {s}
        BY <3>2 DEF Crash, dbVars
      <4>2. \A c \in Claim : Held(c) /\ claims[c].storage # s => claims'[c] = claims[c]
        BY <3>2 DEF Crash
      <4>3. ASSUME NEW t \in Task, NEW n \in Name, Managed(t, n)'
            PROVE  /\ jobs'[t] = jobs[t] /\ lease_token'[n] = lease_token[n]
                   /\ \A c \in Claim : Managed(t, n) /\ Backs(c, t, n) => claims'[c] = claims[c]
        <5>1. lease_token[n] # s
          BY <3>2, <4>1, <4>3, NullAssumption DEF Managed, LeaseActive
        <5> QED BY <4>1, <4>2, <5>1 DEF Backs
      <4> QED BY <1>2, <2>2, <4>1, <4>3, StayBacked
    <3> QED BY <1>2, <2>2, <3>1, <3>2, BackedRow, BackedWorker, BackedStorage, BackedFetch,
               BackedClaim DEF Next
  <2> QED BY <2>1, <2>2
<1> QED BY <1>1, <1>2, QueueSafe, PTL DEF Spec

-----------------------------------------------------------------------------
(* A healthy worker's claims are its own. *)

\* The claim k is of a worker whose registration is current, fresh and not
\* retired.
Healthy(k) ==
  /\ LeaseActive(k.storage, k.name)
  /\ lease_token[k.name] = k.storage
  /\ ~Stale(k.name)
  /\ EpochHolds(k)

\* What may become of it: it holds, its worker retires, or the worker ends a
\* claim of the task.
StillOwn(k) ==
  \/ EpochHolds(k)'
  \/ ~LeaseActive(k.storage, k.name)'
  \/ \E d \in Claim : /\ Held(d) /\ claims'[d] # claims[d]
                      /\ claims[d].task = k.task /\ claims[d].storage = k.storage

LEMMA UntouchedRow ==
  ASSUME NEW k \in ClaimRecord, EpochHolds(k), jobs'[k.task] = jobs[k.task]
  PROVE  StillOwn(k)
BY DEF StillOwn, EpochHolds

LEMMA HealthyRow ==
  ASSUME QueueInv, NEW k \in ClaimRecord, Healthy(k), NEW t \in Task, RowStep(t)
  PROVE  StillOwn(k)
<1>0. /\ TypeOK /\ k.task \in Task /\ k.name \in Name
      /\ EpochHolds(k) /\ ~Stale(k.name)
      /\ jobs[k.task].status \in Active /\ jobs[k.task].lock_by = k.name
  BY DEF QueueInv, Healthy, EpochHolds, ClaimRecord
<1>1. k.task # t
  <2>1. ~(\E d \in Delay : Enqueue(k.task, d)) /\ ~Purge(k.task)
    BY <1>0 DEF Enqueue, Purge, Terminal, Active
  <2>2. k.task \notin Orphaned
    BY <1>0 DEF Orphaned, Owned
  <2> QED BY <2>1, <2>2 DEF RowStep, Sweep
<1>2. jobs'[k.task] = jobs[k.task]
  BY <1>0, <1>1 DEF RowStep, Enqueue, Purge, Sweep, RecoverOwned, WriteRow, TypeOK
<1> QED BY <1>0, <1>2, UntouchedRow

LEMMA HealthyStorage ==
  ASSUME QueueInv, None \notin Caller, NEW k \in ClaimRecord, Healthy(k),
         NEW s \in Storage, NEW n \in Name, StorageStep(s, n)
  PROVE  StillOwn(k)
<1>0. /\ TypeOK /\ k.task \in Task /\ k.name \in Name /\ k.storage # None
      /\ EpochHolds(k) /\ ~Stale(k.name) /\ LeaseActive(k.storage, k.name)
      /\ lease_token[k.name] = k.storage
      /\ jobs[k.task].status \in Active /\ jobs[k.task].lock_by = k.name
  BY DEF QueueInv, Healthy, EpochHolds, ClaimRecord
<1>1. ASSUME NEW S, NEW C, RecoverOwned(S, C), k.task \notin S PROVE StillOwn(k)
  <2>1. jobs'[k.task] = jobs[k.task]
    BY <1>0, <1>1 DEF RecoverOwned
  <2> QED BY <1>0, <2>1, UntouchedRow
<1>2. ASSUME NEW S \in SUBSET Orphaned, StartupSweep(s, n, S) PROVE StillOwn(k)
  <2>1. k.task \notin Orphaned
    BY <1>0 DEF Orphaned, Owned
  <2> QED BY <1>1, <1>2, <2>1 DEF StartupSweep
<1>3. CASE Register(s, n)
  <2> DEFINE S == IF Registered(n) /\ (lease_token[n] # s \/ Stale(n)) THEN Owned(n) ELSE {}
  <2>1. RecoverOwned(S, Active)
    BY <1>3 DEF Register
  <2>2. k.task \notin S
    BY <1>0, <1>3 DEF Register, Owned
  <2> HIDE DEF S
  <2> QED BY <1>1, <2>1, <2>2
<1>4. CASE ReleaseWorker(s, n)
  <2>1. /\ RecoverOwned(Owned(n), {"Running"}) /\ <<s, n>> \in retired /\ lease_token[n] = s
    BY <1>4 DEF ReleaseWorker
  <2>2. k.name # n
    BY <1>0, <2>1 DEF LeaseActive
  <2>3. k.task \notin Owned(n)
    BY <1>0, <2>2 DEF Owned
  <2> QED BY <1>1, <2>1, <2>3
<1>5. CASE RegisterRefused(s, n) \/ KeepAlive(s, n) \/ RetireWorker(s, n)
  BY <1>0, <1>5, UntouchedRow DEF RegisterRefused, KeepAlive, RetireWorker, dbVars
<1> QED BY <1>2, <1>3, <1>4, <1>5 DEF StorageStep

\* A claimable row has no claim; locking a row again keeps its epoch.
LEMMA HealthyFetch ==
  ASSUME QueueInv, NEW k \in ClaimRecord, Healthy(k),
         NEW s \in Caller, NEW n \in Name, NEW t \in Task, FetchStep(s, n, t)
  PROVE  StillOwn(k)
<1>0. /\ TypeOK /\ k.task \in Task /\ EpochHolds(k)
      /\ jobs[k.task].status \in Active /\ jobs[k.task].lock_by = k.name
      /\ jobs[t] \in JobRow
  BY RowFacts DEF QueueInv, Healthy, EpochHolds, ClaimRecord
<1>1. \/ Claimable(t) /\ \E r : WriteRow(t, r)
      \/ t \in Owned(n) /\ WriteRow(t, Locked(n, t))
  BY DEF FetchStep, FetchNext, FetchUnconfirmed, FetchMalformed, LockTask, LockUnconfirmed,
         MayFetch, MayLock
<1>2. CASE k.task # t
  <2>1. jobs'[k.task] = jobs[k.task]
    BY <1>0, <1>1, <1>2 DEF WriteRow, TypeOK
  <2> QED BY <1>0, <2>1, UntouchedRow
<1>3. CASE k.task = t
  <2>1. t \in Owned(n) /\ WriteRow(t, Locked(n, t))
    BY <1>0, <1>1, <1>3 DEF Claimable, Active
  <2>2. n = k.name /\ jobs'[t] = Locked(n, t)
    BY <1>0, <1>3, <2>1 DEF Owned, WriteRow, TypeOK
  <2>3. /\ Locked(n, t).status = "Running" /\ Locked(n, t).attempts = jobs[t].attempts
        /\ Locked(n, t).lock_by = n /\ Locked(n, t).lock_at = jobs[t].lock_at
    BY <1>0, <2>1 DEF Locked, JobRow, Owned
  <2> QED BY <1>0, <1>3, <2>2, <2>3 DEF StillOwn, EpochHolds, Active
<1> QED BY <1>2, <1>3

\* Another claim that may end the row is of the same worker.
LEMMA HealthyClaim ==
  ASSUME QueueInv, None \notin Caller, NEW k \in ClaimRecord, Healthy(k),
         NEW c \in Claim, ClaimStep(c)
  PROVE  StillOwn(k)
<1> DEFINE j == claims[c]
           t == j.task
           g == [jobs[t] EXCEPT !.status = "Running"]
<1>0. /\ TypeOK /\ k.task \in Task /\ k.name \in Name /\ EpochHolds(k)
      /\ lease_token[k.name] = k.storage
      /\ jobs[k.task].status \in Active /\ jobs[k.task].lock_by = k.name
  BY DEF QueueInv, Healthy, EpochHolds, ClaimRecord
<1>1. Held(c)
  BY DEF ClaimStep, FailUndecodable, StartTask, StartUnconfirmed, StartRefused, MayAck, AckTask,
         AckUnconfirmed, Abandon
<1>2. j \in ClaimRecord /\ t \in Task /\ j.storage # None /\ jobs[t] \in JobRow
  BY <1>0, <1>1, ClaimOfStorage DEF TypeOK
<1>3. ASSUME NEW r, WriteRow(t, r), k.task # t PROVE StillOwn(k)
  <2>1. jobs'[k.task] = jobs[k.task]
    BY <1>0, <1>3 DEF WriteRow, TypeOK
  <2> QED BY <1>0, <2>1, UntouchedRow
<1>4. ASSUME AckMatches(j), k.task = t PROVE j.storage = k.storage /\ j.name = k.name
  BY <1>0, <1>2, <1>4 DEF AckMatches, CurrentWorker, EpochHolds
<1>5. ASSUME FailUndecodable(c) \/ \E res \in {"Ok", "Err"} : AckTask(c, res) PROVE StillOwn(k)
  <2>1. AckMatches(j) /\ Forget(c) /\ \E r : WriteRow(t, r)
    BY <1>5 DEF FailUndecodable, AckTask
  <2>2. claims'[c] = NoClaim
    BY <1>0, <2>1 DEF Forget, TypeOK
  <2>3. claims'[c] # claims[c]
    BY <1>1, <2>2 DEF Held
  <2>4. CASE k.task = t
    BY <1>1, <1>4, <2>1, <2>3, <2>4 DEF StillOwn
  <2> QED BY <1>3, <2>1, <2>4
<1>6. ASSUME NEW res \in {"Ok", "Err"}, AckUnconfirmed(c, res) PROVE StillOwn(k)
  <2>1. AckMatches(j) /\ retired' = Retire(j.storage, j.name) /\ \E r : WriteRow(t, r)
    BY <1>6 DEF AckUnconfirmed
  <2>2. CASE k.task = t
    <3>1. <<k.storage, k.name>> \in retired' /\ k.storage # None
      BY <1>2, <1>4, <2>1, <2>2 DEF Retire
    <3> QED BY <3>1 DEF StillOwn, LeaseActive
  <2> QED BY <1>3, <2>1, <2>2
<1>7. ASSUME StartTask(c) \/ StartUnconfirmed(c) PROVE StillOwn(k)
  <2>1. WriteRow(t, g)
    BY <1>7 DEF StartTask, StartUnconfirmed, StartRow
  <2>2. CASE k.task = t
    <3>1. /\ g.status = "Running" /\ g.lock_by = jobs[t].lock_by /\ g.lock_at = jobs[t].lock_at
          /\ g.attempts = jobs[t].attempts
      BY <1>2 DEF JobRow
    <3>2. jobs'[k.task] = g
      BY <1>0, <1>2, <2>1, <2>2 DEF WriteRow, TypeOK
    <3> HIDE DEF g
    <3> QED BY <1>0, <2>2, <3>1, <3>2 DEF StillOwn, EpochHolds, Active
  <2> QED BY <1>3, <2>1, <2>2
<1>8. ASSUME StartRefused(c) \/ Abandon(c) PROVE StillOwn(k)
  BY <1>0, <1>8, UntouchedRow DEF StartRefused, Abandon, dbVars
<1> QED BY <1>5, <1>6, <1>7, <1>8 DEF ClaimStep

\* No step of another worker, sweep or administrator takes a claim from a
\* worker whose registration is current and fresh.
THEOREM HealthyClaimsKept == Spec => HealthyClaimKept
<1>1. ASSUME QueueInv, Next, None \notin Caller,
             NEW k \in {claims[c] : c \in Claim} \ {NoClaim}, Healthy(k)
      PROVE  StillOwn(k)
  <2>1. k \in ClaimRecord /\ EpochHolds(k)
    BY <1>1 DEF QueueInv, TypeOK, Healthy
  <2>2. ASSUME NEW n \in Name, WorkerStep(n) PROVE StillOwn(k)
    BY <2>1, <2>2, UntouchedRow DEF WorkerStep, PruneWorker, AdminRegister
  <2>3. ASSUME Tick \/ \E s \in Storage : Crash(s) PROVE StillOwn(k)
    BY <2>1, <2>3, UntouchedRow DEF Tick, Crash, dbVars
  <2> QED BY <1>1, <2>1, <2>2, <2>3, HealthyRow, HealthyStorage, HealthyFetch, HealthyClaim DEF Next
<1>2. ASSUME QueueInv, [Next]_vars
      PROVE  [None \notin Caller => \A k \in {claims[c] : c \in Claim} \ {NoClaim} :
                /\ LeaseActive(k.storage, k.name)
                /\ lease_token[k.name] = k.storage
                /\ ~Stale(k.name)
                /\ EpochHolds(k)
                => \/ EpochHolds(k)'
                   \/ ~LeaseActive(k.storage, k.name)'
                   \/ \E d \in Claim : /\ Held(d) /\ claims'[d] # claims[d]
                                       /\ claims[d].task = k.task
                                       /\ claims[d].storage = k.storage]_vars
  BY <1>1, <1>2 DEF Healthy, StillOwn
<1> QED BY <1>2, QueueSafe, PTL DEF Spec, HealthyClaimKept

=============================================================================
