---------------------------- MODULE WorkerFence ----------------------------
(***************************************************************************)
(* The ownership transactions of src/queries at the level of row locks: a  *)
(* transaction takes the registration first, then task rows, one statement *)
(* at a time, each under its own READ COMMITTED snapshot; it may wait for  *)
(* a lock, it may be cut off, and it is visible to others when it commits. *)
(*                                                                         *)
(*   claim, start, ack   FOR KEY SHARE on the registration                 *)
(*   heartbeat           UPDATE of last_seen: FOR NO KEY UPDATE            *)
(*   register, release   FOR UPDATE, then every claim of the name          *)
(*   sweep, prune        FOR UPDATE SKIP LOCKED                            *)
(*                                                                         *)
(* JobQueue takes each of these transactions as one action; Ownership is   *)
(* that reading of them, and this module implements it.                    *)
(***************************************************************************)
EXTENDS Naturals, FiniteSets

CONSTANTS
  Names,         \* worker names
  Tokens,        \* lease tokens
  Jobs,          \* task ids, numbers, for ORDER BY id
  Sessions,      \* database connections
  MaxEpoch,      \* bound on the claims of one task
  None

ASSUME FenceAssumption ==
  /\ Jobs \subseteq Nat /\ IsFiniteSet(Jobs) /\ MaxEpoch \in Nat
  /\ None \notin Names \union Jobs
  /\ None \notin [token : Tokens \union {None}, stale : BOOLEAN]

VARIABLES
  reg,           \* committed registrations: [token, stale], or None
  job,           \* committed task rows; tok is the token of the claim, a
                 \* history variable, no column
  tx             \* per session: its transaction

vars == <<reg, job, tx>>

Active == {"queued", "running"}
Ops == {"claim", "start", "ack", "trusted ack", "heartbeat", "register", "release", "sweep", "prune"}
Statements == {"registration", "stale", "pick", "row", "scan", "commit"}

\* pc: the next statement; names, rows: the rows locked; want: the
\* candidates of a recovery still to lock; target: the claim a start or an
\* acknowledgement is for; lost: the incumbent's claims are to be recovered.
Idle == [op |-> "idle", name |-> None, token |-> None, pc |-> "commit", names |-> {}, rows |-> {},
         want |-> {}, target |-> None, epoch |-> 0, lost |-> FALSE]

Init ==
  /\ reg = [w \in Names |-> None]
  /\ job = [j \in Jobs |-> [st |-> "waiting", by |-> None, epoch |-> 0, tok |-> None]]
  /\ tx = [s \in Sessions |-> Idle]

-----------------------------------------------------------------------------
(***************************************************************************)
(* Row locks.                                                              *)
(***************************************************************************)

Mode(op) ==
  CASE op \in {"claim", "start", "ack"} -> "key share"
    [] op = "heartbeat" -> "no key update"
    [] OTHER -> "update"

Conflict(m, n) == "update" \in {m, n} \/ (m = "no key update" /\ n = "no key update")

\* The other sessions whose lock on registration w refuses the mode m.
Holders(s, w, m) ==
  {r \in Sessions \ {s} : w \in tx[r].names /\ Conflict(m, Mode(tx[r].op))}

\* Every lock on a task row is exclusive.
RowHolders(s, j) == {r \in Sessions \ {s} : j \in tx[r].rows}

AtStatement(s, pc) == tx[s].op # "idle" /\ tx[s].pc = pc

EndTx(s) == tx' = [tx EXCEPT ![s] = Idle]

-----------------------------------------------------------------------------
(***************************************************************************)
(* A transaction begins.                                                   *)
(***************************************************************************)

\* Mutated form: an acknowledgement takes its task row before the registration.
FollowingRowFirst(op, pc) ==
  CASE pc = "begin" -> IF op \in {"sweep", "prune"} THEN "stale"
                       ELSE IF op \in {"ack", "trusted ack"} THEN "row" ELSE "registration"
    [] pc = "row" /\ op = "ack" -> "registration"
    [] pc = "registration" /\ op = "claim" -> "pick"
    [] pc = "registration" /\ op = "start" -> "row"
    [] pc = "registration" /\ op \in {"register", "release"} -> "scan"
    [] pc = "stale" /\ op = "sweep" -> "scan"
    [] OTHER -> "commit"

\* The statements of a transaction in order: the registration before any task
\* row.  An acknowledgement without a token takes no registration.
Following(op, pc) ==
  CASE pc = "begin" -> IF op \in {"sweep", "prune"} THEN "stale"
                       ELSE IF op = "trusted ack" THEN "row" ELSE "registration"
    [] pc = "registration" /\ op = "claim" -> "pick"
    [] pc = "registration" /\ op \in {"start", "ack"} -> "row"
    [] pc = "registration" /\ op \in {"register", "release"} -> "scan"
    [] pc = "stale" /\ op = "sweep" -> "scan"
    [] OTHER -> "commit"

\* claim, heartbeat, release: any storage may call with the token it holds,
\* current or not.
BeginOwn(s, op, w, t) ==
  /\ tx[s].op = "idle"
  /\ op \in {"claim", "heartbeat", "release"}
  /\ tx' = [tx EXCEPT ![s] = [Idle EXCEPT !.op = op, !.name = w, !.token = t, !.pc = Following(op, "begin")]]
  /\ UNCHANGED <<reg, job>>

\* register_worker_blocking: pg_try_advisory_xact_lock refuses a second one.
BeginRegister(s, w, t) ==
  /\ tx[s].op = "idle"
  /\ \A r \in Sessions : ~(tx[r].op = "register" /\ tx[r].name = w)
  /\ tx' = [tx EXCEPT ![s] = [Idle EXCEPT !.op = "register", !.name = w, !.token = t,
                                          !.pc = Following("register", "begin")]]
  /\ UNCHANGED <<reg, job>>

\* start_task, ack_task: for a claim that was made, and may be gone when the
\* statement runs.
BeginTask(s, op, j) ==
  /\ tx[s].op = "idle"
  /\ op \in {"start", "ack", "trusted ack"}
  /\ job[j].st \in Active
  /\ tx' = [tx EXCEPT ![s] = [Idle EXCEPT !.op = op, !.name = job[j].by,
                                          !.token = IF op = "trusted ack" THEN None ELSE job[j].tok,
                                          !.target = j, !.epoch = job[j].epoch, !.pc = Following(op, "begin")]]
  /\ UNCHANGED <<reg, job>>

\* reenqueue_orphaned_blocking, prune_workers_batch_counted
BeginBatch(s, op) ==
  /\ tx[s].op = "idle"
  /\ op \in {"sweep", "prune"}
  /\ tx' = [tx EXCEPT ![s] = [Idle EXCEPT !.op = op, !.pc = Following(op, "begin")]]
  /\ UNCHANGED <<reg, job>>

-----------------------------------------------------------------------------
(***************************************************************************)
(* The registration.  A statement that waited decides on the row as it is  *)
(* when the lock is granted.                                               *)
(***************************************************************************)

Held(s, w) == [tx[s] EXCEPT !.names = {w}, !.pc = Following(tx[s].op, @)]

\* Mutated form: a claim needs a registration of its name, whatever its token.
LockOwnUnfenced(s) ==
  LET w == tx[s].name
      current == reg[w] # None /\ (tx[s].op = "claim" \/ reg[w].token = tx[s].token)
  IN /\ AtStatement(s, "registration") /\ tx[s].op # "register"
     /\ Holders(s, w, Mode(tx[s].op)) = {}
     /\ IF current THEN tx' = [tx EXCEPT ![s] = [Held(s, w) EXCEPT !.lost = tx[s].op = "release"]]
        ELSE EndTx(s)
     /\ UNCHANGED <<reg, job>>

\* worker_registration, keep_alive_blocking, release_worker_blocking: without
\* the current token the transaction ends and changes nothing.
LockOwn(s) ==
  LET w == tx[s].name
      current == reg[w] # None /\ reg[w].token = tx[s].token
  IN /\ AtStatement(s, "registration") /\ tx[s].op # "register"
     /\ Holders(s, w, Mode(tx[s].op)) = {}
     /\ IF current THEN tx' = [tx EXCEPT ![s] = [Held(s, w) EXCEPT !.lost = tx[s].op = "release"]]
        ELSE EndTx(s)
     /\ UNCHANGED <<reg, job>>

\* Mutated form: a registration that is not stale is taken over too.
LockRegisterAnyAge(s) ==
  LET w == tx[s].name
      lost == reg[w] # None /\ (reg[w].token # tx[s].token \/ reg[w].stale)
  IN /\ AtStatement(s, "registration") /\ tx[s].op = "register"
     /\ Holders(s, w, "update") = {}
     /\ tx' = [tx EXCEPT ![s] = [Held(s, w) EXCEPT !.lost = lost]]
     /\ UNCHANGED <<reg, job>>

\* register_worker_blocking, the locked row and the clock sampled after it.
LockRegister(s) ==
  LET w == tx[s].name
      allowed == reg[w] = None \/ reg[w].token = tx[s].token \/ reg[w].stale
      lost    == reg[w] # None /\ (reg[w].token # tx[s].token \/ reg[w].stale)
  IN /\ AtStatement(s, "registration") /\ tx[s].op = "register"
     /\ Holders(s, w, "update") = {}
     /\ IF allowed THEN tx' = [tx EXCEPT ![s] = [Held(s, w) EXCEPT !.lost = lost]]
        ELSE EndTx(s)
     /\ UNCHANGED <<reg, job>>

\* The stale registrations no one holds; of a prune, those no row names.
LockStale(s) ==
  LET free  == {w \in Names : reg[w] # None /\ reg[w].stale /\ Holders(s, w, "update") = {}}
      named == {w \in free : \E j \in Jobs : job[j].by = w}
      owner == {w \in free : \E j \in Jobs : job[j].by = w /\ job[j].st \in Active}
  IN /\ AtStatement(s, "stale")
     /\ tx' = [tx EXCEPT ![s] = [@ EXCEPT !.names = IF tx[s].op = "sweep" THEN owner ELSE free \ named,
                                          !.lost = TRUE, !.pc = Following(tx[s].op, tx[s].pc)]]
     /\ UNCHANGED <<reg, job>>

-----------------------------------------------------------------------------
(***************************************************************************)
(* Task rows.                                                              *)
(***************************************************************************)

\* fetch_next, queue_by_id: FOR UPDATE SKIP LOCKED, within some limit.
PickRows(s, J) ==
  /\ AtStatement(s, "pick")
  /\ \A j \in J : job[j].st = "waiting" /\ RowHolders(s, j) = {} /\ job[j].epoch < MaxEpoch
  /\ tx' = [tx EXCEPT ![s] = [@ EXCEPT !.rows = J, !.pc = "commit"]]
  /\ UNCHANGED <<reg, job>>

\* start_task, ack_task: the UPDATE waits for the row and checks its predicate
\* again; a claim that is gone matches no row.
LockTask(s) ==
  LET j == tx[s].target
      matches == /\ job[j].by = tx[s].name /\ job[j].epoch = tx[s].epoch
                 /\ job[j].st \in IF tx[s].op = "start" THEN {"queued"} ELSE Active
  IN /\ AtStatement(s, "row")
     /\ RowHolders(s, j) = {}
     /\ IF matches THEN tx' = [tx EXCEPT ![s] = [@ EXCEPT !.rows = {j}, !.pc = Following(tx[s].op, tx[s].pc)]]
        ELSE EndTx(s)
     /\ UNCHANGED <<reg, job>>

Claims(W) == {j \in Jobs : job[j].st \in Active /\ job[j].by \in W}

\* The candidates of recover_owned: a sweep skips rows that are held.
Candidates(s) ==
  IF tx[s].op = "sweep" THEN {j \in Claims(tx[s].names) : RowHolders(s, j) = {}}
  ELSE IF tx[s].lost THEN Claims(tx[s].names) ELSE {}

\* recover_owned, its snapshot.  A sweep locks its rows at once.
Scan(s) ==
  /\ AtStatement(s, "scan")
  /\ tx' = [tx EXCEPT ![s] =
       [@ EXCEPT !.pc = "commit",
                 !.want = IF tx[s].op = "sweep" THEN {} ELSE Candidates(s),
                 !.rows = IF tx[s].op = "sweep" THEN Candidates(s) ELSE {}]]
  /\ UNCHANGED <<reg, job>>

\* recover_owned, FOR UPDATE ORDER BY id: wait for the next row, look again.
LockCandidate(s) ==
  \E j \in tx[s].want :
    /\ \A i \in tx[s].want : j <= i
    /\ RowHolders(s, j) = {}
    /\ tx' = [tx EXCEPT ![s] =
         [@ EXCEPT !.want = tx[s].want \ {j},
                   !.rows = tx[s].rows \union ({j} \intersect Claims(tx[s].names))]]
    /\ UNCHANGED <<reg, job>>

-----------------------------------------------------------------------------
(***************************************************************************)
(* The end.                                                                *)
(***************************************************************************)

Ready(s, op) == tx[s].op = op /\ tx[s].pc = "commit" /\ tx[s].want = {}

\* The rows K of the recovered ones have no attempt left and are killed.
HandBack(s, K) ==
  [j \in Jobs |->
     IF j \in tx[s].rows
     THEN [job[j] EXCEPT !.st = IF j \in K THEN "done" ELSE "waiting", !.by = None, !.tok = None]
     ELSE job[j]]

CommitClaim(s) ==
  /\ Ready(s, "claim")
  /\ job' = [j \in Jobs |->
       IF j \in tx[s].rows
       THEN [st |-> "queued", by |-> tx[s].name, epoch |-> job[j].epoch + 1, tok |-> tx[s].token]
       ELSE job[j]]
  /\ EndTx(s) /\ UNCHANGED reg

CommitStart(s) ==
  /\ Ready(s, "start")
  /\ job' = [job EXCEPT ![tx[s].target].st = "running"]
  /\ EndTx(s) /\ UNCHANGED reg

CommitAck(s) ==
  /\ Ready(s, "ack") \/ Ready(s, "trusted ack")
  /\ job' = [job EXCEPT ![tx[s].target].st = "done"]
  /\ EndTx(s) /\ UNCHANGED reg

CommitHeartbeat(s) ==
  /\ Ready(s, "heartbeat")
  /\ reg' = [reg EXCEPT ![tx[s].name].stale = FALSE]
  /\ EndTx(s) /\ UNCHANGED job

CommitRegister(s, K) ==
  /\ Ready(s, "register")
  /\ job' = HandBack(s, K)
  /\ reg' = [reg EXCEPT ![tx[s].name] = [token |-> tx[s].token, stale |-> FALSE]]
  /\ EndTx(s)

CommitRelease(s, K) ==
  /\ Ready(s, "release")
  /\ job' = HandBack(s, K)
  /\ reg' = [reg EXCEPT ![tx[s].name] = [token |-> None, stale |-> TRUE]]
  /\ EndTx(s)

CommitSweep(s, K) ==
  /\ Ready(s, "sweep")
  /\ job' = HandBack(s, K)
  /\ EndTx(s) /\ UNCHANGED reg

\* delete_unreferenced_registrations, and the commit.
CommitPrune(s) ==
  /\ Ready(s, "prune")
  /\ reg' = [w \in Names |-> IF w \in tx[s].names /\ \A j \in Jobs : job[j].by # w THEN None ELSE reg[w]]
  /\ EndTx(s) /\ UNCHANGED job

\* The connection is lost, or the server cancels the transaction.
CutOff(s) ==
  /\ tx[s].op # "idle"
  /\ EndTx(s)
  /\ UNCHANGED <<reg, job>>

\* The stale deadline passes.
GoStale(w) ==
  /\ reg[w] # None /\ ~reg[w].stale
  /\ reg' = [reg EXCEPT ![w].stale = TRUE]
  /\ UNCHANGED <<job, tx>>

Step(s) ==
  \/ LockOwn(s) \/ LockRegister(s) \/ LockStale(s)
  \/ \E J \in SUBSET Jobs : PickRows(s, J)
  \/ LockTask(s) \/ Scan(s) \/ LockCandidate(s)
  \/ CommitClaim(s) \/ CommitStart(s) \/ CommitAck(s) \/ CommitHeartbeat(s)
  \/ \E K \in SUBSET tx[s].rows : CommitRegister(s, K) \/ CommitRelease(s, K) \/ CommitSweep(s, K)
  \/ CommitPrune(s)

BeginTx(s) ==
  \/ \E op \in {"claim", "heartbeat", "release"}, w \in Names, t \in Tokens : BeginOwn(s, op, w, t)
  \/ \E w \in Names, t \in Tokens : BeginRegister(s, w, t)
  \/ \E op \in {"start", "ack", "trusted ack"}, j \in Jobs : BeginTask(s, op, j)
  \/ \E op \in {"sweep", "prune"} : BeginBatch(s, op)

Next ==
  \/ \E s \in Sessions : BeginTx(s) \/ Step(s) \/ CutOff(s)
  \/ \E w \in Names : GoStale(w)

Spec == Init /\ [][Next]_vars

-----------------------------------------------------------------------------

\* The sessions s waits for.
WaitsFor(s) ==
  CASE AtStatement(s, "registration") -> Holders(s, tx[s].name, Mode(tx[s].op))
    [] AtStatement(s, "row") -> RowHolders(s, tx[s].target)
    [] tx[s].want # {} -> RowHolders(s, CHOOSE j \in tx[s].want : \A i \in tx[s].want : j <= i)
    [] OTHER -> {}

\* Every active claim was made under the token its registration carries now:
\* no claim of a replaced or released token survives the takeover or the
\* release, or commits after it (the FOR KEY SHARE fence of
\* worker_registration, and the waiting recovery of recover_owned).
ClaimsAreCurrent ==
  \A j \in Jobs :
    job[j].st \in Active =>
      /\ job[j].by \in Names /\ reg[job[j].by] # None
      /\ reg[job[j].by].token = job[j].tok

\* No set of transactions waits on itself: the order of the locks, the
\* registration before the task rows and the task rows by id, and SKIP LOCKED
\* elsewhere, leave no deadlock for the server to break.
NoWaitCycle ==
  \A S \in SUBSET Sessions : S # {} => \E s \in S : WaitsFor(s) \intersect S = {}

\* Each transaction, with its waits and its several snapshots, has the effect
\* of one step of Ownership on the committed registrations and rows: a live
\* name is never taken over, a takeover hands back every claim, a sweep only
\* claims of stale registrations, a start and a claim need the current token.
O == INSTANCE Ownership
AtomicTransactions == O!Spec

=============================================================================
