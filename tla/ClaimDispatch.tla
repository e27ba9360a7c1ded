--------------------------- MODULE ClaimDispatch ---------------------------
(***************************************************************************)
(* One claim as its process handles it: the shared flags of its            *)
(* ClaimAttempt, the dispatches and starts of clones of its task, their    *)
(* acknowledgements, and the obligations that retire the worker's lease.   *)
(*                                                                         *)
(* A call is a clone of the claimed task on its way through                *)
(*   "auto"    the middleware with its own acknowledgement inside,         *)
(*   "outer"   the middleware, acknowledged outside it (ack_with),         *)
(*   "manual"  PgAck::start, the consumer's own execution and PgAck::ack.  *)
(* Calls run concurrently on several threads; a step ends at every access  *)
(* to a shared flag that another thread may interleave with and at every   *)
(* await.  A future may be dropped at an await; the transaction it sent    *)
(* still commits (run_blocking).  A sent transaction may also commit while *)
(* its caller sees an error.                                               *)
(***************************************************************************)
EXTENDS Naturals, FiniteSets

CONSTANTS
  Call,       \* the clones of the task
  MaxAcks,    \* bound: acknowledgements a consumer creates for one clone
  Free        \* the serial lock is not held

ASSUME BoundAssumption == MaxAcks \in Nat /\ Free \notin Call

VARIABLES
  kind,       \* how each clone is handled: "auto", "outer" or "manual"
  row,        \* the task's row, as far as this claim's epoch goes
  flags,      \* ClaimAcknowledgement: done, started, start_attempted
  serial,     \* ClaimAcknowledgement.serial
  lease,      \* WorkerLease.retired
  pc,         \* where each call is
  guard,      \* its completion obligation
  restart,    \* StartClaim.restart of each call
  ack,        \* where the acknowledgement of each call is
  ackGuard,   \* its completion obligation
  acks,       \* how many acknowledgements a call created
  sent,       \* transactions on their way to the database
  faults      \* history: what went wrong so far

callVars == <<pc, guard, restart>>
ackVars  == <<ack, ackGuard, acks>>
vars     == <<row, flags, serial, lease, callVars, ackVars, sent, faults>>

\* Queued or Running under the claim's epoch; Taken: Running under an equal
\* epoch, started by a later claim of the same second; Lost: recovered;
\* Acked: by this claim; Stolen: acknowledged for that other claim.
Row == {"Queued", "Running", "Taken", "Lost", "Acked", "Stolen"}

PC == {"idle", "created", "checked", "marked", "waiting", "ok", "lost", "error",
       "handler", "acking", "finished", "refused", "dropped"}

AckPC == {"none", "created", "locking", "locked", "sent", "ok", "stale", "error",
          "skipped", "recorded", "repeated", "failed", "dropped"}

TypeOK ==
  /\ kind \in [Call -> {"auto", "outer", "manual"}]
  /\ row \in Row
  /\ flags \in SUBSET {"done", "started", "attempted"}
  /\ serial \in Call \union {Free}
  /\ lease \in {"active", "retired"}
  /\ pc \in [Call -> PC]
  /\ guard \in [Call -> {"armed", "off"}]
  /\ restart \in [Call -> {"first", "again"}]
  /\ ack \in [Call -> AckPC]
  /\ ackGuard \in [Call -> {"armed", "off"}]
  /\ acks \in [Call -> Nat]
  /\ sent \in SUBSET ({"start", "ack"} \X Call)
  /\ faults \in SUBSET {"drop", "error", "lost", "retired"}

\* record_claim: a row just claimed, nothing attempted.
Init ==
  /\ kind \in [Call -> {"auto", "outer", "manual"}]
  /\ row = "Queued"
  /\ flags = {}
  /\ serial = Free
  /\ lease = "active"
  /\ pc = [c \in Call |-> "idle"]
  /\ guard = [c \in Call |-> "off"]
  /\ restart = [c \in Call |-> "first"]
  /\ ack = [c \in Call |-> "none"]
  /\ ackGuard = [c \in Call |-> "off"]
  /\ acks = [c \in Call |-> 0]
  /\ sent = {}
  /\ faults = {}

-----------------------------------------------------------------------------
(* Obligations. *)

Done == "done" \in flags

\* ClaimAttempt::start_refused
StartRefused == "attempted" \in flags /\ "started" \notin flags

\* Mutated form: a disarmed guard overwrites the lease with its own state.
ReleasedOverwrites(g) == IF g = "armed" /\ ~Done THEN "retired" ELSE g

\* ClaimObligation::drop, then LeaseGuard::drop: a guard dropped armed retires
\* the name unless the acknowledgement committed.
Released(g) == IF g = "armed" /\ ~Done THEN "retired" ELSE lease

\* LeaseGuard::drop alone: PgAck::start holds no ClaimObligation.
ReleasedBare(g) == IF g = "armed" THEN "retired" ELSE lease

\* The guard of call c is dropped.
DropGuard(c) == IF kind[c] = "manual" THEN ReleasedBare(guard[c]) ELSE Released(guard[c])

Goto(c, where) == pc' = [pc EXCEPT ![c] = where]

Disarm(c) == guard' = [guard EXCEPT ![c] = "off"]

AckGoto(c, where) == ack' = [ack EXCEPT ![c] = where]

\* The end of an acknowledgement that owes nothing.
AckSettled(c, where) ==
  /\ AckGoto(c, where)
  /\ ackGuard' = [ackGuard EXCEPT ![c] = "off"]

Unlock(c) == serial' = IF serial = c THEN Free ELSE serial

-----------------------------------------------------------------------------
(* LockTaskService::call, PgAck::start and start_claim. *)

\* LockTaskService::call: the obligation is armed unless the claim is already
\* acknowledged.
CallService(c) ==
  /\ pc[c] = "idle" /\ kind[c] # "manual"
  /\ guard' = [guard EXCEPT ![c] = IF Done THEN "off" ELSE "armed"]
  /\ Goto(c, "created")
  /\ UNCHANGED <<row, flags, serial, lease, restart, ackVars, sent, faults>>

\* The first poll reads the marker again, then start_claim reads `started`.
Dispatch(c) ==
  /\ pc[c] = "created"
  /\ IF Done
     THEN Goto(c, "refused") /\ Disarm(c) /\ UNCHANGED restart
     ELSE /\ Goto(c, "checked")
          /\ restart' = [restart EXCEPT ![c] = IF "started" \in flags THEN "again" ELSE "first"]
          /\ UNCHANGED guard
  /\ UNCHANGED <<row, flags, serial, lease, ackVars, sent, faults>>

\* PgAck::start arms a lease guard and calls start_claim.
CallStart(c) ==
  /\ pc[c] = "idle" /\ kind[c] = "manual"
  /\ guard' = [guard EXCEPT ![c] = "armed"]
  /\ restart' = [restart EXCEPT ![c] = IF "started" \in flags THEN "again" ELSE "first"]
  /\ Goto(c, "checked")
  /\ UNCHANGED <<row, flags, serial, lease, ackVars, sent, faults>>

\* Mutated form: the refusal of an acknowledged claim is still owed.
MarkStartAttemptedOwed(c) ==
  /\ pc[c] = "checked"
  /\ IF Done
     THEN Goto(c, "refused") /\ Disarm(c) /\ lease' = DropGuard(c) /\ UNCHANGED flags
     ELSE /\ Goto(c, "marked") /\ flags' = flags \union {"attempted"}
          /\ UNCHANGED <<guard, lease>>
  /\ UNCHANGED <<row, serial, restart, ackVars, sent, faults>>

\* start_claim: refuse an acknowledged claim, or mark the attempt.
MarkStartAttempted(c) ==
  /\ pc[c] = "checked"
  /\ IF Done
     THEN Goto(c, "refused") /\ Disarm(c) /\ UNCHANGED flags
     ELSE Goto(c, "marked") /\ flags' = flags \union {"attempted"} /\ UNCHANGED guard
  /\ UNCHANGED <<row, serial, lease, restart, ackVars, sent, faults>>

\* ensure_active, then start_task is sent.
SendStart(c) ==
  /\ pc[c] = "marked"
  /\ IF lease = "retired"
     THEN Goto(c, "refused") /\ Disarm(c) /\ UNCHANGED sent
     ELSE Goto(c, "waiting") /\ sent' = sent \union {<<"start", c>>} /\ UNCHANGED guard
  /\ UNCHANGED <<row, flags, serial, lease, restart, ackVars, faults>>

\* The predicate of start_task.
StartMatches(c) ==
  \/ row = "Queued"
  \/ row \in {"Running", "Taken"} /\ restart[c] = "again"

\* start_task runs; its caller, if it still waits, learns the outcome or sees
\* an error.
ExecStart(c) ==
  /\ <<"start", c>> \in sent
  /\ sent' = sent \ {<<"start", c>>}
  /\ row' = IF row = "Queued" /\ StartMatches(c) THEN "Running" ELSE row
  /\ \/ /\ pc[c] = "waiting"
        /\ Goto(c, IF StartMatches(c) THEN "ok" ELSE "lost")
        /\ UNCHANGED faults
     \/ /\ pc[c] = "waiting"
        /\ Goto(c, "error")
        /\ faults' = faults \union {"error"}
     \/ /\ pc[c] # "waiting"
        /\ UNCHANGED <<pc, faults>>
  /\ UNCHANGED <<flags, serial, lease, guard, restart, ackVars>>

\* start_task fails without effect.
FailStart(c) ==
  /\ <<"start", c>> \in sent
  /\ sent' = sent \ {<<"start", c>>}
  /\ pc' = [pc EXCEPT ![c] = IF @ = "waiting" THEN "error" ELSE @]
  /\ faults' = faults \union {"error"}
  /\ UNCHANGED <<row, flags, serial, lease, guard, restart, ackVars>>

\* The started claim is marked and its handler runs; PgAck::start returns and
\* its guard is disarmed.
MarkStarted(c) ==
  /\ pc[c] = "ok"
  /\ flags' = flags \union {"started"}
  /\ Goto(c, "handler")
  /\ guard' = [guard EXCEPT ![c] = IF kind[c] = "manual" THEN "off" ELSE @]
  /\ UNCHANGED <<row, serial, lease, restart, ackVars, sent, faults>>

\* Mutated form: a failed start owes nothing.
RefuseStartDisarmed(c) ==
  /\ pc[c] \in {"lost", "error"}
  /\ Disarm(c)
  /\ Goto(c, "refused")
  /\ UNCHANGED <<row, flags, serial, lease, restart, ackVars, sent, faults>>

\* StartRefusal: ClaimLost owes nothing, a failure keeps the guard armed.
RefuseStart(c) ==
  /\ pc[c] \in {"lost", "error"}
  /\ lease' = IF pc[c] = "lost" THEN lease ELSE DropGuard(c)
  /\ Disarm(c)
  /\ Goto(c, "refused")
  /\ UNCHANGED <<row, flags, serial, restart, ackVars, sent, faults>>

\* The handler returns.  Inside the middleware its result is acknowledged
\* before the dispatch ends; otherwise the consumer now owes it.
FinishHandler(c) ==
  /\ pc[c] = "handler"
  /\ IF kind[c] = "auto"
     THEN /\ Goto(c, "acking") /\ UNCHANGED guard
          /\ AckGoto(c, "created")
          /\ ackGuard' = [ackGuard EXCEPT ![c] = "armed"]
          /\ acks' = [acks EXCEPT ![c] = @ + 1]
     ELSE Goto(c, "finished") /\ Disarm(c) /\ UNCHANGED ackVars
  /\ UNCHANGED <<row, flags, serial, lease, restart, sent, faults>>

AckOver(c) == ack[c] \in {"skipped", "recorded", "repeated", "failed"}

\* The inner service returned: the dispatch disarms its own obligation.
FinishDispatch(c) ==
  /\ pc[c] = "acking" /\ AckOver(c) /\ ackGuard[c] = "off"
  /\ Goto(c, "finished") /\ Disarm(c)
  /\ UNCHANGED <<row, flags, serial, lease, restart, ackVars, sent, faults>>

\* The future of a dispatch or of PgAck::start is dropped at an await, with
\* the acknowledgement inside it; the lock is freed before the guards.
DropCall(c) ==
  /\ pc[c] \in {"created", "waiting", "ok", "lost", "error"}
              \union (IF kind[c] = "manual" THEN {"checked"} ELSE {"handler", "acking"})
  /\ ack[c] # "locked" /\ ~(AckOver(c) /\ ackGuard[c] = "armed")
  /\ Goto(c, "dropped")
  /\ IF pc[c] = "acking" /\ ~AckOver(c)
     THEN AckGoto(c, "dropped") /\ Unlock(c)
     ELSE UNCHANGED <<ack, serial>>
  /\ faults' = faults \union {"drop"}
  /\ UNCHANGED <<row, flags, lease, guard, restart, ackGuard, acks, sent>>

\* Mutated form: the clones share one obligation, which ends with the last.
ReleaseGuardOfLast(c) ==
  /\ pc[c] = "dropped" /\ guard[c] = "armed" /\ ackGuard[c] = "off"
  /\ \A d \in Call \ {c} : pc[d] \in {"finished", "refused", "dropped"}
  /\ lease' = DropGuard(c)
  /\ Disarm(c)
  /\ UNCHANGED <<row, flags, serial, restart, pc, ackVars, sent, faults>>

\* The obligation of the dropped future goes last.
ReleaseGuard(c) ==
  /\ pc[c] = "dropped" /\ guard[c] = "armed" /\ ackGuard[c] = "off"
  /\ lease' = DropGuard(c)
  /\ Disarm(c)
  /\ UNCHANGED <<row, flags, serial, restart, pc, ackVars, sent, faults>>

-----------------------------------------------------------------------------
(* PgAck::ack. *)

\* The consumer acknowledges a call that ended, refused ones included, or
\* repeats an acknowledgement.
CallAck(c) ==
  /\ kind[c] # "auto" /\ pc[c] \in {"finished", "refused"}
  /\ ack[c] = "none" \/ (AckOver(c) /\ ackGuard[c] = "off")
  /\ acks[c] < MaxAcks
  /\ AckGoto(c, "created")
  /\ ackGuard' = [ackGuard EXCEPT ![c] = "armed"]
  /\ acks' = [acks EXCEPT ![c] = @ + 1]
  /\ UNCHANGED <<row, flags, serial, lease, callVars, sent, faults>>

\* Mutated form: a refused claim is acknowledged like any other.
CheckRefusedAlways(c) ==
  /\ ack[c] = "created"
  /\ AckGoto(c, "locking") /\ UNCHANGED ackGuard
  /\ UNCHANGED <<row, flags, serial, lease, callVars, acks, sent, faults>>

\* A claim whose starts were all refused has no result to record.
CheckRefused(c) ==
  /\ ack[c] = "created"
  /\ IF StartRefused THEN AckSettled(c, "skipped")
                     ELSE AckGoto(c, "locking") /\ UNCHANGED ackGuard
  /\ UNCHANGED <<row, flags, serial, lease, callVars, acks, sent, faults>>

\* Mutated form: acknowledgements of a claim are not serialized.
SerializeNot(c) ==
  /\ ack[c] = "locking"
  /\ AckGoto(c, "locked")
  /\ UNCHANGED <<row, flags, serial, lease, callVars, ackGuard, acks, sent, faults>>

\* ClaimAttempt::serialize
Serialize(c) ==
  /\ ack[c] = "locking" /\ serial = Free
  /\ serial' = c
  /\ AckGoto(c, "locked")
  /\ UNCHANGED <<row, flags, lease, callVars, ackGuard, acks, sent, faults>>

\* AlreadyAcknowledged, or ack_task is sent.
SendAck(c) ==
  /\ ack[c] = "locked"
  /\ IF Done
     THEN AckSettled(c, "repeated") /\ Unlock(c) /\ UNCHANGED sent
     ELSE /\ AckGoto(c, "sent") /\ sent' = sent \union {<<"ack", c>>}
          /\ UNCHANGED <<ackGuard, serial>>
  /\ UNCHANGED <<row, flags, lease, callVars, acks, faults>>

\* ack_task runs: the epoch matches a row of this claim or of its twin.
ExecAck(c) ==
  /\ <<"ack", c>> \in sent
  /\ sent' = sent \ {<<"ack", c>>}
  /\ row' = CASE row \in {"Queued", "Running"} -> "Acked"
              [] row = "Taken" -> "Stolen"
              [] OTHER -> row
  /\ \/ /\ ack[c] = "sent"
        /\ AckGoto(c, IF row' # row THEN "ok" ELSE "stale")
        /\ UNCHANGED faults
     \/ /\ ack[c] = "sent"
        /\ AckGoto(c, "error")
        /\ faults' = faults \union {"error"}
     \/ /\ ack[c] # "sent"
        /\ UNCHANGED <<ack, faults>>
  /\ UNCHANGED <<flags, serial, lease, callVars, ackGuard, acks>>

\* ack_task fails without effect.
FailAck(c) ==
  /\ <<"ack", c>> \in sent
  /\ sent' = sent \ {<<"ack", c>>}
  /\ ack' = [ack EXCEPT ![c] = IF @ = "sent" THEN "error" ELSE @]
  /\ faults' = faults \union {"error"}
  /\ UNCHANGED <<row, flags, serial, lease, callVars, ackGuard, acks>>

\* Mutated form: the lock of an acknowledgement that failed is not released.
FinishAckHoldsLock(c) ==
  /\ ack[c] \in {"ok", "stale", "error"}
  /\ IF ack[c] = "ok"
     THEN flags' = flags \union {"done"} /\ AckSettled(c, "recorded") /\ Unlock(c)
     ELSE AckGoto(c, "failed") /\ UNCHANGED <<flags, ackGuard, serial>>
  /\ UNCHANGED <<row, lease, callVars, acks, sent, faults>>

\* The committed acknowledgement is marked; a stale or failed one keeps its
\* guard armed.  The lock is freed before the guard is dropped.
FinishAck(c) ==
  /\ ack[c] \in {"ok", "stale", "error"}
  /\ IF ack[c] = "ok"
     THEN flags' = flags \union {"done"} /\ AckSettled(c, "recorded")
     ELSE AckGoto(c, "failed") /\ UNCHANGED <<flags, ackGuard>>
  /\ Unlock(c)
  /\ UNCHANGED <<row, lease, callVars, acks, sent, faults>>

\* The consumer drops its acknowledgement at an await.
DropAck(c) ==
  /\ kind[c] # "auto"
  /\ ack[c] \in {"created", "locking", "sent", "ok", "stale", "error"}
  /\ AckGoto(c, "dropped") /\ Unlock(c)
  /\ faults' = faults \union {"drop"}
  /\ UNCHANGED <<row, flags, lease, callVars, ackGuard, acks, sent>>

\* The guard of a failed or dropped acknowledgement is dropped: it retires the
\* name unless another one committed.
ReleaseAckGuard(c) ==
  /\ ack[c] \in {"failed", "dropped"} /\ ackGuard[c] = "armed"
  /\ lease' = Released(ackGuard[c])
  /\ ackGuard' = [ackGuard EXCEPT ![c] = "off"]
  /\ UNCHANGED <<row, flags, serial, callVars, ack, acks, sent, faults>>

-----------------------------------------------------------------------------
(* The other workers. *)

\* A sweep, a takeover or a release recovers the row.
LoseRow ==
  /\ row \in {"Queued", "Running"}
  /\ row' = "Lost"
  /\ faults' = faults \union {"lost"}
  /\ UNCHANGED <<flags, serial, lease, callVars, ackVars, sent>>

\* A release keeps the attempts of a Queued row, and a claim of the same name
\* and second starts it.
TakeRow ==
  /\ row = "Queued"
  /\ row' = "Taken"
  /\ faults' = faults \union {"lost"}
  /\ UNCHANGED <<flags, serial, lease, callVars, ackVars, sent>>

\* Another claim of the name, or release_worker, retires it.
RetireElsewhere ==
  /\ lease = "active"
  /\ lease' = "retired"
  /\ faults' = faults \union {"retired"}
  /\ UNCHANGED <<row, flags, serial, callVars, ackVars, sent>>

\* What a call does unless it is dropped.
Progress(c) ==
  \/ Dispatch(c) \/ MarkStartAttempted(c) \/ SendStart(c) \/ ExecStart(c)
  \/ MarkStarted(c) \/ RefuseStart(c) \/ FinishHandler(c) \/ FinishDispatch(c)
  \/ CheckRefused(c) \/ Serialize(c) \/ SendAck(c) \/ ExecAck(c) \/ FinishAck(c)
  \/ ReleaseGuard(c) \/ ReleaseAckGuard(c)

Consume(c) == CallService(c) \/ CallStart(c) \/ CallAck(c)

Disturb(c) == DropCall(c) \/ DropAck(c) \/ FailStart(c) \/ FailAck(c)

Next ==
  \/ \E c \in Call : Progress(c) \/ Consume(c) \/ Disturb(c)
  \/ LoseRow \/ TakeRow \/ RetireElsewhere

\* The executor polls every future that can progress, and handlers return.
Fairness == \A c \in Call : WF_vars(Progress(c))

Spec == Init /\ [][Next /\ UNCHANGED kind]_<<vars, kind>> /\ Fairness

-----------------------------------------------------------------------------
(* Properties. *)

\* The consumer executed call c and has not acknowledged it yet.
Owed(c) == kind[c] # "auto" /\ \/ pc[c] = "handler"
                               \/ pc[c] = "finished" /\ ack[c] = "none"

\* While the row is this claim's, someone answers for it: it is still
\* buffered, a guard is armed, the consumer holds its result, or the name is
\* retired so that recovery reaches the row.  No combination of refusals,
\* repeats, drops and errors of the clones disarms the last obligation.
ObligationKept ==
  row \in {"Queued", "Running"} =>
    \/ lease = "retired"
    \/ \A c \in Call : pc[c] = "idle"
    \/ \E c \in Call : guard[c] = "armed" \/ ackGuard[c] = "armed" \/ Owed(c)

\* A healthy worker is not retired by its own clones: without a drop, a
\* database error, a recovery or another retirement, no order of concurrent
\* dispatches and acknowledgements retires the name.
RetiredForCause == lease = "retired" => faults # {}

\* A recorded result follows an execution of this claim: an acknowledgement
\* of a dispatched clone writes the row only after a start of the claim was
\* observed to commit, and never the row of another claim with an equal epoch
\* (ClaimAttempt::start_refused).
ResultBacked ==
  /\ row # "Stolen"
  /\ row = "Acked" => "started" \in flags

\* An acknowledgement is stale on a row that an earlier acknowledgement of the
\* claim recorded only if that one lost its answer, and then the name is
\* retired, or is about to be when that one's guard is dropped: a repeat of an
\* observed acknowledgement is reported as AlreadyAcknowledged, never as stale
\* (the serial lock).
OwnAckNeverStale ==
  \A c \in Call : ack[c] = "stale" /\ row = "Acked" =>
    /\ ~Done
    /\ \/ lease = "retired"
       \/ \E d \in Call \ {c} : ack[d] \in {"failed", "dropped"} /\ ackGuard[d] = "armed"

\* Every acknowledgement comes to an end: the serial lock is always handed on,
\* whether its holder records, fails or is dropped.
AckEnds ==
  \A c \in Call : (ack[c] = "locking") ~> (ack[c] # "locking")

\* A dispatched claim is eventually settled: its result is recorded, its row is
\* lost to another worker, the name is retired so that recovery takes the row,
\* or a consumer holds the result.
ClaimSettles ==
  \A c \in Call : (pc[c] = "created") ~>
    \/ row \notin {"Queued", "Running"}
    \/ lease = "retired"
    \/ \E d \in Call : Owed(d)

\* An acknowledgement speaks for an execution of this claim, and is told that
\* it repeats a recorded one instead of being taken for a stale one.
AcksOwnExecution == ResultBacked /\ OwnAckNeverStale

\* Both ends come: of every acknowledgement, and of every dispatch.
ClaimProgress == AckEnds /\ ClaimSettles

=============================================================================
