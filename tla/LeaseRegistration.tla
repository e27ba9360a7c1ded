------------------------- MODULE LeaseRegistration -------------------------
(***************************************************************************)
(* The local lease of one worker name in one storage and its clones: the   *)
(* registration attempts of the task streams, the heartbeats that wait for *)
(* them, retirement, and the wakers that connect them.                     *)
(*                                                                         *)
(* Each worker of the name has a task stream and a heartbeat stream, polled*)
(* by tasks on any thread.  The lease is made of atomics without a common  *)
(* lock, so a step is one load, one store or one critical section of the   *)
(* waiter list.  Transactions are sent and commit on their own, also after *)
(* the stream that sent them is dropped.                                   *)
(***************************************************************************)
EXTENDS Naturals, FiniteSets

CONSTANTS
  Worker,     \* the workers of the name on clones of the storage
  Streaming,  \* those whose task stream is polled
  Beating,    \* those whose heartbeat stream is polled
  Outside     \* bound: what happens besides, of {"release", "takeover"}

ASSUME WorkerAssumption == Streaming \subseteq Worker /\ Beating \subseteq Worker
ASSUME OutsideAssumption == Outside \subseteq {"release", "takeover"}

VARIABLES
  retired,    \* WorkerLease.retired
  registered, \* WorkerLease.registered
  settled,    \* WorkerLease.settled_registrations
  pending,    \* WorkerLease.pending_registrations
  waiters,    \* WorkerLease.waiters
  notified,   \* heartbeat tasks that were woken and not polled since
  row,        \* who holds the registration row: "none", "ours", "other"
  strm,       \* where each task stream is
  checked,    \* task streams whose poll found the lease active
  after,      \* where it goes when its wake-up is done
  armed,      \* task streams whose LeaseGuard is armed
  sent,       \* registrations on their way to the database
  beat,       \* where each heartbeat stream is
  pass,       \* which of the two readings of is_settled it makes
  before,     \* Registration.settled_before
  how,        \* what released the heartbeat
  late,       \* history: renewals it sent after the retirement
  releaser,   \* where a PgReleaser::release_worker is
  excused     \* history: an attempt was refused or the row was lost

leaseVars  == <<retired, registered, settled, pending, waiters, notified>>
streamVars == <<strm, checked, after, armed, sent>>
beatVars   == <<beat, pass, before, how, late>>
vars       == <<leaseVars, row, streamVars, beatVars, releaser, excused>>

Attempting == {"registering", "ok", "err"}

Finishing == {"count", "uncount", "wake"}

Stream == Attempting \union Finishing
          \union {"new", "running", "failed", "ended", "stuck", "gone"}

Reading == {"registered", "retired", "settled", "pending"}

\* The heartbeat is inside Registration.
Waiting == Reading \union {"poll", "push", "asleep"}

Renewing == {"tick", "due", "renewing", "renewed", "unmatched", "error"}

Beat == Waiting \union Renewing
        \union {"none", "endRetired", "endUnregistered", "endFailed", "gone"}

TypeOK ==
  /\ retired \in BOOLEAN /\ registered \in BOOLEAN
  /\ settled \in Nat /\ pending \in Nat
  /\ waiters \subseteq Worker /\ notified \subseteq Worker
  /\ row \in {"none", "ours", "other"}
  /\ strm \in [Worker -> Stream]
  /\ after \in [Worker -> Stream]
  /\ checked \subseteq Worker /\ armed \subseteq Worker /\ sent \subseteq Worker
  /\ beat \in [Worker -> Beat]
  /\ pass \in [Worker -> {1, 2}]
  /\ before \in [Worker -> Nat]
  /\ how \in [Worker -> {"none", "registered", "retired", "refused"}]
  /\ late \in [Worker -> Nat]
  /\ releaser \in {"idle", "wake", "release", "done"}
  /\ excused \in BOOLEAN

\* LeaseRegistry::for_worker: a fresh lease; another storage may hold the name.
Init ==
  /\ retired = FALSE /\ registered = FALSE
  /\ settled = 0 /\ pending = 0
  /\ waiters = {} /\ notified = {}
  /\ row \in {"none", "other"}
  /\ strm = [w \in Worker |-> "new"]
  /\ after = [w \in Worker |-> "new"]
  /\ checked = {} /\ armed = {} /\ sent = {}
  /\ beat = [w \in Worker |-> "none"]
  /\ pass = [w \in Worker |-> 1]
  /\ before = [w \in Worker |-> 0]
  /\ how = [w \in Worker |-> "none"]
  /\ late = [w \in Worker |-> 0]
  /\ releaser = "idle"
  /\ excused = FALSE

-----------------------------------------------------------------------------
(* The lease. *)

\* WorkerLease::wake_waiters
Wake ==
  /\ notified' = notified \union waiters
  /\ waiters' = {}

StreamTo(w, where) == strm' = [strm EXCEPT ![w] = where]

\* Goes through the wake-up of the waiters and then to `where`.
Via(w, step, where) ==
  /\ StreamTo(w, step)
  /\ after' = [after EXCEPT ![w] = where]

\* WorkerLease::retire, its store.
Retire == retired' = TRUE

-----------------------------------------------------------------------------
(* The task stream: LeaseStream with retire_on_drop. *)

\* LeaseStream::poll_next finds the lease active (ensure_active).
PollActive(w) ==
  /\ w \in Streaming \ checked /\ strm[w] \in {"new", "ok", "err"}
  /\ ~retired
  /\ checked' = checked \union {w}
  /\ UNCHANGED <<leaseVars, row, strm, after, armed, sent, beatVars, releaser, excused>>

\* The first poll begins the attempt and sends the registration.
BeginRegistration(w) ==
  /\ strm[w] = "new" /\ w \in checked
  /\ checked' = checked \ {w}
  /\ pending' = pending + 1
  /\ StreamTo(w, "registering")
  /\ sent' = sent \union {w}
  /\ UNCHANGED <<retired, registered, settled, waiters, notified, row, after, armed,
                 beatVars, releaser, excused>>

\* A poll of a retired lease ends the stream; an attempt under way stays
\* pending until the stream is dropped.
PollRetired(w) ==
  /\ retired /\ w \notin checked
  /\ strm[w] \in Attempting \union {"new", "running"} /\ w \in Streaming
  /\ StreamTo(w, IF strm[w] \in Attempting THEN "stuck" ELSE "ended")
  /\ UNCHANGED <<leaseVars, row, checked, after, armed, sent, beatVars, releaser, excused>>

\* register_worker_blocking commits; the stream, if it still waits, learns it.
ExecRegister(w) ==
  /\ w \in sent /\ row # "other"
  /\ sent' = sent \ {w}
  /\ row' = "ours"
  /\ strm' = [strm EXCEPT ![w] = IF @ = "registering" THEN "ok" ELSE @]
  /\ UNCHANGED <<leaseVars, checked, after, armed, beatVars, releaser, excused>>

\* The registration is refused: a fresh row of another token, or the advisory
\* lock of a concurrent registration.
RefuseRegister(w) ==
  /\ w \in sent
  /\ row = "other" \/ sent # {w}
  /\ sent' = sent \ {w}
  /\ strm' = [strm EXCEPT ![w] = IF @ = "registering" THEN "err" ELSE @]
  /\ UNCHANGED <<leaseVars, row, checked, after, armed, beatVars, releaser, excused>>

\* The database fails; the registration may have committed.
FailRegister(w) ==
  /\ w \in sent
  /\ sent' = sent \ {w}
  /\ row' \in IF row # "other" THEN {row, "ours"} ELSE {row}
  /\ strm' = [strm EXCEPT ![w] = IF @ = "registering" THEN "err" ELSE @]
  /\ UNCHANGED <<leaseVars, checked, after, armed, beatVars, releaser, excused>>

\* The first item is Ok: the guard is armed and finish_registration stores
\* `registered`.
SettleRegistered(w) ==
  /\ strm[w] = "ok" /\ w \in checked
  /\ checked' = checked \ {w}
  /\ armed' = armed \union {w}
  /\ registered' = TRUE
  /\ Via(w, "count", "running")
  /\ UNCHANGED <<retired, settled, pending, waiters, notified, row, sent, beatVars,
                 releaser, excused>>

\* The first item is an error.
SettleRefused(w) ==
  /\ strm[w] = "err" /\ w \in checked
  /\ checked' = checked \ {w}
  /\ Via(w, "count", "failed")
  /\ excused' = TRUE
  /\ UNCHANGED <<leaseVars, row, armed, sent, beatVars, releaser>>

\* finish_registration, in its order.
CountSettled(w) ==
  /\ strm[w] = "count"
  /\ settled' = settled + 1
  /\ StreamTo(w, "uncount")
  /\ UNCHANGED <<retired, registered, pending, waiters, notified, row, checked, after, armed,
                 sent, beatVars, releaser, excused>>

UncountPending(w) ==
  /\ strm[w] = "uncount"
  /\ pending' = pending - 1
  /\ StreamTo(w, "wake")
  /\ UNCHANGED <<retired, registered, settled, waiters, notified, row, checked, after, armed,
                 sent, beatVars, releaser, excused>>

WakeWaiters(w) ==
  /\ strm[w] = "wake"
  /\ Wake
  /\ Via(w, after[w], "new")
  /\ UNCHANGED <<retired, registered, settled, pending, row, checked, armed, sent,
                 beatVars, releaser, excused>>

\* ClaimOutcomeUnknown, or a lost obligation of a claim, retires the name.
LoseObligation(w) ==
  /\ strm[w] = "running"
  /\ Retire
  /\ Via(w, "wake", "running")
  /\ UNCHANGED <<registered, settled, pending, waiters, notified, row, checked, armed, sent,
                 beatVars, releaser, excused>>

\* Mutated form: an attempt dropped unsettled stays pending.
DropStreamUnsettled(w) ==
  /\ w \in Streaming \ checked /\ strm[w] \notin Finishing \union {"gone"}
  /\ IF w \in armed THEN Retire /\ Via(w, "wake", "gone")
                    ELSE StreamTo(w, "gone") /\ UNCHANGED <<retired, after>>
  /\ armed' = armed \ {w}
  /\ UNCHANGED <<registered, settled, pending, waiters, notified, row, checked, sent, beatVars,
                 releaser, excused>>

\* Mutated form: a failed attempt is settled once more when it is dropped.
DropStreamTwice(w) ==
  /\ strm[w] = "failed"
  /\ Via(w, "count", "gone")
  /\ UNCHANGED <<leaseVars, row, checked, armed, sent, beatVars, releaser, excused>>

\* The task stream is dropped: an armed guard retires the name, an unsettled
\* attempt is settled as refused.
DropStream(w) ==
  /\ w \in Streaming \ checked /\ strm[w] \notin Finishing \union {"gone"}
  /\ \/ /\ w \in armed
        /\ Retire /\ Via(w, "wake", "gone")
        /\ UNCHANGED excused
     \/ /\ strm[w] \in Attempting \union {"stuck"}
        /\ Via(w, "count", "gone")
        /\ excused' = TRUE
        /\ UNCHANGED retired
     \/ /\ w \notin armed /\ strm[w] \notin Attempting \union {"stuck"}
        /\ StreamTo(w, "gone")
        /\ UNCHANGED <<retired, after, excused>>
  /\ armed' = armed \ {w}
  /\ UNCHANGED <<registered, settled, pending, waiters, notified, row, checked, sent, beatVars,
                 releaser>>

-----------------------------------------------------------------------------
(* The heartbeat stream: LeaseStream over Registration and keep_alive. *)

BeatTo(w, where) == beat' = [beat EXCEPT ![w] = where]

\* PostgresStorage::heartbeat_stream takes settled_before.
CreateBeat(w) ==
  /\ w \in Beating /\ beat[w] = "none"
  /\ before' = [before EXCEPT ![w] = settled]
  /\ BeatTo(w, "poll")
  /\ UNCHANGED <<leaseVars, row, streamVars, pass, how, late, releaser, excused>>

\* LeaseStream::poll_next: ensure_active, then the stream underneath.
PollBeat(w) ==
  /\ beat[w] = "poll"
  /\ BeatTo(w, IF retired THEN "endRetired" ELSE "registered")
  /\ pass' = [pass EXCEPT ![w] = 1]
  /\ UNCHANGED <<leaseVars, row, streamVars, before, how, late, releaser, excused>>

\* Registration resolves; keep_alive_stream sleeps before its first renewal.
Release(w, why) ==
  /\ BeatTo(w, "tick")
  /\ how' = [how EXCEPT ![w] = why]

\* The first reading installs the waker, the second one goes to sleep.
NotSettled(w) ==
  /\ BeatTo(w, IF pass[w] = 1 THEN "push" ELSE "asleep")
  /\ UNCHANGED how

\* Registration::is_settled, load by load.
ReadRegistered(w) ==
  /\ beat[w] = "registered"
  /\ IF registered THEN Release(w, "registered") ELSE BeatTo(w, "retired") /\ UNCHANGED how
  /\ UNCHANGED <<leaseVars, row, streamVars, pass, before, late, releaser, excused>>

ReadRetired(w) ==
  /\ beat[w] = "retired"
  /\ IF retired THEN Release(w, "retired") ELSE BeatTo(w, "settled") /\ UNCHANGED how
  /\ UNCHANGED <<leaseVars, row, streamVars, pass, before, late, releaser, excused>>

\* Mutated form: an attempt settled before the heartbeat was created counts.
ReadSettledInclusive(w) ==
  /\ beat[w] = "settled"
  /\ IF settled >= before[w] THEN BeatTo(w, "pending") /\ UNCHANGED how ELSE NotSettled(w)
  /\ UNCHANGED <<leaseVars, row, streamVars, pass, before, late, releaser, excused>>

ReadSettled(w) ==
  /\ beat[w] = "settled"
  /\ IF settled > before[w] THEN BeatTo(w, "pending") /\ UNCHANGED how ELSE NotSettled(w)
  /\ UNCHANGED <<leaseVars, row, streamVars, pass, before, late, releaser, excused>>

\* Mutated form: a refusal releases beside a pending attempt.
ReadPendingIgnored(w) ==
  /\ beat[w] = "pending"
  /\ Release(w, "refused")
  /\ UNCHANGED <<leaseVars, row, streamVars, pass, before, late, releaser, excused>>

ReadPending(w) ==
  /\ beat[w] = "pending"
  /\ IF pending = 0 THEN Release(w, "refused") ELSE NotSettled(w)
  /\ UNCHANGED <<leaseVars, row, streamVars, pass, before, late, releaser, excused>>

\* Mutated form: the state is not read again with the waker in place.
PushWakerAndSleep(w) ==
  /\ beat[w] = "push"
  /\ waiters' = waiters \union {w}
  /\ BeatTo(w, "asleep")
  /\ UNCHANGED <<retired, registered, settled, pending, notified, row, streamVars, pass,
                 before, how, late, releaser, excused>>

PushWaker(w) ==
  /\ beat[w] = "push"
  /\ waiters' = waiters \union {w}
  /\ pass' = [pass EXCEPT ![w] = 2]
  /\ BeatTo(w, "registered")
  /\ UNCHANGED <<retired, registered, settled, pending, notified, row, streamVars,
                 before, how, late, releaser, excused>>

\* The executor polls a woken heartbeat again.
Repoll(w) ==
  /\ beat[w] = "asleep" /\ w \in notified
  /\ notified' = notified \ {w}
  /\ BeatTo(w, "poll")
  /\ UNCHANGED <<retired, registered, settled, pending, waiters, row, streamVars, pass,
                 before, how, late, releaser, excused>>

\* Its task may also be polled for another reason.
PollAnyway(w) ==
  /\ beat[w] = "asleep" /\ w \notin notified
  /\ BeatTo(w, "poll")
  /\ UNCHANGED <<leaseVars, row, streamVars, pass, before, how, late, releaser, excused>>

\* Mutated form: a retired lease skips its renewal and sleeps on.
TickSkipped(w) ==
  /\ beat[w] = "tick"
  /\ BeatTo(w, IF retired THEN "tick" ELSE "due")
  /\ UNCHANGED <<leaseVars, row, streamVars, pass, before, how, late, releaser, excused>>

\* The timer fires: ensure_active, then the renewal is due.
Tick(w) ==
  /\ beat[w] = "tick"
  /\ BeatTo(w, IF retired THEN "endRetired" ELSE "due")
  /\ UNCHANGED <<leaseVars, row, streamVars, pass, before, how, late, releaser, excused>>

\* keep_alive is sent.
SendRenewal(w) ==
  /\ beat[w] = "due"
  /\ late' = [late EXCEPT ![w] = IF retired THEN @ + 1 ELSE @]
  /\ BeatTo(w, "renewing")
  /\ UNCHANGED <<leaseVars, row, streamVars, pass, before, how, releaser, excused>>

\* keep_alive_blocking and heartbeat_outcome.
ExecRenewal(w) ==
  /\ beat[w] = "renewing"
  /\ BeatTo(w, IF row = "ours" THEN "renewed" ELSE "unmatched")
  /\ UNCHANGED <<leaseVars, row, streamVars, pass, before, how, late, releaser, excused>>

FailRenewal(w) ==
  /\ beat[w] = "renewing"
  /\ BeatTo(w, "error")
  /\ UNCHANGED <<leaseVars, row, streamVars, pass, before, how, late, releaser, excused>>

\* Mutated form: the next renewal is due at once, without a check.
PollRenewalAgain(w) ==
  /\ beat[w] \in {"renewed", "unmatched", "error"}
  /\ BeatTo(w, CASE beat[w] = "renewed"   -> "due"
                 [] beat[w] = "unmatched" -> "endUnregistered"
                 [] OTHER                 -> "endFailed")
  /\ UNCHANGED <<leaseVars, row, streamVars, pass, before, how, late, releaser, excused>>

\* The answer is polled: ensure_active first, then the item.
PollRenewal(w) ==
  /\ beat[w] \in {"renewed", "unmatched", "error"}
  /\ BeatTo(w, IF retired THEN "endRetired"
               ELSE CASE beat[w] = "renewed"   -> "tick"
                      [] beat[w] = "unmatched" -> "endUnregistered"
                      [] OTHER                 -> "endFailed")
  /\ UNCHANGED <<leaseVars, row, streamVars, pass, before, how, late, releaser, excused>>

\* The heartbeat is dropped between two polls; its waker may stay behind.
DropBeat(w) ==
  /\ beat[w] \in {"poll", "asleep", "tick", "renewing", "renewed", "unmatched", "error"}
  /\ BeatTo(w, "gone")
  /\ UNCHANGED <<leaseVars, row, streamVars, pass, before, how, late, releaser, excused>>

-----------------------------------------------------------------------------
(* PgReleaser::release_worker and the other processes. *)

\* The name is retired before the release statement is sent.
StartRelease ==
  /\ "release" \in Outside /\ releaser = "idle"
  /\ Retire
  /\ releaser' = "wake"
  /\ UNCHANGED <<registered, settled, pending, waiters, notified, row, streamVars,
                 beatVars, excused>>

WakeForRelease ==
  /\ releaser = "wake"
  /\ Wake
  /\ releaser' = "release"
  /\ UNCHANGED <<retired, registered, settled, pending, row, streamVars, beatVars, excused>>

\* release_worker_blocking clears the token of the row it holds, or fails.
ExecRelease ==
  /\ releaser = "release"
  /\ row' \in IF row = "ours" THEN {"none", row} ELSE {row}
  /\ excused' = (excused \/ row' # row)
  /\ releaser' = "done"
  /\ UNCHANGED <<leaseVars, streamVars, beatVars>>

\* Another storage takes the name over once it is stale or absent, and its own
\* registration becomes stale or is released in turn.
TakeOver ==
  /\ "takeover" \in Outside /\ row # "other"
  /\ row' = "other"
  /\ excused' = (excused \/ row = "ours")
  /\ UNCHANGED <<leaseVars, streamVars, beatVars, releaser>>

OtherExpires ==
  /\ "takeover" \in Outside /\ row = "other"
  /\ row' = "none"
  /\ UNCHANGED <<leaseVars, streamVars, beatVars, releaser, excused>>

StreamStep(w) ==
  \/ PollActive(w) \/ BeginRegistration(w) \/ PollRetired(w)
  \/ ExecRegister(w) \/ RefuseRegister(w) \/ FailRegister(w)
  \/ SettleRegistered(w) \/ SettleRefused(w)
  \/ CountSettled(w) \/ UncountPending(w) \/ WakeWaiters(w)

BeatStep(w) ==
  \/ PollBeat(w) \/ Repoll(w) \/ PushWaker(w)
  \/ ReadRegistered(w) \/ ReadRetired(w) \/ ReadSettled(w) \/ ReadPending(w)
  \/ Tick(w) \/ SendRenewal(w) \/ ExecRenewal(w) \/ FailRenewal(w) \/ PollRenewal(w)

ReleaseStep == WakeForRelease \/ ExecRelease

Next ==
  \/ \E w \in Worker :
       \/ StreamStep(w) \/ LoseObligation(w) \/ DropStream(w)
       \/ CreateBeat(w) \/ BeatStep(w) \/ PollAnyway(w) \/ DropBeat(w)
  \/ StartRelease \/ ReleaseStep \/ TakeOver \/ OtherExpires

\* A stream that has begun is polled until it ends, statements finish, timers
\* fire and the executor polls what was woken.
Fairness ==
  /\ \A w \in Worker : WF_vars(strm[w] # "new" /\ StreamStep(w)) /\ WF_vars(BeatStep(w))
  /\ WF_vars(ReleaseStep)

Spec == Init /\ [][Next]_vars /\ Fairness

-----------------------------------------------------------------------------
(* Properties. *)

\* What Registration::is_settled would answer if it were one load.
IsSettled(w) == registered \/ retired \/ (settled > before[w] /\ pending = 0)

WakeUnderWay == releaser = "wake" \/ \E w \in Worker : strm[w] \in Finishing

\* No wake-up is lost: a sleeping heartbeat that was not notified has its waker
\* in the list, and if what it waits for has happened, someone is about to wake
\* the list (Registration::poll reads again after it pushed its waker).
NoLostWakeup ==
  \A w \in Worker : beat[w] = "asleep" /\ w \notin notified =>
    w \in waiters /\ (IsSettled(w) => WakeUnderWay)

\* A heartbeat that ends its worker with WorkerNotRegistered has a cause: an
\* attempt of the name was refused, failed or was dropped, or the row was lost.
\* A registration that is merely slow never produces it.
UnregisteredForCause ==
  \A w \in Worker : beat[w] \in {"unmatched", "endUnregistered"} => excused

\* The refusal of one worker's attempt does not release the heartbeat of
\* another worker whose registration is being committed: when the loads of
\* is_settled add up to a release by refusal, no attempt of the name is under
\* way (pending_registrations).
PendingAttemptKept ==
  [][\A w \in Worker :
       how[w] = "none" /\ how'[w] = "refused" => \A d \in Worker : strm[d] \notin Attempting]_vars

\* After the retirement a heartbeat sends at most the one renewal whose check
\* came before it, so last_seen stops and recovery can reach the claims.
AtMostOneLateRenewal == \A w \in Worker : late[w] <= 1

\* What a heartbeat may report and renew: WorkerNotRegistered only for a cause,
\* and after a retirement only the one renewal already on its way.
HeartbeatForCause == TypeOK /\ UnregisteredForCause /\ AtMostOneLateRenewal

\* A heartbeat that waits while its own attempt is under way is released: the
\* attempt settles, is dropped, or the name is retired, and the wake-up arrives.
BeatReleased ==
  \A w \in Worker :
    (beat[w] \in Waiting /\ strm[w] \in Attempting) ~> (beat[w] \notin Waiting)

\* Retirement reaches every heartbeat of the name, waiting or renewing.
RetirementEndsBeats ==
  \A w \in Worker :
    (retired /\ beat[w] \in Waiting \union Renewing) ~>
      (beat[w] \notin Waiting \union Renewing)

\* As documented: "A heartbeat created before an attempt waits for that attempt
\* to settle" (lease.rs, settled_registrations).
HeartbeatWaitsForAttempt ==
  \A w \in Worker : how[w] = "refused" => strm[w] \notin Attempting

=============================================================================
