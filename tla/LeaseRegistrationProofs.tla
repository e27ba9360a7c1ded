---------------------- MODULE LeaseRegistrationProofs ----------------------
(***************************************************************************)
(* Proofs of the safety of LeaseRegistration for any number of workers of  *)
(* the name.                                                               *)
(*                                                                         *)
(* The inductive invariant has four parts.  The pending counter is the     *)
(* number of attempts that began and did not reach their decrement         *)
(* (PendingExact).  Whatever settled left either a registration or a cause *)
(* behind (CauseKept).  Of each task stream it says what its place tells   *)
(* of the flags (StreamInv), and of each heartbeat what its loads so far   *)
(* tell, with the wake-up that follows every store that could contradict   *)
(* them (BeatInv).                                                         *)
(***************************************************************************)
EXTENDS LeaseRegistration, FiniteSetTheorems, TLAPS

\* Attempts that are counted in pending_registrations.
Counted == Attempting \union {"stuck", "count", "uncount"}

Unsettled == {w \in Worker : strm[w] \in Counted}

\* pending_registrations counts the attempts between begin_registration and
\* the decrement of finish_registration.
PendingExact == IsFiniteSet(Unsettled) /\ pending = Cardinality(Unsettled)

\* A registration stays ours, and a settled attempt registered or was refused.
CauseKept ==
  /\ registered => row = "ours" \/ excused
  /\ settled > 0 => registered \/ excused

\* What the place of a task stream tells.
StreamInv(w) ==
  /\ strm[w] \in Finishing => after[w] \in {"running", "failed", "gone"}
  /\ w \in armed => strm[w] \notin Attempting \union {"new", "stuck"}
  /\ strm[w] = "ok" => row = "ours" \/ excused
  /\ strm[w] \in {"count", "uncount"} => registered \/ excused

\* The heartbeat has its waker in place and has not been polled since.
Listening(w) == beat[w] = "asleep" \/ (beat[w] \in Reading /\ pass[w] = 2)

\* What a heartbeat that listens has read still holds, or it is woken again.
WakeInv(w) ==
  Listening(w) /\ w \notin notified =>
    /\ w \in waiters
    /\ registered /\ beat[w] # "registered" => WakeUnderWay
    /\ retired /\ beat[w] \notin {"registered", "retired"} => WakeUnderWay
    /\ beat[w] = "asleep" /\ settled > before[w] /\ pending = 0 => WakeUnderWay

\* Where a heartbeat that sent a renewal after the retirement may be.
Last == {"renewing", "renewed", "unmatched", "error",
         "endRetired", "endUnregistered", "endFailed", "gone"}

\* What the place of a heartbeat tells.
BeatInv(w) ==
  /\ WakeInv(w)
  /\ beat[w] = "pending" => settled > before[w]
  /\ beat[w] \in Renewing => registered \/ excused \/ (retired /\ beat[w] = "tick")
  /\ beat[w] \in {"unmatched", "endUnregistered"} => excused
  /\ late[w] = 0 \/ (late[w] = 1 /\ retired /\ beat[w] \in Last)

\* The inductive invariant.
LeaseInv ==
  /\ TypeOK
  /\ PendingExact
  /\ CauseKept
  /\ \A w \in Worker : StreamInv(w) /\ BeatInv(w)

-----------------------------------------------------------------------------
(* What a step of one actor leaves the others. *)

\* The flags are only set and the counter of settled attempts only grows; a row
\* is lost only with a cause.
Grows ==
  /\ (registered => registered') /\ (retired => retired') /\ (excused => excused')
  /\ settled <= settled'
  /\ row = "ours" => row' = "ours" \/ excused'

\* A wake-up is under way after the step, or the step has nothing to tell.
Quiet ==
  \/ WakeUnderWay'
  \/ /\ ~WakeUnderWay /\ (registered' => registered) /\ (retired' => retired)
     /\ settled' = settled /\ (pending' = 0 => pending = 0)

\* A waker in the list stays there or is woken.
WakersKept ==
  \A v \in Worker :
    /\ v \in notified => v \in notified'
    /\ v \in waiters => v \in notified' \/ (v \in waiters' /\ Quiet)

\* A task stream that stays where it is keeps its part.
LEMMA StreamStable ==
  ASSUME NEW v \in Worker, StreamInv(v), Grows, strm'[v] = strm[v], after'[v] = after[v],
         v \in armed' => v \in armed
  PROVE  StreamInv(v)'
BY DEF StreamInv, Grows

\* A heartbeat that stays where it is keeps its part.
LEMMA BeatStable ==
  ASSUME NEW v \in Worker, TypeOK, TypeOK', BeatInv(v), Grows,
         v \in notified => v \in notified',
         v \in waiters => v \in notified' \/ (v \in waiters' /\ Quiet),
         beat'[v] = beat[v], pass'[v] = pass[v], before'[v] = before[v], late'[v] = late[v]
  PROVE  BeatInv(v)'
<1>1. settled \in Nat /\ settled' \in Nat /\ before[v] \in Nat /\ settled <= settled'
  BY DEF TypeOK, Grows
<1>2. WakeInv(v)'
  BY DEF BeatInv, WakeInv, Listening, Grows, Quiet
<1>3. settled > before[v] => settled' > before'[v]
  BY <1>1
<1> QED BY <1>2, <1>3 DEF BeatInv, Grows

\* A step of one task stream.
LEMMA StreamMove ==
  ASSUME LeaseInv, NEW w \in Worker, TypeOK', PendingExact', CauseKept', StreamInv(w)',
         Grows, WakersKept, UNCHANGED beatVars,
         \A v \in Worker : v # w => strm'[v] = strm[v] /\ after'[v] = after[v],
         armed' \subseteq armed \union {w}
  PROVE  LeaseInv'
<1>1. ASSUME NEW v \in Worker PROVE BeatInv(v)'
  BY BeatStable DEF LeaseInv, beatVars, WakersKept
<1>2. ASSUME NEW v \in Worker, v # w PROVE StreamInv(v)'
  BY <1>2, StreamStable DEF LeaseInv
<1> QED BY <1>1, <1>2 DEF LeaseInv

\* A step of one heartbeat, which changes nothing the others read but its own
\* waker.
LEMMA BeatMove ==
  ASSUME LeaseInv, NEW w \in Worker, TypeOK', BeatInv(w)',
         UNCHANGED <<retired, registered, settled, pending, row, streamVars, releaser, excused>>,
         \A v \in Worker : v # w =>
           /\ beat'[v] = beat[v] /\ pass'[v] = pass[v] /\ before'[v] = before[v]
           /\ late'[v] = late[v]
           /\ v \in notified => v \in notified'
           /\ v \in waiters => v \in waiters'
  PROVE  LeaseInv'
<1>1. Grows /\ Quiet
  BY DEF LeaseInv, TypeOK, Grows, Quiet, WakeUnderWay, streamVars
<1>2. ASSUME NEW v \in Worker, v # w PROVE BeatInv(v)'
  BY <1>1, <1>2, BeatStable DEF LeaseInv
<1>3. ASSUME NEW v \in Worker PROVE StreamInv(v)'
  BY <1>1, StreamStable DEF LeaseInv, streamVars
<1>4. PendingExact' /\ CauseKept'
  BY DEF LeaseInv, PendingExact, CauseKept, Unsettled, streamVars
<1> QED BY <1>2, <1>3, <1>4 DEF LeaseInv

\* An attempt begins, or goes on: what the counter counts.
LEMMA PendingKept ==
  ASSUME LeaseInv, NEW w \in Worker, pending' = pending,
         \A v \in Worker : v # w => strm'[v] = strm[v],
         strm'[w] \in Counted <=> strm[w] \in Counted
  PROVE  PendingExact'
<1>1. Unsettled' = Unsettled
  BY DEF Unsettled
<1> QED BY <1>1 DEF LeaseInv, PendingExact

\* An attempt begins.
LEMMA PendingBegun ==
  ASSUME LeaseInv, NEW w \in Worker, pending' = pending + 1,
         \A v \in Worker : v # w => strm'[v] = strm[v],
         strm[w] \notin Counted, strm'[w] \in Counted
  PROVE  PendingExact' /\ pending' \in Nat
<1>1. Unsettled' = Unsettled \union {w} /\ w \notin Unsettled
  BY DEF Unsettled
<1>2. IsFiniteSet(Unsettled) /\ pending = Cardinality(Unsettled)
  BY DEF LeaseInv, PendingExact
<1> QED BY <1>1, <1>2, FS_AddElement, FS_CardinalityType DEF PendingExact

\* An attempt is uncounted.
LEMMA PendingEnded ==
  ASSUME LeaseInv, NEW w \in Worker, pending' = pending - 1,
         \A v \in Worker : v # w => strm'[v] = strm[v],
         strm[w] \in Counted, strm'[w] \notin Counted
  PROVE  PendingExact' /\ pending' \in Nat
<1>1. Unsettled' = Unsettled \ {w} /\ w \in Unsettled
  BY DEF Unsettled
<1>2. IsFiniteSet(Unsettled) /\ pending = Cardinality(Unsettled)
  BY DEF LeaseInv, PendingExact
<1>3. IsFiniteSet(Unsettled \ {w}) /\ Cardinality(Unsettled \ {w}) = pending - 1
  BY <1>1, <1>2, FS_RemoveElement
<1>4. Cardinality(Unsettled \ {w}) \in Nat
  BY <1>3, FS_CardinalityType
<1> QED BY <1>1, <1>3, <1>4 DEF PendingExact

-----------------------------------------------------------------------------
(* The steps of a task stream. *)

\* A step outside finish_registration leaves a wake-up under way.
LEMMA QuietStep ==
  ASSUME NEW w \in Worker, strm[w] \notin Finishing, releaser' = releaser,
         \A v \in Worker : v # w => strm'[v] = strm[v],
         registered' = registered, retired' = retired, settled' = settled,
         pending' = 0 => pending = 0
  PROVE  Quiet
BY DEF Quiet, WakeUnderWay

\* A poll finds the lease active or retired; the registration is answered.
LEMMA AttemptInv ==
  ASSUME LeaseInv, NEW w \in Worker,
         \/ PollActive(w) \/ PollRetired(w)
         \/ ExecRegister(w) \/ RefuseRegister(w) \/ FailRegister(w)
  PROVE  LeaseInv'
<1>1. TypeOK /\ PendingExact /\ CauseKept /\ StreamInv(w)
  BY DEF LeaseInv
<1>2. /\ UNCHANGED <<leaseVars, beatVars, releaser, excused>>
      /\ after' = after /\ armed' = armed
  BY DEF PollActive, PollRetired, ExecRegister, RefuseRegister, FailRegister
<1>3. /\ \A v \in Worker : v # w => strm'[v] = strm[v]
      /\ \/ strm'[w] = strm[w]
         \/ strm[w] \in {"new", "running"} /\ strm'[w] = "ended"
         \/ strm[w] \in Attempting /\ strm'[w] \in {"stuck", "ok", "err"}
      /\ strm'[w] = "ok" => strm[w] = "ok" \/ row' = "ours"
      /\ row' = row \/ row' = "ours"
      /\ strm' \in [Worker -> Stream]
  BY <1>1 DEF PollActive, PollRetired, ExecRegister, RefuseRegister, FailRegister, TypeOK,
              StreamTo, Stream, Attempting
<1>4. strm[w] \in Finishing => strm'[w] = strm[w]
  BY <1>3 DEF Finishing, Attempting
<1>5. TypeOK'
  BY <1>1, <1>2, <1>3
  DEF PollActive, PollRetired, ExecRegister, RefuseRegister, FailRegister, TypeOK,
      leaseVars, beatVars
<1>6. Grows /\ CauseKept'
  BY <1>1, <1>2, <1>3 DEF Grows, CauseKept, TypeOK, leaseVars
<1>7. Quiet
  BY <1>2, <1>3, <1>4 DEF Quiet, WakeUnderWay, leaseVars
<1>8. WakersKept
  BY <1>2, <1>7 DEF WakersKept, leaseVars
<1>9. StreamInv(w)'
  BY <1>1, <1>2, <1>3 DEF StreamInv, Finishing, Attempting, leaseVars
<1>10. PendingExact'
  BY <1>2, <1>3, PendingKept DEF Counted, Attempting, leaseVars
<1> QED BY <1>2, <1>3, <1>5, <1>6, <1>8, <1>9, <1>10, StreamMove

\* begin_registration
LEMMA BeginInv ==
  ASSUME LeaseInv, NEW w \in Worker, BeginRegistration(w)
  PROVE  LeaseInv'
<1>1. TypeOK /\ PendingExact /\ CauseKept /\ StreamInv(w)
  BY DEF LeaseInv
<1>2. /\ UNCHANGED <<retired, registered, settled, waiters, notified, row, after, armed,
                     beatVars, releaser, excused>>
      /\ pending' = pending + 1 /\ strm[w] = "new" /\ strm'[w] = "registering"
      /\ \A v \in Worker : v # w => strm'[v] = strm[v]
  BY <1>1 DEF BeginRegistration, StreamTo, TypeOK
<1>3. PendingExact' /\ pending' \in Nat
  BY <1>2, PendingBegun DEF Counted, Attempting
<1>4. TypeOK'
  BY <1>1, <1>2, <1>3 DEF BeginRegistration, StreamTo, TypeOK, Stream, Attempting, beatVars
<1>5. Grows /\ CauseKept'
  BY <1>1, <1>2 DEF Grows, CauseKept, TypeOK
<1>6. pending' # 0
  BY <1>1, <1>2 DEF TypeOK
<1>7. Quiet
  BY <1>2, <1>6, QuietStep DEF Finishing
<1>8. WakersKept
  BY <1>2, <1>7 DEF WakersKept
<1>9. StreamInv(w)'
  BY <1>1, <1>2 DEF StreamInv, Finishing, Attempting
<1> QED BY <1>2, <1>3, <1>4, <1>5, <1>8, <1>9, StreamMove

\* The store that settles an attempt comes before its wake-up.
LEMMA SettleInv ==
  ASSUME LeaseInv, NEW w \in Worker, SettleRegistered(w) \/ SettleRefused(w)
  PROVE  LeaseInv'
<1>1. TypeOK /\ PendingExact /\ CauseKept /\ StreamInv(w)
  BY DEF LeaseInv
<1>2. /\ UNCHANGED <<retired, settled, pending, waiters, notified, row, sent, beatVars, releaser>>
      /\ strm[w] \in {"ok", "err"} /\ strm'[w] = "count" /\ after'[w] \in {"running", "failed"}
      /\ \A v \in Worker : v # w => strm'[v] = strm[v] /\ after'[v] = after[v]
      /\ armed' = armed \/ armed' = armed \union {w}
      /\ \/ registered' = TRUE /\ excused' = excused /\ (row = "ours" \/ excused)
         \/ registered' = registered /\ excused' = TRUE
  BY <1>1 DEF SettleRegistered, SettleRefused, Via, StreamTo, TypeOK, StreamInv, leaseVars
<1>3. TypeOK'
  <2>1. /\ strm' \in [Worker -> Stream] /\ after' \in [Worker -> Stream]
        /\ checked' \subseteq Worker
    BY <1>1 DEF SettleRegistered, SettleRefused, Via, StreamTo, TypeOK, Stream, Finishing
  <2> QED BY <1>1, <1>2, <2>1 DEF TypeOK, beatVars
<1>4. Grows /\ CauseKept'
  BY <1>1, <1>2 DEF Grows, CauseKept, TypeOK
<1>5. Quiet
  BY <1>2 DEF Quiet, WakeUnderWay, Finishing
<1>6. WakersKept
  BY <1>2, <1>5 DEF WakersKept
<1>7. StreamInv(w)'
  BY <1>1, <1>2 DEF StreamInv, Finishing, Attempting
<1>8. PendingExact'
  BY <1>2, PendingKept DEF Counted, Attempting
<1> QED BY <1>2, <1>3, <1>4, <1>6, <1>7, <1>8, StreamMove

\* finish_registration counts the attempt as settled, then as no longer pending.
LEMMA CountInv ==
  ASSUME LeaseInv, NEW w \in Worker, CountSettled(w) \/ UncountPending(w)
  PROVE  LeaseInv'
<1>1. TypeOK /\ PendingExact /\ CauseKept /\ StreamInv(w)
  BY DEF LeaseInv
<1>2. /\ UNCHANGED <<retired, registered, waiters, notified, row, checked, after, armed,
                     sent, beatVars, releaser, excused>>
      /\ strm[w] \in {"count", "uncount"} /\ strm'[w] \in {"uncount", "wake"}
      /\ \A v \in Worker : v # w => strm'[v] = strm[v]
      /\ registered \/ excused
  BY <1>1 DEF CountSettled, UncountPending, StreamTo, TypeOK, StreamInv
<1>3. /\ settled' \in Nat /\ settled <= settled'
      /\ PendingExact' /\ pending' \in Nat
  <2>1. CASE CountSettled(w)
    <3>1. settled' = settled + 1 /\ pending' = pending /\ strm[w] = "count" /\ strm'[w] = "uncount"
      BY <1>1, <2>1 DEF CountSettled, StreamTo, TypeOK
    <3> QED BY <1>1, <1>2, <3>1, PendingKept DEF TypeOK, Counted
  <2>2. CASE UncountPending(w)
    <3>1. settled' = settled /\ pending' = pending - 1 /\ strm[w] = "uncount" /\ strm'[w] = "wake"
      BY <1>1, <2>2 DEF UncountPending, StreamTo, TypeOK
    <3> QED BY <1>1, <1>2, <3>1, PendingEnded DEF TypeOK, Counted, Attempting
  <2> QED BY <2>1, <2>2
<1>4. strm' \in [Worker -> Stream]
  BY <1>1 DEF CountSettled, UncountPending, StreamTo, TypeOK, Stream, Finishing
<1>5. TypeOK'
  BY <1>1, <1>2, <1>3, <1>4 DEF TypeOK, beatVars
<1>6. Grows /\ CauseKept'
  BY <1>1, <1>2, <1>3 DEF Grows, CauseKept
<1>7. WakersKept
  BY <1>2 DEF WakersKept, Quiet, WakeUnderWay, Finishing
<1>8. StreamInv(w)'
  BY <1>1, <1>2 DEF StreamInv, Finishing, Attempting
<1> QED BY <1>2, <1>3, <1>5, <1>6, <1>7, <1>8, StreamMove

\* wake_waiters reaches every waker in the list.
LEMMA WakeWaitersInv ==
  ASSUME LeaseInv, NEW w \in Worker, WakeWaiters(w)
  PROVE  LeaseInv'
<1>1. TypeOK /\ PendingExact /\ CauseKept /\ StreamInv(w)
  BY DEF LeaseInv
<1>2. /\ UNCHANGED <<retired, registered, settled, pending, row, checked, armed, sent,
                     beatVars, releaser, excused>>
      /\ notified' = notified \union waiters /\ waiters' = {}
      /\ strm[w] = "wake" /\ strm'[w] = after[w] /\ after'[w] = "new"
      /\ \A v \in Worker : v # w => strm'[v] = strm[v] /\ after'[v] = after[v]
      /\ after[w] \in {"running", "failed", "gone"}
  BY <1>1 DEF WakeWaiters, Wake, Via, StreamTo, TypeOK, StreamInv, Finishing
<1>3. TypeOK'
  BY <1>1, <1>2 DEF WakeWaiters, Via, StreamTo, TypeOK, Stream, beatVars
<1>4. Grows /\ CauseKept' /\ WakersKept
  BY <1>1, <1>2 DEF Grows, CauseKept, TypeOK, WakersKept
<1>5. StreamInv(w)'
  BY <1>1, <1>2 DEF StreamInv, Finishing, Attempting
<1>6. PendingExact'
  BY <1>2, PendingKept DEF Counted, Attempting
<1> QED BY <1>2, <1>3, <1>4, <1>5, <1>6, StreamMove

\* A retirement comes before its wake-up; a dropped attempt is settled.
LEMMA DropStreamInv ==
  ASSUME LeaseInv, NEW w \in Worker, LoseObligation(w) \/ DropStream(w)
  PROVE  LeaseInv'
<1>1. TypeOK /\ PendingExact /\ CauseKept /\ StreamInv(w)
  BY DEF LeaseInv
<1>2. /\ UNCHANGED <<registered, settled, pending, waiters, notified, row, checked, sent,
                     beatVars, releaser>>
      /\ armed' \subseteq armed /\ strm[w] \notin Finishing
      /\ \A v \in Worker : v # w => strm'[v] = strm[v] /\ after'[v] = after[v]
      /\ \/ /\ retired' = TRUE /\ excused' = excused /\ strm'[w] = "wake"
            /\ after'[w] \in {"running", "gone"} /\ strm[w] \notin Counted
         \/ /\ retired' = retired /\ excused' = TRUE /\ strm'[w] = "count" /\ w \notin armed'
            /\ after'[w] = "gone" /\ strm[w] \in Counted
         \/ /\ retired' = retired /\ excused' = excused /\ strm'[w] = "gone" /\ w \notin armed'
            /\ after' = after /\ strm[w] \notin Counted
  <2>1. CASE LoseObligation(w)
    BY <1>1, <2>1 DEF LoseObligation, Retire, Via, StreamTo, TypeOK, Finishing, Counted, Attempting
  <2>2. CASE DropStream(w)
    BY <1>1, <2>2 DEF DropStream, Retire, Via, StreamTo, TypeOK, StreamInv, Finishing, Counted,
                      Attempting
  <2> QED BY <2>1, <2>2
<1>3. TypeOK'
  <2>1. strm' \in [Worker -> Stream] /\ after' \in [Worker -> Stream]
    BY <1>1 DEF LoseObligation, DropStream, Via, StreamTo, TypeOK, Stream, Finishing
  <2> QED BY <1>1, <1>2, <2>1 DEF TypeOK, beatVars
<1>4. Grows /\ CauseKept'
  BY <1>1, <1>2 DEF Grows, CauseKept, TypeOK
<1>5. Quiet
  BY <1>2 DEF Quiet, WakeUnderWay, Finishing
<1>6. WakersKept
  BY <1>2, <1>5 DEF WakersKept
<1>7. StreamInv(w)'
  BY <1>1, <1>2 DEF StreamInv, Finishing, Attempting
<1>8. PendingExact'
  BY <1>2, PendingKept DEF Counted, Attempting
<1> QED BY <1>2, <1>3, <1>4, <1>6, <1>7, <1>8, StreamMove

-----------------------------------------------------------------------------
(* The steps of a heartbeat. *)

\* The beginning of a heartbeat, of a poll and its end.
LEMMA PollInv ==
  ASSUME LeaseInv, NEW w \in Worker,
         CreateBeat(w) \/ PollBeat(w) \/ Repoll(w) \/ PollAnyway(w) \/ DropBeat(w)
  PROVE  LeaseInv'
<1>1. TypeOK /\ BeatInv(w)
  BY DEF LeaseInv
<1>2. /\ UNCHANGED <<retired, registered, settled, pending, waiters, row, streamVars, how, late,
                     releaser, excused>>
      /\ \A v \in Worker : v # w =>
           /\ beat'[v] = beat[v] /\ pass'[v] = pass[v] /\ before'[v] = before[v]
           /\ v \in notified => v \in notified'
      /\ \/ beat[w] \in {"none", "asleep"} /\ beat'[w] = "poll"
         \/ beat[w] = "poll" /\ beat'[w] = "endRetired"
         \/ beat[w] = "poll" /\ beat'[w] = "registered" /\ pass'[w] = 1
         \/ beat[w] # "none" /\ beat'[w] = "gone"
  BY <1>1 DEF CreateBeat, PollBeat, Repoll, PollAnyway, DropBeat, BeatTo, TypeOK, leaseVars
<1>3. TypeOK'
  <2>1. /\ beat' \in [Worker -> Beat] /\ pass' \in [Worker -> {1, 2}] /\ before' \in [Worker -> Nat]
        /\ notified' \subseteq Worker
    BY <1>1 DEF CreateBeat, PollBeat, Repoll, PollAnyway, DropBeat, BeatTo, TypeOK, leaseVars,
                Beat, Waiting, Reading
  <2> QED BY <1>1, <1>2, <2>1 DEF TypeOK, streamVars
<1>4. BeatInv(w)'
  BY <1>1, <1>2 DEF BeatInv, WakeInv, Listening, Reading, Renewing, Last
<1> QED BY <1>2, <1>3, <1>4, BeatMove

\* The waker is in place before the second reading.
LEMMA PushInv ==
  ASSUME LeaseInv, NEW w \in Worker, PushWaker(w)
  PROVE  LeaseInv'
<1>1. TypeOK /\ BeatInv(w)
  BY DEF LeaseInv
<1>2. /\ UNCHANGED <<retired, registered, settled, pending, notified, row, streamVars,
                     before, how, late, releaser, excused>>
      /\ waiters' = waiters \union {w}
      /\ \A v \in Worker : v # w => beat'[v] = beat[v] /\ pass'[v] = pass[v]
      /\ beat[w] = "push" /\ beat'[w] = "registered"
  BY <1>1 DEF PushWaker, BeatTo, TypeOK
<1>3. TypeOK'
  <2>1. /\ beat' \in [Worker -> Beat] /\ pass' \in [Worker -> {1, 2}] /\ waiters' \subseteq Worker
    BY <1>1 DEF PushWaker, BeatTo, TypeOK, Beat, Waiting, Reading
  <2> QED BY <1>1, <1>2, <2>1 DEF TypeOK, streamVars
<1>4. BeatInv(w)'
  BY <1>1, <1>2 DEF BeatInv, WakeInv, Listening, Renewing, Last
<1> QED BY <1>2, <1>3, <1>4, BeatMove

\* Each load of is_settled finds what it looks for, or goes on knowing that it
\* was not there with the waker in place.
LEMMA ReadInv ==
  ASSUME LeaseInv, NEW w \in Worker,
         ReadRegistered(w) \/ ReadRetired(w) \/ ReadSettled(w) \/ ReadPending(w)
  PROVE  LeaseInv'
<1>1. TypeOK /\ BeatInv(w) /\ CauseKept
  BY DEF LeaseInv
<1>2. /\ UNCHANGED <<leaseVars, row, streamVars, pass, before, late, releaser, excused>>
      /\ \A v \in Worker : v # w => beat'[v] = beat[v]
  BY <1>1 DEF ReadRegistered, ReadRetired, ReadSettled, ReadPending, Release, NotSettled,
              BeatTo, TypeOK
<1>3. \/ /\ beat'[w] = "tick"
         /\ registered \/ retired \/ (beat[w] = "pending" /\ pending = 0)
      \/ beat[w] = "registered" /\ beat'[w] = "retired" /\ ~registered
      \/ beat[w] = "retired" /\ beat'[w] = "settled" /\ ~retired
      \/ beat[w] = "settled" /\ beat'[w] = "pending" /\ settled > before[w]
      \/ beat'[w] = "push"
      \/ beat[w] = "settled" /\ beat'[w] = "asleep" /\ pass[w] = 2 /\ ~(settled > before[w])
      \/ beat[w] = "pending" /\ beat'[w] = "asleep" /\ pass[w] = 2 /\ pending # 0
  <2>1. beat \in [Worker -> Beat] /\ pass[w] \in {1, 2}
    BY <1>1 DEF TypeOK
  <2> QED BY <2>1 DEF ReadRegistered, ReadRetired, ReadSettled, ReadPending, Release, NotSettled,
                      BeatTo
<1>4. beat[w] \in Reading
  BY DEF ReadRegistered, ReadRetired, ReadSettled, ReadPending, Reading
<1>5. TypeOK'
  <2>1. beat' \in [Worker -> Beat]
    BY <1>1 DEF ReadRegistered, ReadRetired, ReadSettled, ReadPending, Release, NotSettled,
                BeatTo, TypeOK, Beat, Waiting, Reading, Renewing
  <2>2. how' \in [Worker -> {"none", "registered", "retired", "refused"}]
    BY <1>1 DEF ReadRegistered, ReadRetired, ReadSettled, ReadPending, Release, NotSettled, TypeOK
  <2> QED BY <1>1, <1>2, <2>1, <2>2 DEF TypeOK, leaseVars, streamVars
<1>6. WakeInv(w)'
  <2>1. WakeUnderWay' = WakeUnderWay
    BY <1>2 DEF WakeUnderWay, streamVars
  <2> QED BY <1>1, <1>2, <1>3, <1>4, <2>1 DEF BeatInv, WakeInv, Listening, Reading, leaseVars
<1>7. beat'[w] = "tick" => registered \/ excused \/ retired
  <2>1. ASSUME beat[w] = "pending" PROVE registered \/ excused
    <3>1. settled > before[w] /\ settled \in Nat /\ before[w] \in Nat
      BY <1>1, <2>1 DEF BeatInv, TypeOK
    <3>2. settled > 0
      BY <3>1
    <3> QED BY <1>1, <3>2 DEF CauseKept
  <2> QED BY <1>3, <2>1
<1>8. beat'[w] \in {"tick", "retired", "settled", "pending", "push", "asleep"}
  BY <1>3
<1>9. beat'[w] = "pending" => settled > before[w]
  BY <1>3
<1>10. late[w] = 0
  BY <1>1, <1>4 DEF BeatInv, Last, Reading
<1>11. BeatInv(w)'
  BY <1>2, <1>6, <1>7, <1>8, <1>9, <1>10 DEF BeatInv, Renewing, leaseVars
<1> QED BY <1>2, <1>5, <1>11, BeatMove DEF leaseVars

\* keep_alive: a renewal is sent after a check, and its answer is checked
\* again before the next.
LEMMA RenewInv ==
  ASSUME LeaseInv, NEW w \in Worker,
         \/ Tick(w) \/ SendRenewal(w) \/ ExecRenewal(w) \/ FailRenewal(w) \/ PollRenewal(w)
  PROVE  LeaseInv'
<1>1. TypeOK /\ BeatInv(w) /\ CauseKept
  BY DEF LeaseInv
<1>2. /\ UNCHANGED <<leaseVars, row, streamVars, pass, before, how, releaser, excused>>
      /\ \A v \in Worker : v # w => beat'[v] = beat[v] /\ late'[v] = late[v]
  BY <1>1 DEF Tick, SendRenewal, ExecRenewal, FailRenewal, PollRenewal, BeatTo, TypeOK
<1>3. \/ beat[w] = "tick" /\ beat'[w] = "endRetired" /\ late'[w] = late[w]
      \/ beat[w] = "tick" /\ beat'[w] = "due" /\ ~retired /\ late'[w] = late[w]
      \/ /\ beat[w] = "due" /\ beat'[w] = "renewing"
         /\ late'[w] = IF retired THEN late[w] + 1 ELSE late[w]
      \/ beat[w] = "renewing" /\ beat'[w] \in {"renewed", "error"} /\ late'[w] = late[w]
      \/ beat[w] = "renewing" /\ beat'[w] = "unmatched" /\ row # "ours" /\ late'[w] = late[w]
      \/ /\ beat[w] \in {"renewed", "unmatched", "error"} /\ late'[w] = late[w]
         /\ \/ beat'[w] \in {"endRetired", "endFailed"}
            \/ ~retired /\ beat'[w] = "tick"
            \/ beat[w] = "unmatched" /\ beat'[w] = "endUnregistered"
  <2>1. beat \in [Worker -> Beat] /\ late \in [Worker -> Nat]
    BY <1>1 DEF TypeOK
  <2>2. CASE Tick(w)
    BY <2>1, <2>2 DEF Tick, BeatTo
  <2>3. CASE SendRenewal(w)
    BY <2>1, <2>3 DEF SendRenewal, BeatTo
  <2>4. CASE ExecRenewal(w) \/ FailRenewal(w)
    BY <2>1, <2>4 DEF ExecRenewal, FailRenewal, BeatTo
  <2>5. CASE PollRenewal(w)
    <3>1. beat[w] \in {"renewed", "unmatched", "error"} /\ late' = late
      BY <2>5 DEF PollRenewal
    <3>2. CASE retired
      <4>1. beat' = [beat EXCEPT ![w] = "endRetired"]
        BY <2>5, <3>1, <3>2 DEF PollRenewal, BeatTo
      <4> QED BY <2>1, <3>1, <4>1
    <3>3. CASE ~retired /\ beat[w] = "renewed"
      BY <2>1, <2>5, <3>1, <3>3 DEF PollRenewal, BeatTo
    <3>4. CASE ~retired /\ beat[w] = "unmatched"
      BY <2>1, <2>5, <3>1, <3>4 DEF PollRenewal, BeatTo
    <3>5. CASE ~retired /\ beat[w] = "error"
      BY <2>1, <2>5, <3>1, <3>5 DEF PollRenewal, BeatTo
    <3> QED BY <3>1, <3>2, <3>3, <3>4, <3>5
  <2> QED BY <2>2, <2>3, <2>4, <2>5
<1>4. beat[w] \in Renewing /\ beat'[w] \in Renewing \union {"endRetired", "endUnregistered", "endFailed"}
  BY <1>3 DEF Renewing
<1>5. late'[w] = 0 \/ (late'[w] = 1 /\ retired /\ beat'[w] \in Last)
  <2>1. CASE beat[w] \in {"tick", "due"}
    <3>1. late[w] = 0
      BY <1>1, <2>1 DEF BeatInv, Last
    <3> QED BY <1>3, <2>1, <3>1 DEF Last
  <2>2. CASE beat[w] \notin {"tick", "due"}
    BY <1>1, <1>3, <2>2 DEF BeatInv, Last
  <2> QED BY <2>1, <2>2
<1>6. TypeOK'
  <2>1. late'[w] \in Nat
    BY <1>5
  <2>2. late' \in [Worker -> Nat]
    BY <1>1, <2>1 DEF Tick, SendRenewal, ExecRenewal, FailRenewal, PollRenewal, TypeOK
  <2>3. beat' \in [Worker -> Beat]
    BY <1>1 DEF Tick, SendRenewal, ExecRenewal, FailRenewal, PollRenewal, BeatTo, TypeOK, Beat,
                Renewing
  <2> QED BY <1>1, <1>2, <2>2, <2>3 DEF TypeOK, leaseVars, streamVars
<1>7. /\ beat'[w] \in Renewing => registered \/ excused
      /\ beat'[w] \in {"unmatched", "endUnregistered"} => excused
  BY <1>1, <1>3 DEF BeatInv, CauseKept, Renewing
<1>8. BeatInv(w)'
  BY <1>2, <1>4, <1>5, <1>7 DEF BeatInv, WakeInv, Listening, Reading, Renewing, leaseVars
<1> QED BY <1>2, <1>6, <1>8, BeatMove DEF leaseVars

-----------------------------------------------------------------------------
(* The theorems. *)

\* release_worker retires before it wakes, and other storages take the row.
LEMMA OutsideInv ==
  ASSUME LeaseInv,
         StartRelease \/ ReleaseStep \/ TakeOver \/ OtherExpires \/ UNCHANGED vars
  PROVE  LeaseInv'
<1>1. TypeOK /\ PendingExact /\ CauseKept
  BY DEF LeaseInv
<1>2. /\ UNCHANGED <<registered, settled, pending, streamVars, beatVars>>
      /\ \/ retired' = TRUE /\ releaser' = "wake" /\ UNCHANGED <<waiters, notified, row, excused>>
         \/ /\ waiters' = {} /\ notified' = notified \union waiters /\ releaser' = "release"
            /\ UNCHANGED <<retired, row, excused>>
         \/ /\ UNCHANGED <<retired, waiters, notified>>
            /\ releaser' = releaser \/ (releaser = "release" /\ releaser' = "done")
            /\ \/ row' = row
               \/ row = "ours" /\ excused' = TRUE
               \/ row # "ours"
            /\ excused => excused'
            /\ row' \in {"none", "ours", "other"} /\ excused' \in BOOLEAN
  BY <1>1 DEF StartRelease, ReleaseStep, WakeForRelease, ExecRelease, TakeOver, OtherExpires,
              Retire, Wake, TypeOK, vars, leaseVars
<1>3. TypeOK'
  BY <1>1, <1>2 DEF TypeOK, streamVars, beatVars
<1>4. Grows
  BY <1>1, <1>2 DEF Grows, TypeOK
<1>5. CauseKept' /\ PendingExact'
  BY <1>1, <1>2 DEF CauseKept, PendingExact, Unsettled, streamVars
<1>6. WakersKept
  BY <1>2 DEF WakersKept, Quiet, WakeUnderWay, streamVars
<1>7. ASSUME NEW v \in Worker PROVE StreamInv(v)'
  BY <1>2, <1>4, StreamStable DEF LeaseInv, streamVars
<1>8. ASSUME NEW v \in Worker PROVE BeatInv(v)'
  BY <1>1, <1>2, <1>3, <1>4, <1>6, BeatStable DEF LeaseInv, WakersKept, beatVars
<1> QED BY <1>3, <1>5, <1>7, <1>8 DEF LeaseInv

\* The inductive invariant holds initially and after every step.
THEOREM LeaseSafe == Spec => []LeaseInv
<1>1. Init => LeaseInv
  <2> SUFFICES ASSUME Init PROVE LeaseInv
    OBVIOUS
  <2>1. TypeOK
    BY DEF Init, TypeOK, Stream, Beat
  <2>2. PendingExact
    <3>1. Unsettled = {}
      BY DEF Init, Unsettled, Counted, Attempting
    <3> QED BY <3>1, FS_EmptySet DEF Init, PendingExact
  <2>3. ASSUME NEW w \in Worker PROVE StreamInv(w) /\ BeatInv(w)
    BY DEF Init, StreamInv, BeatInv, WakeInv, Listening, Finishing, Reading, Renewing
  <2> QED BY <2>1, <2>2, <2>3 DEF Init, LeaseInv, CauseKept
<1>2. LeaseInv /\ [Next]_vars => LeaseInv'
  <2> SUFFICES ASSUME LeaseInv, [Next]_vars PROVE LeaseInv'
    OBVIOUS
  <2>1. ASSUME NEW w \in Worker, StreamStep(w) \/ LoseObligation(w) \/ DropStream(w)
        PROVE  LeaseInv'
    BY <2>1, AttemptInv, BeginInv, SettleInv, CountInv, WakeWaitersInv, DropStreamInv
    DEF StreamStep
  <2>2. ASSUME NEW w \in Worker, CreateBeat(w) \/ BeatStep(w) \/ PollAnyway(w) \/ DropBeat(w)
        PROVE  LeaseInv'
    BY <2>2, PollInv, PushInv, ReadInv, RenewInv DEF BeatStep
  <2> QED BY <2>1, <2>2, OutsideInv DEF Next
<1> QED BY <1>1, <1>2, PTL DEF Spec

\* No wake-up of a waiting heartbeat is lost, whatever the order of the loads,
\* the stores and the pushed wakers (Registration::poll, wake_waiters).
THEOREM WakeupsArrive == Spec => []NoLostWakeup
<1>1. LeaseInv => NoLostWakeup
  BY DEF LeaseInv, BeatInv, WakeInv, Listening, NoLostWakeup, IsSettled
<1> QED BY <1>1, LeaseSafe, PTL

\* A heartbeat reports WorkerNotRegistered only for a cause, and after a
\* retirement it sends only the renewal that was already on its way.
THEOREM HeartbeatSafe == Spec => []HeartbeatForCause
<1>1. LeaseInv => HeartbeatForCause
  <2> SUFFICES ASSUME LeaseInv PROVE HeartbeatForCause
    OBVIOUS
  <2>1. TypeOK /\ UnregisteredForCause
    BY DEF LeaseInv, BeatInv, UnregisteredForCause
  <2>2. AtMostOneLateRenewal
    BY DEF LeaseInv, BeatInv, AtMostOneLateRenewal
  <2> QED BY <2>1, <2>2 DEF HeartbeatForCause
<1> QED BY <1>1, LeaseSafe, PTL

\* A heartbeat is released by a refusal only when no attempt of the name is
\* under way (pending_registrations).
THEOREM AttemptsAwaited == Spec => PendingAttemptKept
<1> DEFINE A == \A w \in Worker :
       how[w] = "none" /\ how'[w] = "refused" => \A d \in Worker : strm[d] \notin Attempting
<1>1. LeaseInv /\ [Next]_vars => [A]_vars
  <2> SUFFICES ASSUME LeaseInv, Next, NEW w \in Worker, how[w] = "none", how'[w] = "refused",
                      NEW d \in Worker
               PROVE  strm[d] \notin Attempting
    OBVIOUS
  <2>1. \E v \in Worker : ReadPending(v) /\ pending = 0
    BY DEF LeaseInv, TypeOK, Next, StreamStep, BeatStep, ReleaseStep, PollActive,
           BeginRegistration, PollRetired, ExecRegister, RefuseRegister, FailRegister,
           SettleRegistered, SettleRefused, CountSettled, UncountPending, WakeWaiters,
           LoseObligation, DropStream, CreateBeat, PollBeat, ReadRegistered, ReadRetired,
           ReadSettled, ReadPending, Release, NotSettled, PushWaker, Repoll, PollAnyway, Tick,
           SendRenewal, ExecRenewal, FailRenewal, PollRenewal, DropBeat, StartRelease,
           WakeForRelease, ExecRelease, TakeOver, OtherExpires, beatVars
  <2>2. Unsettled = {}
    BY <2>1, FS_EmptySet DEF LeaseInv, PendingExact
  <2> QED BY <2>2 DEF Unsettled, Counted
<1> QED BY <1>1, LeaseSafe, PTL DEF Spec, PendingAttemptKept

=============================================================================
