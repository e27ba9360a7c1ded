----------------------------- MODULE TaskStream -----------------------------
(***************************************************************************)
(* The task stream of one worker, from the claims of its two fetchers to   *)
(* the decoded tasks its consumer receives:                                *)
(*   LeaseStream(register_then_stream(select(lazy, eager)))                *)
(* under decode_task_stream.  The lazy fetcher turns hints into claims by  *)
(* id, the eager one claims when its poll strategy permits.  A claim whose *)
(* payload does not decode is owed a release.                              *)
(*                                                                         *)
(* A claim is a task with the number of the claim that took it.  Polls     *)
(* happen while the consumer keeps the stream; a transaction, once sent,   *)
(* commits or fails on its own.                                            *)
(***************************************************************************)
EXTENDS Naturals, Sequences, FiniteSets, SequencesExt, FiniteSetsExt

CONSTANTS
  Task,
  Undecodable,   \* tasks whose payload the codec rejects or panics on
  BufferSize,    \* Config::buffer_size: rows of a claim, ids of a chunk
  RetryLimit,    \* RELEASE_RETRY_LIMIT
  Permits,       \* what a poll strategy that ends yields before
  MaxClaims,     \* bound: claims of one task
  Hints,         \* what the listener may send between two polls: ids and errors
  MaxHints,      \* bound: how often it sends
  None

ASSUME TaskAssumption == IsFiniteSet(Task) /\ Undecodable \subseteq Task
ASSUME BoundAssumption ==
  /\ {BufferSize, MaxClaims} \subseteq Nat \ {0}
  /\ {RetryLimit, Permits, MaxHints} \subseteq Nat

VARIABLES
  endless,     \* the poll strategy never ends; it does not change
  row,         \* the row: Pending, Queued by this claim, or out of its hands
  claims,      \* how often this stream claimed it
  lease,       \* the worker's local lease
  reg,         \* the registration: none, ok, refused
  stream,      \* live, ended (LeaseStream.ended or the body is over), dropped
  permits,     \* permits the strategy yielded
  fetches,     \* claims the eager fetcher sent
  eager,       \* StreamState: wait, fetch, buffered, ended
  lazy,        \* idle, fetch, buffered
  sent,        \* a fetcher's claim: what it asked for and its outcome
  buffer,      \* claims a fetcher got and has not yielded
  hints,       \* ids and errors from the listener
  hintCount,   \* how many there were
  inHand,      \* the claim decode_task_stream is about to decode
  owed,        \* its ReleaseObligation
  delivered,   \* history: claims handed to the consumer
  released,    \* history: claims whose release this stream confirmed
  stale        \* history: a release matched no row

fetchVars == <<permits, fetches, eager, lazy, sent, buffer, hints, hintCount>>
vars == <<row, claims, lease, reg, stream, fetchVars, inHand, owed, delivered, released, stale>>

Fetcher == {"eager", "lazy"}
Claim   == Task \X (1 .. MaxClaims)
Error   == "error"

\* A sent claim: its outcome once decided, and the claims it took.
Outcome == {"idle", "sent", "ok", "failed", "unknown"}

\* A ReleaseObligation: its claim, the failures so far, the last attempt.
Owed == [claim : Claim, failures : 0 .. RetryLimit, tx : Outcome, matched : 0 .. 1]

ASSUME HintAssumption == Hints \subseteq Seq(Task \union {Error})
ASSUME NoneAssumption == None \notin Claim \union Owed

\* The types, and that no permit is taken past the strategy's end.
TypeOK ==
  /\ row \in [Task -> {"Pending", "Queued", "Other"}]
  /\ claims \in [Task -> 0 .. MaxClaims]
  /\ lease \in {"active", "retired"}
  /\ reg \in {"none", "ok", "refused"}
  /\ stream \in {"live", "ended", "dropped"}
  /\ endless \in BOOLEAN
  /\ permits \in Nat /\ (endless \/ permits <= Permits) /\ fetches \in Nat
  /\ eager \in {"wait", "fetch", "buffered", "ended"}
  /\ lazy \in {"idle", "fetch", "buffered"}
  /\ sent \in [Fetcher -> [ids : SUBSET Task, outcome : Outcome, got : Seq(Claim)]]
  /\ buffer \in [Fetcher -> Seq(Claim)]
  /\ hints \in Seq(Task \union {Error}) /\ hintCount \in 0 .. MaxHints
  /\ inHand \in Claim \union {None}
  /\ owed \in Owed \union {None}
  /\ delivered \subseteq Claim /\ released \subseteq Claim
  /\ stale \in BOOLEAN

Idle       == [ids |-> {}, outcome |-> "idle", got |-> <<>>]
Asked(ids) == [ids |-> ids, outcome |-> "sent", got |-> <<>>]

\* Backend::poll has built the stream; nothing was polled.
Init ==
  /\ endless \in BOOLEAN
  /\ row = [t \in Task |-> "Pending"]
  /\ claims = [t \in Task |-> 0]
  /\ lease = "active" /\ reg = "none" /\ stream = "live"
  /\ permits = 0 /\ fetches = 0 /\ eager = "wait" /\ lazy = "idle"
  /\ sent = [f \in Fetcher |-> Idle]
  /\ buffer = [f \in Fetcher |-> <<>>]
  /\ hints = <<>> /\ hintCount = 0
  /\ inHand = None /\ owed = None
  /\ delivered = {} /\ released = {} /\ stale = FALSE

-----------------------------------------------------------------------------
\* Polling the body: decode_task_stream asks compact only with nothing in
\* hand and nothing owed; LeaseStream asks the body only with an active lease.

Asking   == stream = "live" /\ inHand = None /\ owed = None
Polling  == Asking /\ lease = "active" /\ reg = "ok"

\* The first item: the registration.  Refused, the body is never polled.
Register ==
  /\ Asking /\ lease = "active" /\ reg = "none"
  /\ \/ reg' = "ok" /\ UNCHANGED stream
     \/ reg' = "refused" /\ stream' = "ended"
  /\ UNCHANGED <<row, claims, lease, fetchVars, inHand, owed, delivered, released, stale>>

\* LeaseStream finds the lease retired: WorkerRetired, then the end.
FindRetired ==
  /\ Asking /\ lease = "retired"
  /\ stream' = "ended"
  /\ UNCHANGED <<row, claims, lease, reg, fetchVars, inHand, owed, delivered, released, stale>>

\* start_fetch; an endless strategy's permits and fetches are not counted.
StartFetch ==
  /\ eager' = "fetch"
  /\ fetches' = IF endless THEN fetches ELSE fetches + 1
  /\ sent' = [sent EXCEPT !["eager"] = Asked(Task)]

\* Mutated form: an exhausted strategy is asked again.
PermitPastEnd ==
  /\ Polling /\ eager = "wait" /\ permits <= Permits
  /\ permits' = permits + 1
  /\ StartFetch
  /\ UNCHANGED <<row, claims, lease, reg, stream, lazy, buffer, hints, hintCount, inHand, owed,
                 delivered, released, stale>>

\* WaitForPoll: the strategy permits a fetch.
Permit ==
  /\ Polling /\ eager = "wait" /\ (endless \/ permits < Permits)
  /\ permits' = IF endless THEN permits ELSE permits + 1
  /\ StartFetch
  /\ UNCHANGED <<row, claims, lease, reg, stream, lazy, buffer, hints, hintCount, inHand, owed,
                 delivered, released, stale>>

\* The strategy is over: PollStrategyExhausted, and no more fetches.
StrategyExhausted ==
  /\ Polling /\ eager = "wait" /\ ~endless /\ permits = Permits
  /\ eager' = "ended"
  /\ UNCHANGED <<row, claims, lease, reg, stream, permits, fetches, lazy, sent, buffer, hints, hintCount,
                 inHand, owed, delivered, released, stale>>

\* The ids of the next chunk: those ready, up to the first error.
ChunkLen ==
  Max({n \in 0 .. Len(hints) :
         n <= BufferSize /\ \A i \in 1 .. n : hints[i] # Error})

\* batch_ids_into_tasks: an error that ended the chunk is yielded first, the
\* ids before it are claimed all the same.
TakeChunk ==
  /\ Polling /\ lazy = "idle" /\ hints # <<>>
  /\ LET n    == ChunkLen
         cut  == n < Len(hints) /\ n < BufferSize
         rest == SubSeq(hints, n + 1, Len(hints))
         ids  == Range(SubSeq(hints, 1, n))
     IN /\ hints' = IF cut THEN Tail(rest) ELSE rest
        /\ IF ids = {} THEN UNCHANGED <<lazy, sent>>
           ELSE /\ lazy' = "fetch"
                /\ sent' = [sent EXCEPT !["lazy"] = Asked(ids)]
  /\ UNCHANGED <<row, claims, lease, reg, stream, permits, fetches, eager, buffer, hintCount, inHand,
                 owed, delivered, released, stale>>

\* CLAIMABLE_PREDICATE, under the bound on claims, over the rows asked for.
Claimable(f) == {t \in sent[f].ids : row[t] = "Pending" /\ claims[t] < MaxClaims}

\* fetch_next or queue_by_id in the database: claims at most BufferSize of
\* the claimable rows, fewer when others hold some (FOR UPDATE SKIP LOCKED).
\* The caller may not learn of it.
Commit(f) ==
  /\ sent[f].outcome = "sent"
  /\ \E take \in SUBSET Claimable(f) :
       /\ Cardinality(take) <= BufferSize
       /\ row' = [t \in Task |-> IF t \in take THEN "Queued" ELSE row[t]]
       /\ claims' = [t \in Task |-> IF t \in take THEN claims[t] + 1 ELSE claims[t]]
       /\ \E order \in SetToSeqs({<<t, claims[t] + 1>> : t \in take}), o \in {"ok", "unknown"} :
            sent' = [sent EXCEPT ![f].outcome = o, ![f].got = order]
  /\ UNCHANGED <<lease, reg, stream, permits, fetches, eager, lazy, buffer, hints, hintCount, inHand,
                 owed, delivered, released, stale>>

\* Nothing was claimed, but the caller cannot tell, or it can.
CommitFails(f) ==
  /\ sent[f].outcome = "sent"
  /\ \E o \in {"failed", "unknown"} : sent' = [sent EXCEPT ![f].outcome = o]
  /\ UNCHANGED <<row, claims, lease, reg, stream, permits, fetches, eager, lazy, buffer, hints, hintCount,
                 inHand, owed, delivered, released, stale>>

Rest(f) == IF f = "eager" THEN eager' = "wait" /\ UNCHANGED lazy
           ELSE lazy' = "idle" /\ UNCHANGED eager

Keep(f) == IF f = "eager" THEN eager' = "buffered" /\ UNCHANGED lazy
           ELSE lazy' = "buffered" /\ UNCHANGED eager

\* The claim's result reaches the fetcher: rows are buffered; none, or an
\* error, sends it back to waiting.
FetchOk(f) ==
  /\ Polling /\ sent[f].outcome = "ok"
  /\ buffer' = [buffer EXCEPT ![f] = sent[f].got]
  /\ IF sent[f].got = <<>> THEN Rest(f) ELSE Keep(f)
  /\ sent' = [sent EXCEPT ![f] = Idle]
  /\ UNCHANGED <<row, claims, lease, reg, stream, permits, fetches, hints, hintCount, inHand, owed,
                 delivered, released, stale>>

\* Mutated form: an unknown outcome leaves the lease active.
AfterUnknownKept(o) == lease

\* LeaseStream retires the lease on ClaimOutcomeUnknown.
AfterOutcome(o) == IF o = "unknown" THEN "retired" ELSE lease

\* Mutated form: an error ends the eager fetcher.
EndOnError(f) == IF f = "eager" THEN eager' = "ended" /\ UNCHANGED lazy
                 ELSE lazy' = "idle" /\ UNCHANGED eager

AfterError(f) == Rest(f)

FetchError(f) ==
  /\ Polling /\ sent[f].outcome \in {"failed", "unknown"}
  /\ lease' = AfterOutcome(sent[f].outcome)
  /\ AfterError(f)
  /\ sent' = [sent EXCEPT ![f] = Idle]
  /\ UNCHANGED <<row, claims, reg, stream, permits, fetches, buffer, hints, hintCount, inHand, owed,
                 delivered, released, stale>>

\* Mutated form: the buffer keeps what it yielded.
Peeked(s) == s

Popped(s) == Tail(s)

\* Mutated form: a drained eager buffer is refilled without a permit.
Refetch(f) == IF f = "eager" THEN StartFetch /\ UNCHANGED lazy
              ELSE lazy' = "idle" /\ UNCHANGED <<eager, sent, fetches>>

AfterDrain(f) == Rest(f) /\ UNCHANGED <<sent, fetches>>

\* A buffered claim is yielded to decode_task_stream; a drained buffer goes
\* back to the strategy.
Yield(f) ==
  /\ Polling /\ buffer[f] # <<>>
  /\ inHand' = Head(buffer[f])
  /\ buffer' = [buffer EXCEPT ![f] = Popped(@)]
  /\ IF Len(buffer[f]) = 1 THEN AfterDrain(f) ELSE UNCHANGED <<eager, lazy, sent, fetches>>
  /\ UNCHANGED <<row, claims, lease, reg, stream, permits, hints, hintCount, owed,
                 delivered, released, stale>>

-----------------------------------------------------------------------------
\* The decode stage.

Obligation(c) == [claim |-> c, failures |-> 0, tx |-> "idle", matched |-> 0]

\* A claim that decodes is yielded; one that does not is owed a release.  (A
\* claimed row has an id, lock_at and attempts, so the branch without an
\* identity, which yields the decode error alone, is never taken.)
Decode ==
  /\ stream = "live" /\ inHand # None
  /\ inHand' = None
  /\ IF inHand[1] \in Undecodable
       THEN owed' = Obligation(inHand) /\ UNCHANGED delivered
       ELSE delivered' = delivered \union {inHand} /\ UNCHANGED owed
  /\ UNCHANGED <<row, claims, lease, reg, stream, fetchVars, released, stale>>

\* The release is sent: at once, then after each retry delay.
SendRelease ==
  /\ stream = "live" /\ owed # None /\ owed.tx = "idle"
  /\ owed' = [owed EXCEPT !.tx = "sent"]
  /\ UNCHANGED <<row, claims, lease, reg, stream, fetchVars, inHand, delivered, released, stale>>

Holds(c) == row[c[1]] = "Queued" /\ claims[c[1]] = c[2]

\* fail_undecodable_task in the database: it fails the row while it carries
\* this claim, back to Pending or for good.  It may commit while its caller
\* sees an error.
ReleaseCommit ==
  /\ owed # None /\ owed.tx = "sent"
  /\ \E o \in {"ok", "failed"} :
       owed' = [owed EXCEPT !.tx = o, !.matched = IF Holds(owed.claim) THEN 1 ELSE 0]
  /\ \E s \in {"Pending", "Other"} :
       row' = IF Holds(owed.claim) THEN [row EXCEPT ![owed.claim[1]] = s] ELSE row
  /\ UNCHANGED <<claims, lease, reg, stream, fetchVars, inHand, delivered, released, stale>>

ReleaseFails ==
  /\ owed # None /\ owed.tx = "sent"
  /\ owed' = [owed EXCEPT !.tx = "failed"]
  /\ UNCHANGED <<row, claims, lease, reg, stream, fetchVars, inHand, delivered, released, stale>>

\* Mutated form: a release that matched no row is taken for a success.
StaleIgnored(n) == lease

\* released == 0 retires the lease.
AfterRelease(n) == IF n = 0 THEN "retired" ELSE lease

\* The decode error is yielded and the obligation discharged.
Released ==
  /\ stream = "live" /\ owed # None /\ owed.tx = "ok"
  /\ lease' = AfterRelease(owed.matched)
  /\ stale' = (stale \/ owed.matched = 0)
  /\ released' = IF owed.matched = 1 THEN released \union {owed.claim} ELSE released
  /\ owed' = None
  /\ UNCHANGED <<row, claims, reg, stream, fetchVars, inHand, delivered>>

\* release_exhausted by count.
ReleaseExhausted(failures) == failures > RetryLimit

\* Mutated form: the failure is not counted.
RetryUncounted(n) == [owed EXCEPT !.tx = "idle"]

RetryLater(n) == [owed EXCEPT !.failures = n, !.tx = "idle"]

\* The release failed: it is kept for a retry; or the retries are exhausted,
\* by count or by the time budget since the first failure, and the lease is
\* retired.
ReleaseFailed ==
  /\ stream = "live" /\ owed # None /\ owed.tx = "failed"
  /\ LET n == owed.failures + 1
     IN \/ /\ ~ReleaseExhausted(n)
           /\ owed' = RetryLater(n)
           /\ UNCHANGED lease
        \/ /\ ReleaseExhausted(n) \/ n > 1
           /\ owed' = None
           /\ lease' = "retired"
  /\ UNCHANGED <<row, claims, reg, stream, fetchVars, inHand, delivered, released, stale>>

-----------------------------------------------------------------------------
\* The surroundings.

\* Another part of the process retires the lease: a completion guard, a
\* failed acknowledgement, release_worker, another stream of the name.
RetiredElsewhere ==
  /\ lease = "active" /\ reg = "ok"
  /\ lease' = "retired"
  /\ UNCHANGED <<row, claims, reg, stream, fetchVars, inHand, owed, delivered, released, stale>>

\* A sweep or a takeover takes a row from the registration.
Swept(t) ==
  /\ row[t] = "Queued"
  /\ row' = [row EXCEPT ![t] = "Other"]
  /\ UNCHANGED <<claims, lease, reg, stream, fetchVars, inHand, owed, delivered, released, stale>>

\* The listener: hints of rows, or its failure.
Hint(h) ==
  /\ hintCount < MaxHints /\ stream = "live"
  /\ hints' = hints \o h
  /\ hintCount' = hintCount + 1
  /\ UNCHANGED <<row, claims, lease, reg, stream, permits, fetches, eager, lazy, sent, buffer, inHand,
                 owed, delivered, released, stale>>

\* LeaseGuard: dropping a registered stream retires the lease.
RetiredOnDrop == IF reg = "ok" THEN "retired" ELSE lease

DropStream ==
  /\ stream # "dropped"
  /\ stream' = "dropped"
  /\ lease' = RetiredOnDrop
  /\ UNCHANGED <<row, claims, reg, fetchVars, inHand, owed, delivered, released, stale>>

PollStep == \/ Register \/ FindRetired \/ Permit \/ StrategyExhausted \/ TakeChunk
            \/ \E f \in Fetcher : FetchOk(f) \/ FetchError(f) \/ Yield(f)
            \/ Decode \/ SendRelease \/ Released \/ ReleaseFailed

DatabaseStep == \/ \E f \in Fetcher : Commit(f) \/ CommitFails(f)
                \/ ReleaseCommit \/ ReleaseFails

Next == \/ PollStep
        \/ DatabaseStep
        \/ RetiredElsewhere
        \/ \E t \in Task : Swept(t)
        \/ \E h \in Hints : Hint(h)
        \/ DropStream

Spec == Init /\ [][Next /\ UNCHANGED endless]_<<vars, endless>>

\* The database answers the eager fetcher's claim, and no row was locked.
Answer ==
  /\ Commit("eager")
  /\ sent'["eager"].outcome = "ok"
  /\ Len(sent'["eager"].got) = Min({BufferSize, Cardinality(Claimable("eager"))})

-----------------------------------------------------------------------------
\* Properties.

Inside == {inHand} \union Range(buffer["eager"]) \union Range(buffer["lazy"])
          \union Range(sent["eager"].got) \union Range(sent["lazy"].got)
          \union (IF owed = None THEN {} ELSE {owed.claim})

\* No claim hides behind a live heartbeat: a row this stream claimed is on
\* its way through the stream or was delivered, or the lease is retired so
\* that orphan recovery will find it.
ClaimAccounted ==
  lease = "active" =>
    \A t \in Task : row[t] = "Queued" => <<t, claims[t]>> \in Inside \union delivered

\* One permit of the strategy, which may be a rate limit, buys at most one
\* claim of the eager fetcher.
PermitPerFetch == fetches <= permits

\* A claim is handed to the consumer or released, never both, and is in one
\* place of the stream at a time.
DeliveredOrReleased ==
  /\ delivered \intersect released = {}
  /\ Inside \intersect (delivered \union released) = {}
  /\ Cardinality(Inside \ {None}) =
       Len(buffer["eager"]) + Len(buffer["lazy"]) + Len(sent["eager"].got)
       + Len(sent["lazy"].got) + (IF owed = None THEN 0 ELSE 1) + (IF inHand = None THEN 0 ELSE 1)

\* One permit of the poll strategy buys one claiming transaction, and every
\* claimed task is delivered once or released, never both.
FetchExact == TypeOK /\ PermitPerFetch /\ DeliveredOrReleased

\* Once a release proved a claim lost, its siblings, which may already run
\* elsewhere, are never delivered.
StaleStopsDelivery == [][stale => delivered' = delivered]_vars

\* An obligation is discharged: the row is released or its lease retired, or
\* the consumer drops the stream.
ReleaseSettled == (owed # None) ~> (owed = None \/ stream # "live")

\* With no hint at all, a Pending row is claimed by polling, by a strategy
\* that does not end, while the stream lives under an active lease.
PolledWithoutHints ==
  \A t \in Task : (endless /\ row[t] = "Pending" /\ claims[t] = 0) ~>
    (claims[t] > 0 \/ stream # "live" \/ lease = "retired" \/ reg = "refused")
=============================================================================
