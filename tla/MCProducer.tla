----------------------------- MODULE MCProducer -----------------------------
(***************************************************************************)
(* The producer's side for TLC.  A behaviour is one of two worlds, chosen  *)
(* at its start: sinks that push tasks, and a caller that waits for them.  *)
(***************************************************************************)
EXTENDS TaskSink, WaitForCompletion, TLC

CONSTANTS s1, s2, a, b, d, e, i1, i2

VARIABLE world

\* A sink whose caller offers a task no batch can write among others, and its
\* clone.
MCOffer == (s1 :> <<a, e, b>>) @@ (s2 :> <<d>>)

\* A wait for two tasks, the first one asked for twice.
MCAsked == <<i1, i2, i1>>

ASSUME ProducerAssumption == SinkAssumption

MCInit == world \in {"push", "wait"} /\ Init /\ WaitInit

MCNext ==
  /\ \/ world = "wait" /\ WaitNext /\ UNCHANGED vars
     \/ world = "push" /\ Next /\ UNCHANGED waitVars
  /\ UNCHANGED world

\* The blocking pool runs what was submitted and a caller that flushes polls;
\* the caller of wait_for polls, time passes, and workers finish the tasks
\* that exist.  Nothing is assumed of other producers, retention and failures.
MCFairness ==
  /\ \A f \in Flush : WF_vars(world = "push" /\ ClosureStep(f))
  /\ \A s \in Sink : WF_vars(world = "push" /\ PollFlush(s))
  /\ WF_waitVars(world = "wait" /\ Stream)
  /\ WF_waitVars(world = "wait" /\ Tick)
  /\ \A i \in TaskIds : WF_waitVars(world = "wait" /\ Finish(i))

MCSpec == MCInit /\ [][MCNext]_<<vars, waitVars, world>> /\ MCFairness

-----------------------------------------------------------------------------
\* The wait always ends: every id is answered, or the error is.  An id that
\* is never enqueued, or purged before it was read, does not hang wait_for.
WaitReturns == (world = "wait") ~> (pc = "ended")

\* Flushes settle, also those of dropped sinks, and waits return.
ProducerEnds == FlushSettled /\ DroppedFlushRuns /\ WaitReturns

=============================================================================
