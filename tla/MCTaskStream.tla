---------------------------- MODULE MCTaskStream ----------------------------
(***************************************************************************)
(* The fetch path of one worker for TLC.  A behaviour is one of two worlds, *)
(* chosen at its start: the task stream, with a listener that sends hints  *)
(* and errors as it likes, and the listener that sends them.               *)
(***************************************************************************)
EXTENDS TaskStream, NotifyListener

CONSTANTS t1, t2, q1, q2

VARIABLE world

\* Two ids of one notification, a failure behind an id and alone.
SmallHints == {<<t1, t2>>, <<t1, Error>>, <<Error>>}

\* In one statement three due rows of the own queue, one that is not due, and
\* one of another queue; a statement with nothing due.
SmallQueueOf == [i \in 1 .. 6 |-> IF i = 4 THEN q2 ELSE q1]
SmallStatement == {1 .. 5, {6}}

streamVars == <<vars, endless>>

MCInit == world \in {"stream", "listener"} /\ Init /\ ListenInit
          /\ (world = "stream" => ~pending)
          /\ (world = "listener" => ~endless)

MCNext ==
  /\ \/ world = "stream" /\ Next /\ UNCHANGED <<endless, listenVars>>
     \/ world = "listener" /\ ListenNext /\ UNCHANGED streamVars
  /\ UNCHANGED world

\* A consumer that polls both fetchers, a database that answers, and one
\* whose answers to the eager fetcher are not errors, or short of rows that
\* others lock, for ever; the listener's thread and the consumer's task run.
MCFairness ==
  /\ WF_vars(world = "stream" /\ PollStep) /\ WF_vars(world = "stream" /\ DatabaseStep)
  /\ SF_vars(world = "stream" /\ Answer) /\ SF_vars(world = "stream" /\ Permit)
  /\ \A f \in Fetcher :
       SF_vars(world = "stream" /\ Yield(f)) /\ SF_vars(world = "stream" /\ FetchOk(f))
  /\ WF_listenVars(world = "listener" /\ ThreadStep)
  /\ WF_listenVars(world = "listener" /\ PollNext)

MCSpec == MCInit /\ [][MCNext]_<<streamVars, listenVars, world>> /\ MCFairness

\* Delivery stops once a release found its claim gone; a release is settled, a
\* row no hint announced is found by polling, and a dropped listener ends.
StreamPromise == StaleStopsDelivery /\ ReleaseSettled /\ PolledWithoutHints /\ DroppedListenerEnds

=============================================================================
