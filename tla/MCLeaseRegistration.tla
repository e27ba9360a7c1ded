------------------------ MODULE MCLeaseRegistration ------------------------
(***************************************************************************)
(* LeaseRegistration for TLC.  A behaviour is one of three small worlds,   *)
(* chosen at its start: two task streams beside one heartbeat, two         *)
(* heartbeats beside one task stream, and one worker whose name is         *)
(* released and taken over.                                                *)
(***************************************************************************)
EXTENDS LeaseRegistration

CONSTANTS w1, w2

VARIABLE world

Beats  == INSTANCE LeaseRegistration WITH Streaming <- {w1}, Beating <- {w1, w2}, Outside <- {}
Around == INSTANCE LeaseRegistration WITH
            Streaming <- {w1}, Beating <- {w1}, Outside <- {"release", "takeover"}

MCInit == world \in {"streams", "beats", "around"} /\ Init

MCNext ==
  /\ \/ world = "streams" /\ Next
     \/ world = "beats" /\ Beats!Next
     \/ world = "around" /\ Around!Next
  /\ UNCHANGED world

MCFairness ==
  /\ \A w \in Worker :
       WF_vars(strm[w] # "new" /\ StreamStep(w)) /\ WF_vars(BeatStep(w))
  /\ WF_vars(ReleaseStep)

MCSpec == MCInit /\ [][MCNext]_<<vars, world>> /\ MCFairness

-----------------------------------------------------------------------------
\* What a heartbeat is promised: the refusal of another worker's attempt does
\* not release it while an attempt is under way, its own attempt releases it in
\* the end, and a retirement of the name ends it.
HeartbeatPromise == PendingAttemptKept /\ BeatReleased /\ RetirementEndsBeats

=============================================================================
