\* The documented wait of a heartbeat, with a second worker of the name.
SPECIFICATION Spec
CONSTANTS
  w1 = w1  w2 = w2
  Worker = {w1, w2}
  Streaming = {w1, w2}
  Beating = {w1}
  Outside = {}
INVARIANTS
  HeartbeatWaitsForAttempt
CHECK_DEADLOCK FALSE
