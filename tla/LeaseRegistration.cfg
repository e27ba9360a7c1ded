SPECIFICATION MCSpec
CONSTANTS
  w1 = w1  w2 = w2
  Worker = {w1, w2}
  Streaming = {w1, w2}
  Beating = {w1}
  Outside = {}
INVARIANTS HeartbeatForCause NoLostWakeup
PROPERTIES HeartbeatPromise
CHECK_DEADLOCK FALSE
