SPECIFICATION FairSpec
CONSTANTS
  c1 = c1
  c2 = c2
  q1 = q1
  t1 = t1
  t2 = t2
  NoOne = NoOne
  Consumer = {c1, c2}
  Queue = {q1}
  QueueOf <- SameQueue
  Payload <- Payloads
  Garbage = {}
  Thread = {l1, l2}
  Capacity = 1
  IdsCap = 2
INVARIANTS NeverCutOff AliveExact NoLostErrorWakeup
PROPERTIES ListenerProgress
CHECK_DEADLOCK FALSE
