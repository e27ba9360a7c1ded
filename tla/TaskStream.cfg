\* Two rows, one undecodable; hints, failures, sweeps and drops at every step.
SPECIFICATION MCSpec
CONSTANTS
  t1 = t1  t2 = t2  q1 = q1  q2 = q2
  None = None
  Task = {t1, t2}
  Undecodable = {t2}
  BufferSize = 2
  RetryLimit = 1
  Permits = 2
  Hints <- SmallHints
  MaxClaims = 2
  MaxHints = 1
  Id = {1, 2, 3, 4, 5, 6}
  QueueOf <- SmallQueueOf
  Due = {1, 3, 4, 5}
  Statement <- SmallStatement
  Own = q1
  ChunkSize = 2
  IdsCap = 2
  Capacity = 1
INVARIANTS FetchExact ClaimAccounted HintsSound
PROPERTIES StreamPromise
CHECK_DEADLOCK FALSE
