\* A sink and its clone, batches of two; or a wait for two tasks.
SPECIFICATION MCSpec
CONSTANTS
  s1 = s1  s2 = s2  a = a  b = b  d = d  e = e  i1 = i1  i2 = i2
  None = None
  Sink = {s1, s2}
  First = s1
  Offer <- MCOffer
  Invalid = {e}
  BufferSize = 2
  Flush = {1, 2}
  Nothing = Nothing
  TaskIds = {i1, i2}
  Asked <- MCAsked
  InitialBackoff = 2
  MaxBackoff = 5
  MaxErrors = 3
  MaxEnqueues = 2
INVARIANTS PushExact AnsweredForCause
PROPERTIES ProducerEnds
CHECK_DEADLOCK FALSE
