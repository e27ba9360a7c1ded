\* The row locks, the outbox, the listings, the statistics, the results and query_specs.
SPECIFICATION MCSpec
CONSTANTS
  s1 = s1  s2 = s2  s3 = s3  c1 = c1  c2 = c2  i1 = i1  i2 = i2  k1 = k1  k2 = k2  long = long  o1 = o1
  qa = qa  qb = qb  wa = wa  wb = wb  t1 = t1  t2 = t2  r1 = r1  r2 = r2
  Names = {wa}
  Tokens = {i1, i2}
  Jobs = {1, 2}
  Sessions = {s1, s2, s3}
  MaxEpoch = 1
  None = None
  Null = Null  All = All  NoKey = NoKey  NoOrder = NoOrder  NoPush = NoPush
  Conns = {c1, c2}
  Ids = {i1, i2}
  Keys = {k1, k2, long}
  OverCap = {long}
  Orders = {o1}
  MaxBatch = 2
  MaxPushes = 2
  TaskIds = {t1, t2}
  MaxAttempts = 2
  Text <- SmallText
  Cap = 4
SYMMETRY Symmetry
INVARIANTS ClaimsAreCurrent NoWaitCycle OutboxExact ReadersSound ResultsSound StatementSpecs
PROPERTIES AtomicTransactions AnswersExact
CHECK_DEADLOCK FALSE
