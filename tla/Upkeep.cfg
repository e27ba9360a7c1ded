\* Orphan recovery, retention and schema setup; sweeps take one row at a time.
SPECIFICATION MCSpec
CONSTANTS
  j1 = j1  j2 = j2  p1 = p1  p2 = p2  q1 = q1  q2 = q2
  Procs = {m1, m2, m3}
  Checkers = {c1}
  None = None
  Nothing = Nothing
  Workers = {1, 2, 3}
  Jobs = {1}
  MaxTime = 2
  BatchLimit = 1
  Prompt = TRUE
INVARIANTS RegistrationsKept SetupSound
PROPERTIES UpkeepExact UpkeepEnds
CHECK_DEADLOCK FALSE
