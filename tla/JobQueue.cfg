SPECIFICATION Spec
CONSTANTS
  t1 = t1
  t2 = t2
  n1 = n1
  n2 = n2
  s1 = s1
  s2 = s2
  c1 = c1
  c2 = c2
  Task = {t1}
  Name = {n1}
  Storage = {s1, s2}
  Caller = {s1, s2, None}
  Claim = {c1, c2}
  MaxAttempts <- Budget
  Delay = {0, 1}
  Second = 2
  StaleAfter = 1
  MaxTime = 3
  None = None
  NoRow = NoRow
  NoClaim = NoClaim
SYMMETRY Symmetry
INVARIANTS TypeOK RowShape OwnerRegistered ChargedExecutions StartedClaimExact OneExecutionPerAttempt
