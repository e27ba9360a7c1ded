SPECIFICATION WaitSpec
CONSTANTS
  i1 = i1
  i2 = i2
  TaskIds = {i1, i2}
  Asked <- MCAsked
  InitialBackoff = 2
  MaxBackoff = 5
  MaxErrors = 3
  MaxEnqueues = 2
  Nothing = Nothing
INVARIANT
  GraceBetweenPolls
CHECK_DEADLOCK FALSE
