SPECIFICATION Spec
CONSTANTS
  Call = {c1, c2}
  MaxAcks = 2
  Free = Free
INVARIANTS TypeOK ObligationKept RetiredForCause AcksOwnExecution
PROPERTIES ClaimProgress
CHECK_DEADLOCK FALSE
