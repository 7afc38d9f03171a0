SPECIFICATION RemindersSpec

CONSTANTS
  Deployment = {d1}
  Lease = 10
  LastHalfDay = 12

INVARIANT RemindedOnlyNearExpiry
CHECK_DEADLOCK FALSE
