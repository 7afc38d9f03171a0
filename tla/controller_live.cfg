SPECIFICATION FairSpec

CONSTANTS
  VM = {v1, v2}
  NoVM = NoVM
  MaxTime = 3
  MaxFaults = 1
  Grace = 1
  InitWait = 0
  CacheLag = FALSE
  MayRetire = FALSE
  MayEdit = FALSE

PROPERTY DeletedServiceRemoved
PROPERTY ExpiredServiceRemoved
CHECK_DEADLOCK FALSE
