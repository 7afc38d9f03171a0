SPECIFICATION Spec

CONSTANTS
  VM = {v1, v2}
  NoVM = NoVM
  MaxTime = 2
  MaxFaults = 2
  Grace = 1
  InitWait = 1
  CacheLag = FALSE
  MayRetire = FALSE
  MayEdit = TRUE

SYMMETRY Symmetry
INVARIANT NothingLeftBehind
PROPERTY BootWaitHonoured
PROPERTY DeliveredVMKept
PROPERTY ExpiredLeftOnlyBlocked
PROPERTY RecordedVMCleaned
CHECK_DEADLOCK FALSE
