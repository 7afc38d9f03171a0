SPECIFICATION FairLifecycleSpec

CONSTANTS
  VM = {v1}
  NoVM = NoVM
  MaxTime = 1
  MaxFaults = 0
  Grace = 1
  InitWait = 0
  CacheLag = FALSE
  MayRetire = FALSE
  MayEdit = TRUE
  Request = {r1}
  NoRequest = NoRequest
  Thread = {t1, t2}
  MaxExtension = 1
  MaxErrors = 0
  MayWithdraw = FALSE
  MayReapprove = FALSE

PROPERTY ImplementsController
PROPERTY ExpiryTakesEffect
CHECK_DEADLOCK FALSE
