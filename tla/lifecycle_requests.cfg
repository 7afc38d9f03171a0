SPECIFICATION QuietSpec

CONSTANTS
  VM = {v1}
  NoVM = NoVM
  MaxTime = 1
  MaxFaults = 0
  Grace = 1
  InitWait = 0
  CacheLag = FALSE
  MayRetire = FALSE
  MayEdit = TRUE
  Request = {r1, r2, r3}
  NoRequest = NoRequest
  Thread = {t1, t2}
  MaxExtension = 1
  MaxErrors = 1
  MayWithdraw = TRUE
  MayReapprove = TRUE

SYMMETRY Symmetry
INVARIANT OpenRequestsBounded
INVARIANT DriftNeedsMishap
PROPERTY ShorteningNeedsRace
CHECK_DEADLOCK FALSE
