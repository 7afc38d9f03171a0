SPECIFICATION Spec

CONSTANTS
  VM = {v1, v2}
  NoVM = NoVM
  MaxTime = 1
  MaxFaults = 1
  Grace = 1
  InitWait = 1
  CacheLag = TRUE
  MayRetire = TRUE
  MayEdit = FALSE

SYMMETRY Symmetry
INVARIANT TypeOK
INVARIANT AtMostOneVM
INVARIANT FinalizerBeforeVM
CHECK_DEADLOCK FALSE
