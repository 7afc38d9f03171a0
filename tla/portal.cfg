SPECIFICATION MCSpec

CONSTANTS
  w1 = w1
  t1 = t1
  Window = {w1, w2}
  Thread = {t1, t2}
  MaxTime = 2
  Warning = 2
  Form = {f1, f2}
  FeedbackLimit = 2
  MaxDay = 1
  Deployment = {d1}
  Lease = 6
  LastHalfDay = 8
  MaxEvents = 3
  Capacity = 2
  MaxTroubles = 1
  Server = {v1, v2}
  NoServer = NoServer
  Disks = 2
  MinInterval = 1
  MaxMishaps = 2

INVARIANT WindowsWellFormed
INVARIANT CurrentWindowShown
INVARIANT DailyLimitNearlyKept
INVARIANT AtMostOneNoticeADay
INVARIANT FewCopies
INVARIANT VMComplete
INVARIANT NoVolumeForgotten
PROPERTY OverlapNeedsRace
PROPERTY DeletedWindowStaysDeleted
PROPERTY UntoldNeedsRecent
PROPERTY EveryEventTried
PROPERTY KnownUnlessLeft
CHECK_DEADLOCK FALSE
