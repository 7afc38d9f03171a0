SPECIFICATION MCSpec

CONSTANTS
  u1 = u1
  a1 = a1
  g1 = g1
  r1 = r1
  User = {u1, a1}
  Admin = {a1}
  Nobody = Nobody
  Group = {g1, g2}
  Key = {k1, k2}
  Service = {s1}
  Request = {r1, r2}
  Name = {n1}
  Thread = {t1, t2}
  MaxErrors = 1

SYMMETRY Symmetry
INVARIANT OneGroup
PROPERTY DeletionTakesAll
PROPERTY OthersKeepTheirKeys
PROPERTY DuplicateNeedsRace
CHECK_DEADLOCK FALSE
