SPECIFICATION MCSpec

CONSTANTS
  c1 = c1
  s1 = s1
  g1 = g1
  t1 = t1
  Catalog = {c1}
  NoCatalog = NoCatalog
  Service = {s1, s2}
  Group = {g1, g2}
  Thread = {t1, t2}
  MaxSize = 2
  Below = 1

INVARIANT FewQuotaDocuments
INVARIANT OwnedKeepsCatalog
PROPERTY OverdraftNeedsRace
PROPERTY DeletedCatalogGoes
CHECK_DEADLOCK FALSE
