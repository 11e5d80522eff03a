SPECIFICATION LiveSpec
CONSTANTS
  Null = Null
  k1 = k1
  k2 = k2
  Secrets = {k1, k2}
  Last4 <- DistinctEndings
  Handlers = {h1, h2}
  MaxRequests = 3
INVARIANTS
  VerdictOfStoredKey
PROPERTIES
  CacheNeverRegresses
  SectionsLoad
CHECK_DEADLOCK FALSE
