CONSTANTS
  w1 = w1  w2 = w2  w3 = w3  a = a
  Writers = {w1, w2, w3}
  Matching = {w1, w2, w3}
  Initial <- MCInitial
  Callers = {a}
  SLICE = 2
  CACHE_TIMEOUT = 0
  MAX_TIME = 2
  MAX_REQUESTS = 2
  MAX_CHANGES = 2
  NoMetadata = NoMetadata
  Nobody = Nobody
SPECIFICATION Spec
SYMMETRY MCSymmetry
INVARIANTS TypeOK CacheIsSnapshot HeadsPaired QuietCallsComplete
CHECK_DEADLOCK FALSE
