CONSTANTS
  w1 = w1  w2 = w2  w3 = w3  a = a
  Writers = {w1, w2}
  Matching = {w1}
  Initial <- MCInitial
  Callers = {a}
  SLICE = 2
  CACHE_TIMEOUT = 0
  MAX_TIME = 1
  MAX_REQUESTS = 2
  MAX_CHANGES = 1
  NoMetadata = NoMetadata
  Nobody = Nobody
SPECIFICATION Spec
INVARIANTS ForcedCallsComplete
CHECK_DEADLOCK FALSE
