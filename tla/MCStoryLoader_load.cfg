CONSTANTS
  a = a  b = b
  LENGTH = 3
  Heads = {0, 2, 3}
  Callers = {a, b}
  Counts = {0, 3}
  MAX_CALLS = 3
  MAX_ALTERED = 1
  Forged = Forged
SPECIFICATION Spec
INVARIANTS TypeOK ValidatedItemsGenuine SequentialLoadsFaithful LoadedAsRequested LoadingTellsTheTruth RestoredOrRefused
CHECK_DEADLOCK FALSE
