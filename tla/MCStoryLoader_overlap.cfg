CONSTANTS
  a = a  b = b
  LENGTH = 2
  Heads = {}
  Callers = {a, b}
  Counts = {0, 3}
  MAX_CALLS = 3
  MAX_ALTERED = 2
  Forged = Forged
SPECIFICATION Spec
INVARIANTS FalseOnlyIfAltered
CHECK_DEADLOCK FALSE
