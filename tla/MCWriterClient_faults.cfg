CONSTANTS
  s1 = s1  s2 = s2  m1 = m1
  Sessions = {s1, s2}
  Mints = {m1}
  MintOf <- OneMint
  Price <- SamePrices
  RATIO_PERCENT = 150
  INITIAL_LOADED = 3
  Bundlrs = {"server"}
  FAULTS = TRUE
  MAX_CALLS = 2
  NoHead = NoHead
  NoObject = NoObject
  ZERO_ID = ZERO_ID
SPECIFICATION Spec
INVARIANTS TypeOK StoryReadable ReportedOutcomeTrue ItemsAppendedOnce
PROPERTIES StoriesAreLogs CallsSettle
CHECK_DEADLOCK FALSE
