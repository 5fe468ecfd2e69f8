CONSTANTS
  w1 = w1  w2 = w2  c1 = c1  c2 = c2  h1 = h1  fee = fee  other = other  m1 = m1  m2 = m2
  NoAccount = NoAccount
  Keys <- MCKeys
  Writers = {w1, w2}
  Creators = {c1}
  Holders = {h1}
  VERIFICATION_AUTHORITY = c2
  SOLSTORY_FEE_DESTINATION = fee
  FeeAccounts = {fee}
  Mints = {m1}
  Contents = {"a"}
  OversizedContents = {}
  JsonLengths = {}
  VisibilityIndexes = {0, 1}
  DataHashes = {"d1"}
  ObjIds = {"o1"}
  ClaimedAccessTypes = {"Url", "None"}
  ZERO_ID = "zero"
  Timestamps = {1, 5, 6}
  Clocks <- MCClocks
  TIMESTAMP_ACCEPTABLE_VARIANCE = 2
  I64_HALF = 64
  I32_MAX = 2
  MAX_ITEMS = 2
  INITIAL_LAMPORTS <- HeadFunds
SPECIFICATION Spec
VIEW Unreceipted
INVARIANTS EmptyHeadsAgree ClaimedTimesNearlyOrdered FeePaidOncePerHead
PROPERTIES HeadPartsSigned ListsAreLogs PartsOfHeadIndependent
CHECK_DEADLOCK FALSE
