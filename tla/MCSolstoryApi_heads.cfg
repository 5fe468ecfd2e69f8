CONSTANTS
  w1 = w1  w2 = w2  c1 = c1  c2 = c2  h1 = h1  fee = fee  other = other  m1 = m1  m2 = m2
  NoAccount = NoAccount
  Undefined = Undefined
  Clients = {h1}
  MAX_LATE = 0
  Keys <- MCHeadKeys
  Writers = {w1}
  Creators = {c1}
  Holders = {h1}
  VERIFICATION_AUTHORITY = c1
  SOLSTORY_FEE_DESTINATION = fee
  FeeAccounts = {fee, other}
  Mints = {m1, m2}
  Contents = {"a"}
  OversizedContents = {}
  JsonLengths = {}
  VisibilityIndexes <- MCVisibility
  DataHashes = {}
  ObjIds = {"o1"}
  ClaimedAccessTypes = {"Url"}
  ZERO_ID = "zero"
  Timestamps = {3}
  Clocks = {3}
  TIMESTAMP_ACCEPTABLE_VARIANCE = 2
  I64_HALF = 64
  I32_MAX = 2
  MAX_ITEMS = 1
  INITIAL_LAMPORTS <- HeadFunds
SPECIFICATION ApiSpec
INVARIANTS TypeOK FeePaidOncePerHead HolderObeyed
PROPERTIES HeadPartsSigned PartsOfHeadIndependent
CHECK_DEADLOCK FALSE
