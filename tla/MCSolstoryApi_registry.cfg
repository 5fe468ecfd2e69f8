CONSTANTS
  w1 = w1  w2 = w2  c1 = c1  c2 = c2  h1 = h1  fee = fee  other = other  m1 = m1  m2 = m2
  NoAccount = NoAccount
  Undefined = Undefined
  Clients = {w1}
  MAX_LATE = 1
  Keys <- MCKeys
  Writers = {w1, w2}
  Creators = {c1, w1}
  Holders = {}
  VERIFICATION_AUTHORITY = c2
  SOLSTORY_FEE_DESTINATION = fee
  FeeAccounts = {fee}
  Mints = {m1}
  Contents = {"a", "big"}
  OversizedContents = {"big"}
  JsonLengths = {0, 5}
  VisibilityIndexes = {0}
  DataHashes = {"d1"}
  ObjIds = {"o1"}
  ClaimedAccessTypes = {"Url", "None"}
  ZERO_ID = "zero"
  Timestamps = {3}
  Clocks = {3}
  TIMESTAMP_ACCEPTABLE_VARIANCE = 2
  I64_HALF = 64
  I32_MAX = 2
  MAX_ITEMS = 1
  INITIAL_LAMPORTS <- RegistryFunds
SPECIFICATION ApiSpec
INVARIANTS ApiTypeOK WritersCounted LamportsConserved OwnMetadataStands
PROPERTIES OnlySignersCharged
CHECK_DEADLOCK FALSE
