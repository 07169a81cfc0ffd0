SPECIFICATION Spec
CONSTANTS
  a = a
  b = b
  t = t
  m = m
  Accounts = {a, b}
  Tokens = {t, m}
  IssuerOf <- MCIssuerOf
  MPTs = {m}
  NoValue = NoValue
  Hashed = {a}
  TrustLevel = 2
  Trustlists <- MCTrustlists
  CuratedLists <- MCCuratedLists
  ServiceLists <- MCServiceLists
  WellKnownLists <- MCWellKnownLists
  Avatars = {1}
  Tomls <- MCTomls
  Profiles <- MCProfiles
  ChunkSize = 1
  BatchSize = 1
  Concurrency = 2
  Rows0 <- MCRows
  Configs <- MCConfigs
  MaxFetches = 2
  MaxChanges = 1
  MaxCrashes = 1
INVARIANTS TypeOK ChangesMarked OneFetchEach
PROPERTIES ListIsExact KycIsFinal
CHECK_DEADLOCK FALSE
