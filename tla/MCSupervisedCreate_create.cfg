SPECIFICATION SupervisedSpec
CONSTANTS
  None = None
  f1 = f1
  f2 = f2
  c1 = c1
  c2 = c2
  Paths = {p}
  FileMeta = {f1, f2}
  FolderMeta = {d}
  Contents = {c1, c2}
  BytesOf <- TwoVersions
  RemoteIds = {r1, r2}
  MaxGeneration = 3
  MaxCursor = 3
  MaxAttempts = 2
  MaxForeign = 1
  MaxInterruptions = 1
INVARIANTS
  SupervisedTypeOK
  UploadIsEvidenced
  BeliefIsReal
  CatalogIsCurrentAtCursor
  RecreatedOnlyAfterASibling
PROPERTIES
  SettlementMatchesDisk
  StoreTransactions
CHECK_DEADLOCK FALSE
