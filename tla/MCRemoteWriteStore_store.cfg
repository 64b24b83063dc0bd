SPECIFICATION StoreSpec
CONSTANTS
  None = None
  Paths = {p, q}
  FileMeta = {f}
  FolderMeta = {d}
  Contents = {c}
  RemoteIds = {r1, r2}
  MaxGeneration = 3
  MaxCursor = 1
  MaxAttempts = 2
CONSTRAINT Explored
SYMMETRY StoreSymmetry
INVARIANTS
  JournalFollowsGeneration
  AppliedExactlyWhenSettled
  OneSettlementPerGeneration
  TypeOK
  
  EvidenceBeforeBelief
  
PROPERTIES
  
  SettlementIsFinal
  AcceptedItemsStay
CHECK_DEADLOCK FALSE
