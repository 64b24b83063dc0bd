SPECIFICATION FairSpec
CONSTANTS
  None = None
  f1 = f1
  f2 = f2
  c1 = c1
  c2 = c2
  Paths = {p}
  FileMeta = {f1}
  FolderMeta = {}
  Contents = {c1}
  BytesOf <- OneVersion
  RemoteIds = {r1}
  MaxGeneration = 2
  MaxCursor = 2
  MaxAttempts = 3
  MaxForeign = 1
  MaxInterruptions = 2
INVARIANTS
  AwaitingStaysConfirmable
PROPERTIES
  SubmissionIsResolved
  ConfirmationIsResolved
  CreatedIsSettled
CHECK_DEADLOCK FALSE
