SPECIFICATION FairSpec
CONSTANTS
  None = None
  f1 = f1
  f2 = f2
  c1 = c1
  c2 = c2
  Paths = {p}
  FileMeta = {f1}
  FolderMeta = {}
  Contents = {c1}
  BytesOf <- OneVersion
  RemoteIds = {r1}
  MaxGeneration = 2
  MaxCursor = 1
  MaxAttempts = 2
  MaxForeign = 0
  MaxInterruptions = 1
PROPERTIES
  ConfirmationSurvivesRestart
CHECK_DEADLOCK FALSE
