SPECIFICATION SupervisedSpec
CONSTANTS
  None = None
  f1 = f1
  f2 = f2
  c1 = c1
  c2 = c2
  Paths = {p, q}
  FileMeta = {}
  FolderMeta = {d}
  Contents = {c1}
  BytesOf <- NoFiles
  RemoteIds = {r1, r2, r3}
  MaxGeneration = 3
  MaxCursor = 3
  MaxAttempts = 1
  MaxForeign = 0
  MaxInterruptions = 0
SYMMETRY IdSymmetry
INVARIANTS
  NoDuplicateRemote
CHECK_DEADLOCK FALSE
