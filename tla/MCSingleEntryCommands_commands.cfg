SPECIFICATION CommandSpec
CONSTANTS
  f = f  g = g  d = d  P = P  Q = Q  R = R  b1 = b1  b2 = b2  u = u
  None = None  Dir = Dir
  Items = {d, f, g}
  Folders = {d}
  Paths = {P, Q, R}
  Above <- RootAbove
  Homes <- RootHomes
  Blobs = {b1, b2, u}
  SizeOf <- OneSize
  ProviderBlobs = {b1, b2}
  UserBlobs = {u}
  Nodes = {1, 2, 3, 4, 5, 6}
  BatchLimit = 2
  MaxEdits = 1  MaxChanges = 2  MaxFailures = 1  MaxCrashes = 1
CONSTRAINT Budget
INVARIANTS
  OneCurrentOwner
PROPERTIES
  FailsClosed
