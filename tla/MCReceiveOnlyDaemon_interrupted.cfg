SPECIFICATION DaemonFairSpec
CONSTANTS
  f = f  P = P  b1 = b1  b2 = b2  u = u
  None = None  Dir = Dir
  Items = {f}
  Folders = {}
  Paths = {P}
  Above <- DaemonAbove
  Homes <- DaemonHomes
  Blobs = {b1, b2, u}
  SizeOf <- DaemonSizes
  ProviderBlobs = {b1, b2}
  UserBlobs = {u}
  Nodes = {1, 2, 3, 4, 5, 6}
  BatchLimit = 2
  MaxEdits = 0  MaxChanges = 1  MaxFailures = 0  MaxCrashes = 1
  MaxRounds = 3  MaxSwitches = 0
PROPERTIES
  EventuallyInStep
