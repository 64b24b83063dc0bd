SPECIFICATION Spec
CONSTANTS
  f = f  g = g  d = d  e = e  P = P  Q = Q  R = R  S = S  b1 = b1  b2 = b2  u = u
  None = None  Dir = Dir
  Items = {d, e, f, g}
  Folders = {d, e}
  Paths = {P, Q, R, S}
  Above <- TreeAbove
  Homes <- TreeHomes
  Blobs = {b1, b2, u}
  SizeOf <- TwoSizes
  ProviderBlobs = {b1, b2}
  UserBlobs = {u}
  Nodes = {1, 2, 3, 4, 5, 6}
  BatchLimit = 2
  MaxEdits = 1  MaxChanges = 2  MaxFailures = 1  MaxCrashes = 1
CONSTRAINT Budget
INVARIANTS
  ConvergenceTypeOK
  BatchesAreAtomic
  AttestedBytesExist
  CurrentReceiptsAgree
  OneOwnerPerPath
PROPERTIES
  NoWriteUnderBaseline
  UserWorkSurvives
  ConvergedMeansEqual
