SPECIFICATION Spec
CONSTANTS
  g = g
  f = f
  c = c
  Root = Root
  Outside = Outside
  Gone = Gone
  None = None
  Items <- MCItems
  Folders <- MCFolders
  Homes <- MCHomes
  PageSize = 2
  BacklogPages = 1
  MaxEvents = 3
CONSTRAINT FewEvents
CHECK_DEADLOCK FALSE
INVARIANT
  NothingIsLost
