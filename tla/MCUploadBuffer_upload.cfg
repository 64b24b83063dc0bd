SPECIFICATION Spec
CONSTANTS
  None = None
  Total = 5
  Target = 2
  Alignment = 2
  MaxEdits = 1
  MaxStalled = 1
  MaxAttempts = 2
  MaxSends = 6
PROPERTIES
  KeepsContent
CHECK_DEADLOCK FALSE
