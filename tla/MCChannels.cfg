SPECIFICATION MCSpec
CONSTANTS
  Calls = {"c1", "c2"}
  Messages = {"first", "second"}
  MaxParts = 2
  None = None
INVARIANTS
  NoOrphan
  InOrder
PROPERTIES
  EachIsMirrored
CHECK_DEADLOCK FALSE
