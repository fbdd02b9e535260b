SPECIFICATION FairSpec
CONSTANTS
  Lanes <- MCLanes
  MaxCommands = 4
  MaxTotal = 2
INVARIANTS
  ActiveAtStopAreDone
  OneLateMessage
PROPERTIES
  ShutdownEnds
CHECK_DEADLOCK FALSE
