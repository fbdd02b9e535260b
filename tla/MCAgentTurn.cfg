SPECIFICATION TurnSpec
CONSTANTS
  Signatures = {"one", "two", "three"}
  CallsOf <- MCCallsOf
  Window = 1
  BreakAt = 3
  MaxIterations = 6
  MaxHistory = 5
  MaxPast = 2
INVARIANTS
  TranscriptWellFormed
  ToolsNotRepeated
CHECK_DEADLOCK FALSE
