SPECIFICATION MCSpec
CONSTANTS
  Callers <- MCCallers
  MaxSessions = 2
  Tools = {"main", "other"}
  NoTab = NoTab
  Steps = 1
  MaxFaults = 1
INVARIANTS
  TypeOK
  AnswersMatch
PROPERTIES
  ConnectsOnlyWhenDown
  EndsUnlessWedged
CHECK_DEADLOCK FALSE
