SPECIFICATION FairSpec
CONSTANTS
  Jobs = {"a", "b"}
  Schedules <- MCSchedules
  MaxClock = 4
  MaxStops = 2
  MaxFails = 1
INVARIANTS
  JobsKept
PROPERTIES
  CallsAsScheduled
  DueRuns
CHECK_DEADLOCK FALSE
