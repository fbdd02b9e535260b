SPECIFICATION MCSpec
CONSTANTS
  m1 = m1
  m2 = m2
  m3 = m3
  Messages <- MCMessages
  MemoryWindow = 2
  MaxMessages = 3
  MaxDeletes = 1
  MaxStops = 1
  NoFile = NoFile
INVARIANTS
  CacheIsDisk
  NothingSkipped
  ContextComplete
PROPERTIES
  RecordGrows
CHECK_DEADLOCK FALSE
