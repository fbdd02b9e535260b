SPECIFICATION MCSpec
CONSTANTS
  m1 = m1
  m2 = m2
  m3 = m3
  Messages <- MCMessages
  MemoryWindow = 2
  MaxMessages = 3
  MaxDeletes = 0
  MaxStops = 0
  NoFile = NoFile
INVARIANTS
  QuestionNotRepeated
CHECK_DEADLOCK FALSE
