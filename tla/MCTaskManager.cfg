SPECIFICATION Spec
CONSTANTS
  t1 = t1
  t2 = t2
  t3 = t3
  TaskIds <- MCTaskIds
  NoTask = NoTask
SYMMETRY MCSymmetry
INVARIANTS
  TypeOK
  ParentFirst
  FileIsCurrent
  DoingIsBegun
PROPERTIES
  EndedStaysEnded
