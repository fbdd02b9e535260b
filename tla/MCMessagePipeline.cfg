SPECIFICATION MCSpec
CONSTANTS
  m1 = m1
  m2 = m2
  Messages <- MCMessages
  Chats <- MCChats
  MaxTotal = 1
  MaxCrashes = 2
  BrokenMedia <- MCBrokenMedia
  NoTask = NoTask
INVARIANTS
  Attended
  OnRecord
  AnswerFollowsQuestion
PROPERTIES
  EachEnds
CHECK_DEADLOCK FALSE
