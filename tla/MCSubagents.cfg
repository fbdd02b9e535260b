SPECIFICATION MCSpec
CONSTANTS
  Turns = {t1}
  Subagents = {s1, s2}
  Chats = {c1, c2}
  MaxStops = 2
  NoTask = NoTask
INVARIANTS
  AnnouncementFollowsReply
PROPERTIES
  SubagentEnds
  DoneIsAnswered
CHECK_DEADLOCK FALSE
