SPECIFICATION MCSpec
CONSTANTS
  Turns = {"first", "second"}
  Sessions = {"web:a", "web:b", "telegram:c"}
  WebSessions = {"web:a", "web:b"}
  Home = "web:a"
  MaxMessages = 2
  MaxLoads = 2
  MaxDrops = 1
INVARIANTS
  ViewIsOfSession
  NothingMissing
  LiveEnds
CHECK_DEADLOCK FALSE
CONSTRAINT MCOpened
