SPECIFICATION FairSpec
CONSTANTS
  Lanes <- MCLanes
  MaxCommands = 4
  MaxTotal = 2
  LaneLimits <- MCLaneLimits
  Drainers <- MCDrainers
INVARIANTS
  TypeOK
  SlotAccounting
  NoStrandedLane
  PermitAccounting
PROPERTIES
  KeepsPromise
  EveryCommandEnds
