SPECIFICATION Spec
CONSTANTS
  Worlds <- MCWorlds
  StartLimit = 2
  StartWindow = 2
  DeadConfirm = 1
  AlertAfter = 1
  Retry = 1
  Repeat = 1
  RepeatMax = 1
  BacklogLimit = 1
  Bounds <- MCBounds
INVARIANTS StateValid StartsBounded
PROPERTIES NothingDropped AlertsReach
