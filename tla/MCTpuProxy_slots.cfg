SPECIFICATION Spec
CONSTANTS
  ann = ann
  Leaders = {ann}
  Schedule <- Turns
  Past = 1
  Upcoming = 4
  Every = 2
  FirstSlot = 9
  FreshCap = 2
  NWorkers = 2
  Bomb = 1
  MaxUnsent = 2
  MaxAge = 1
  Skew = 1
  LastSlot <- SlotBound
  LastTime <- TimeBound
  MaxCommands <- CommandBound
INVARIANTS CacheSound NoLeaderMissed
PROPERTIES LeavesForReason GoesOn
CHECK_DEADLOCK FALSE
