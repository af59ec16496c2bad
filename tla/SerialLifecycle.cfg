SPECIFICATION FairSpec
CONSTANTS
  MaxOpens = 2
  MaxQueue = 3
INVARIANTS
  TypeOK
  WorkersOwned
  SlotLive
  StopsWithinOneFrame
PROPERTIES
  CloseReturns
  DeadWorkerNoticed
CHECK_DEADLOCK FALSE
