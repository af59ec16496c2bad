SPECIFICATION FairSpec
CONSTANTS
  Side = {red}
  None = None
  Commands <- BusyCommands
  FifoAttempts = 2
  MaxQueue = 1
PROPERTIES
  PendingSettles
  CloseCompletes
  ExitsNoticed
CHECK_DEADLOCK FALSE
