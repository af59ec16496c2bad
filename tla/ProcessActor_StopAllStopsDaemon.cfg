SPECIFICATION Spec
CONSTANTS
  Side = {red, blue}
  None = None
  Commands <- BusyCommands
  FifoAttempts = 2
  MaxQueue = 1
PROPERTY StopAllStopsDaemon
CHECK_DEADLOCK FALSE
