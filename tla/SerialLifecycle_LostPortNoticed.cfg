SPECIFICATION FairSpec
CONSTANTS
  MaxOpens = 1
  MaxQueue = 2
PROPERTY LostPortNoticed
CHECK_DEADLOCK FALSE
