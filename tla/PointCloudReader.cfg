SPECIFICATION FairSpec
CONSTANTS
  MaxObjects = 2
  MaxFrames = 2
INVARIANT
  CloudSound
PROPERTIES
  StaticCloudShown
  UnlinkedCleared
CHECK_DEADLOCK FALSE
