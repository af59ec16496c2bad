SPECIFICATION FairSpec
CONSTANTS
  MaxObjects = 2
  MaxFrames = 3
INVARIANT
  PictureSound
PROPERTIES
  Delivered
  DeadPictureCleared
  Reattaches
