SPECIFICATION Spec
CONSTANTS
  Side = {red, blue}
  None = None
  Commands <- AllCommands
  FifoAttempts = 2
  MaxQueue = 1
INVARIANTS
  TypeOK
  SnapshotTracksRunner
  PendingExclusive
  PrefixStarted
  PhaseTrue
  ButtonsMatchActor
PROPERTIES
  StartAllAgrees
  RetryKeepsStarted
  ImplementsStartAllOrder
CHECK_DEADLOCK FALSE
