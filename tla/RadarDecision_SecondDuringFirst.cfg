SPECIFICATION Spec
CONSTANTS
  MaxMatches = 1
  MaxPending = 2
  Lossy = TRUE
PROPERTY SecondDuringFirst
CHECK_DEADLOCK FALSE
