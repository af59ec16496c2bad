SPECIFICATION Spec
CONSTANTS
  BroadcastPeriod = 20
  MinimapPeriod = 4
  DecisionPeriod = 20
  FreshLimit = 4
  MaxWait = 8
  MaxQueue = 4
INVARIANTS BacklogBounded OneTeam
PROPERTY NoExpiredMinimap
