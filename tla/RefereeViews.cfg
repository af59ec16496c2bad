SPECIFICATION ViewsSpec
CONSTANTS
  MaxMatches = 1
  MaxPending = 2
  Lossy = FALSE
  Mark = {hero, sentry, aerial}
  Shown = {hero, sentry}
  MaxRemain = 1
  MaxSite = 1
  MaxLog = 2
INVARIANTS
  ViewsTypeOK
  WatchersTrue
  MatchStartsAtZero
  NeverWithdrawn
PROPERTY ChanceRequested
CHECK_DEADLOCK FALSE
