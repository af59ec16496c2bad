SPECIFICATION FairSpec
CONSTANTS
  p1 = p1
  p2 = p2
  Paths = {p1, p2}
  NoPath = noPath
  Capacity = 3
  MaxStarts = 2
  MaxRewrites = 1
  Files <- MCFiles
  OtherValues <- MCOtherValues
INVARIANTS LoadsApart StatusIsTrue ColoursMatchPoints
PROPERTIES ImplementsJob LoadSettles
