\* Three rows, two instants to a millisecond, pages of up to two.
CONSTANTS
  Ids = {1, 2, 3}
  PerMs = 2
  MaxFirst = 2
  Lag = 2
  MaxTime = 3
  None = None
SPECIFICATION FairWalkSpec
INVARIANTS
  WalkIsOrdered
  WalkIsComplete
PROPERTY WalkEnds
