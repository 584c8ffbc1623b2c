\* Three requests in three ticks, and a worker whose clock is one tick ahead.
CONSTANTS
  Ttl = 3
  Limit = 3
  Block = 3
  Skew = 1
  MaxAsked = 12
  NoRow = NoRow
SPECIFICATION RateSpec
INVARIANTS
  BurstIsBounded
  BlockIsKept
PROPERTY RefusedMeansExceeded
