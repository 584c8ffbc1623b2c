\* One asset, two consumers of its queue.
CONSTANTS
  Assets = {a1}
  Consumers = {c1, c2}
  NoResult = NoResult
  UrlLife = 2
  PurgeDelay = 3
  MaxDeliveries = 1
  MaxFaults = 1
SPECIFICATION FairSpec
INVARIANT ObjectsMatchRows
PROPERTIES
  DecidedOnce
  AssetsSettle
CHECK_DEADLOCK FALSE
