\* Two workers and batches of two; the two failing events would fill a batch
\* for ever if they kept their place.  One failed call or crash.
CONSTANTS
  Events = {e1, e2, e3}
  Poison = {e2, e3}
  Workers = {w1, w2}
  Nobody = Nobody
  Ghost = Ghost
  BatchSize = 2
  ClaimLease = 1
  EnqueueDelay = 0
  MaxDelay = 1
  ReportAt = 1
  Steps = 1
  MaxAttempts = 2
  MaxOverdue = 0
  MaxFaults = 1
SPECIFICATION FairSpec
INVARIANTS
  PublishedIsPurged
  ReportedOnce
PROPERTIES
  AttemptsCountUp
  HealthyPublished
CHECK_DEADLOCK FALSE
