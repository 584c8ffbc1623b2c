\* Two events; the first is claimed again after its backoff, and three things
\* may fail.  The fallback is shorter than the enqueue delay, as in the code.
CONSTANTS
  Events = {e1, e2}
  EnqueueDelay = 4
  Backoff = 1
  ClaimLease = 3
  Fallback = 2
  Degraded = 1
  MaxFaults = 3
SPECIFICATION FairSpec
INVARIANTS
  NeverOversleeps
  ListenerInvariant
PROPERTIES
  EventuallyProcessed
  ShutdownCompletes
\* A closed worker with nothing left to happen has stopped.
CHECK_DEADLOCK FALSE
