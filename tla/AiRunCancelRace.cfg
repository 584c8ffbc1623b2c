CONSTANTS
  Runs = {r1}
  m1 = m1
  Messages <- MCMessages
  MessageOf <- MCMessageOf
  NoRun = NoRun
  Lease = 2
  HeartbeatLimit = 3
  MaxChunks = 2
  MaxFaults = 0
SPECIFICATION Spec
INVARIANT CancelFailedMeansFailed
