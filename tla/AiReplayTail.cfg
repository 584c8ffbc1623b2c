CONSTANTS
  Runs = {r1}
  m1 = m1
  Messages <- MCMessages
  MessageOf <- MCMessageOf
  NoRun = NoRun
  Lease = 1
  HeartbeatLimit = 1
  MaxChunks = 2
  MaxFaults = 0
  Replays = {p1}
  PageSize = 2
SPECIFICATION ReplaySpec
INVARIANT ReplayEndsWithVerdict
