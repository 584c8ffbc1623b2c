\* One run, its faults and deadlines, and one replay of it.
CONSTANTS
  Runs = {r1}
  m1 = m1
  Messages <- MCMessages
  MessageOf <- MCMessageOf
  NoRun = NoRun
  Lease = 1
  HeartbeatLimit = 1
  MaxChunks = 1
  MaxFaults = 1
  Replays = {p1}
  PageSize = 2
SPECIFICATION ReplayFairSpec
INVARIANTS
  ReplayTypeOK
  VerdictMatchesTables
  EndedMeansDecided
  ClosedHasVerdict
  CancelReplyHonoured
  EndedReplayIsRight
PROPERTIES
  ImplementsLedger
  RunsComplete
  ReplayEnds
