SPECIFICATION ClockSpec
CONSTANTS
  Workers = {w1, w2}
  NoWorker = NoWorker
  Lease = 5
  HeartbeatEvery = 2
  MaxHeartbeatAge = 3
  MaxSuccessAge = 3
  MaxFeedTime = 2
  MaxFeeds = 3
  AgeCap = 5
INVARIANTS
  OneCycleAtATime
  LiveCycleNotStale
PROPERTIES
  ImplementsLease
  CrashedRunReclaimed
  SilenceIsReported
