SPECIFICATION FairSpec
CONSTANTS
  Feeds = {f1}
  Refreshers = {r1, r2}
  BackoffBase = 1
  BackoffCap = 3
  MaxShift = 2
  NoFeed = NoFeed
  NoTime = NoTime
  MaxCycles = 2
  MaxTime = 1
  MaxVersion = 1
  MaxCrashes = 1
INVARIANTS
  OneOwner
PROPERTIES
  ArticlesNeverRegress
  ImplementsStatus
  CyclesEnd
  NewestOutcomeShown
