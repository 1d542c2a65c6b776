SPECIFICATION EditSpec
CONSTANTS
  Feeds = {f1}
  Refreshers = {r1, r2}
  Editors = {e1}
  BackoffBase = 1
  BackoffCap = 3
  MaxShift = 2
  NoFeed = NoFeed
  NoTime = NoTime
  MaxCycles = 1
  MaxTime = 1
  MaxVersion = 0
  MaxCrashes = 0
  MaxEdits = 2
PROPERTIES
  GenerationNeverDecreases
