SPECIFICATION FairStoreSpec
CONSTANTS
  MaxBackups = 3
  DayLength = 1
  WeekLength = 2
  MonthLength = 3
  KeepAll = 0
  DailyFor = 1
  WeeklyFor = 1
  MonthlyFor = 1
  SafeAge = 1
  Horizon = 2
  MaxFaults = 1
  MaxRotten = 1
INVARIANTS
  PairsNested
PROPERTIES
  SequenceGrows
  LeftoversSwept
