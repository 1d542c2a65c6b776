SPECIFICATION YearsSpec
CONSTANTS
  BackupHours = {0, 12}
  PassHour = 1
  RetainedPointsMin = 56
  RetainedPointsMax = 60
  SnapshotPinDays = 14
  MaxDay = 800
INVARIANTS
  RetainedRange
CHECK_DEADLOCK FALSE
