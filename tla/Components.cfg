SPECIFICATION ComponentsSpec
CONSTANTS
  Documents <- AllDocuments
  Feeds = {f1}
  Refreshers = {r1, r2}
  Editors = {e1}
  MaxEdits = 2
  BackoffBase = 1
  BackoffCap = 3
  MaxShift = 2
  NoFeed = NoFeed
  NoTime = NoTime
  MaxCycles = 1
  MaxTime = 1
  MaxVersion = 0
  MaxCrashes = 0
  Urls = {"feed", "moved", "junk", "relative", "port"}
  Form <- AllForms
  ConnectTimeout = 1
  ReadTimeout = 1
  TotalTimeout = 4
  MaxBytes = 3
  MaxRedirects = 2
  ResolveTime = 2
  MaxAddresses = 2
  MaxReads = 2
  ChunkSizes = {0, 1, 2}
  Importers = {1, 2}
  FeedUrls = {1, 2}
  Names = {1, 2, 3}
  KeyOf <- CrossedKeys
  SlugOf <- SharedSlug
  Files <- AllFiles
  Posts <- FirstSlugTaken
  Attempts = {n1, n2, n3}
  Messages = {m1, m2}
  NoAttempt = NoAttempt
  Links = {1, 2}
  Deadline <- OneThenTwo
  Uses = {1, 2, 3}
  Lifetime = 2
  LinkHours = 3
  Articles = {1, 2, 3}
  UrlOf <- TwoCopies
  TitleOf <- OwnTitles
  LongTitles = {}
  PoolSize = 3
  Limit = 2
  CacheSize = 1
  MaxWrites = 3
  Size = 3
  MaxSubmits = 2
  MissedAfter = 1
  CriticalAfter = 2
  ContainmentAfter = 3
  ReminderInterval = 2
  MonitorHours = 4
  MaxDrillFaults = 2
  MaxBackups = 3
  DayLength = 1
  WeekLength = 2
  MonthLength = 3
  KeepAll = 0
  DailyFor = 1
  WeeklyFor = 3
  MonthlyFor = 5
  SafeAge = 1
  Horizon = 5
  MaxFaults = 0
  MaxRotten = 1
  BackupHours = {0, 12}
  PassHour = 1
  RetainedPointsMin = 56
  RetainedPointsMax = 60
  SnapshotPinDays = 14
  MaxDay = 760
INVARIANTS
  PlanNeverClashes
  Idempotent
  StatusCoherentUnderEdits
  FetchBounded
  DeadlockOnlyAtOdds
  SerialOutcome
  StoredOnce
  SpentOnce
  DismissedNeverShown
  KeyStandsForCorpus
  KeysActOnHighlighted
  PageAgrees
  AdministratorsKnow
  DrillCleansUp
  TierPointsKept
  PlanIsEnough
PROPERTIES
  ScanIsOrderFree
  IdentityKept
  NewestSurvives
CHECK_DEADLOCK FALSE
