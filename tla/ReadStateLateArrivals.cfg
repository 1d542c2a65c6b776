SPECIFICATION Spec
CONSTANTS
  a1 = a1
  a2 = a2
  f1 = f1
  f2 = f2
  m1 = m1
  m2 = m2
  Articles <- TwoArticles
  Feeds <- TwoFeeds
  FeedOf <- OneEach
  Periods <- DayAndWeek
  Marks <- TwoMarks
  DayLength = 1
  PageLimit = 1
  MaxTime = 1
  MaxRequests = 1
  NoTime = NoTime
CHECK_DEADLOCK FALSE
INVARIANTS
  LaterArrivalsUnread
