SPECIFICATION Spec
CONSTANTS
  a1 = a1
  a2 = a2
  f1 = f1
  f2 = f2
  Articles <- TwoArticles
  Feeds <- TwoFeeds
  FeedOf <- OneEach
  Periods <- DayAndWeek
  m1 = m1
  m2 = m2
  Marks <- TwoMarks
  DayLength = 1
  PageLimit = 1
  MaxTime = 1
  MaxRequests = 3
  NoTime = NoTime
CHECK_DEADLOCK FALSE
SYMMETRY MarkSymmetry
INVARIANTS
  CommandsHold
  NewArrivalsUnread
  PageHonest
