SPECIFICATION FairSpec
CONSTANTS
  c1 = c1
  c2 = c2
  w1 = w1
  w2 = w2
  s1 = s1
  s2 = s2
  NULL = NULL
  Sites <- TwoSites
  SiteOf <- MCSiteOf
  Conns <- OneConn
  Workers <- TwoWorkers
  Asks <- Anything
  MaxRequests = 2
  MaxParts = 4
  Room = 1
  Backpressure = TRUE
  Habits <- Leaving
INVARIANTS
  TypeOK
  AnswersWhole
PROPERTY Delivered
CHECK_DEADLOCK FALSE
