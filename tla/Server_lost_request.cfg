SPECIFICATION FairSpec
CONSTANTS
  c1 = c1
  c2 = c2
  w1 = w1
  w2 = w2
  s1 = s1
  s2 = s2
  NULL = NULL
  Sites <- TwoSites
  SiteOf <- MCSiteOf
  Conns <- OneConn
  Workers <- TwoWorkers
  Asks <- Pages
  MaxRequests = 2
  MaxParts = 4
  Room = 1
  Backpressure = TRUE
  Habits <- Plain
PROPERTIES
  Served
CHECK_DEADLOCK FALSE
