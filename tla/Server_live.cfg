SPECIFICATION FairSpec
CONSTANTS
  c1 = c1
  c2 = c2
  w1 = w1
  w2 = w2
  s1 = s1
  s2 = s2
  NULL = NULL
  Sites <- TwoSites
  SiteOf <- MCSiteOf
  Conns <- TwoConns
  Workers <- OneWorker
  Asks <- Downloads
  MaxRequests = 2
  MaxParts = 4
  Room = 2
  Backpressure = FALSE
  Habits <- Closing
INVARIANT
  WireInOrder
PROPERTIES
  Served
  Reclaimed
  Stops
CHECK_DEADLOCK FALSE
