SPECIFICATION Spec
CONSTANTS
  c1 = c1
  c2 = c2
  w1 = w1
  w2 = w2
  s1 = s1
  s2 = s2
  NULL = NULL
  Sites <- TwoSites
  SiteOf <- MCSiteOf
  Conns <- TwoConns
  Workers <- TwoWorkers
  Asks <- Files
  MaxRequests = 2
  MaxParts = 1
  Room = 2
  Backpressure = FALSE
  Habits <- Hasty
SYMMETRY Symmetry
INVARIANTS
  NoStaleTouch
  OneOwner
  NotForgotten
  SiteNotified
PROPERTY UsesPool
CHECK_DEADLOCK FALSE
