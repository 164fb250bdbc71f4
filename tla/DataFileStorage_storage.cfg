SPECIFICATION FairSpec
CONSTANTS
  a = a
  b = b
  x = x
  y = y
  NULL = NULL
  Callers <- MCCallers
  Inserters <- One
  Updaters <- One
  Objects <- TwoObjects
  MaxCrashes = 1
INVARIANTS
  Numbered
  LoadNeverWrong
  NoDangling
PROPERTY Stored
CHECK_DEADLOCK FALSE
