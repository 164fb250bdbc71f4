SPECIFICATION TableSpec
CONSTANTS
  a = a
  b = b
  x = x
  y = y
  NULL = NULL
  EMPTY = EMPTY
  Callers <- MCCallers
  Inserters <- One
  Updaters <- One
  Getters <- MCCallers
  Objects <- TwoObjects
  MaxCrashes = 1
  cont_sz = 2
INVARIANTS
  ChainIsList
  NoSecondRow
CHECK_DEADLOCK FALSE
