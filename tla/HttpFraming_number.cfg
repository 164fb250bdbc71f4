SPECIFICATION Spec
CONSTANTS
  Requests <- Long
  Following <- Long
  MaxFragments <- Two
  Leftover = "NUL"
  MAX_CONTENT_LEN = 120
  IntSize = 256
  MaxRequests = 0
INVARIANTS BadClient
CHECK_DEADLOCK FALSE
