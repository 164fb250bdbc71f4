SPECIFICATION SessionSpec
CONSTANTS
  Requests <- MCRequests
  Following <- MCFollowing
  MaxFragments <- MCFragments
  Sites <- MCSites
  SHA1 <- MCSHA1
  Frames <- MCFrames
  ReplySizes <- Sizes
  Names = {"a", "b", "c"}
  Leftover = "NUL"
  MAX_CONTENT_LEN = 98
  MAX_URL = 8
  MAX_WS_PACKET = 100
  IntSize = 512
  MaxRequests = 1
  MaxFrames = 2
INVARIANTS
  CutsDoNotMatter
  BodyComplete
  FormAsSent
  PartsAsSent
  OneAnswer
  HandshakeRead
  WebSocketData
CHECK_DEADLOCK FALSE
