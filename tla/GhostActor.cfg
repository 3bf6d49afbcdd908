SPECIFICATION Spec
CONSTANTS
  Conn = {c1}
  Room = {r1}
  NoRoom = NoRoom
  StableId = {}
  MaxActors = 2
  MaxPending = 5
  DestroyOnEmpty = {}
  Presence = FALSE
  ConnLimited = TRUE
  AsyncLimiter = FALSE
  MaxFrames = 0
  MaxBroadcasts = 0
  MaxCreates = 1
  Outside = Outside
  Left = Left
INVARIANT SocketsCoverConnections
CHECK_DEADLOCK FALSE
