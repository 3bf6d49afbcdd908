SPECIFICATION Spec
CONSTANTS
  Conn = {c1, c2, c3}
  Room = {r1}
  NoRoom = NoRoom
  StableId = {s1}
  MaxActors = 2
  MaxPending = 1
  DestroyOnEmpty = {r1}
  Presence = FALSE
  ConnLimited = FALSE
  AsyncLimiter = FALSE
  MaxFrames = 0
  MaxBroadcasts = 2
  MaxCreates = 2
  Outside = Outside
  Left = Left
SYMMETRY ConnSymmetry
INVARIANTS
  CapacityRespected
  EmptiedRoomScheduled
PROPERTIES
  ImplementsMembership
CHECK_DEADLOCK FALSE
