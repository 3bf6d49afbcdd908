SPECIFICATION FairSpec
CONSTANTS
  Conn = {c1, c2}
  Room = {r1}
  NoRoom = NoRoom
  StableId = {}
  MaxActors = 2
  MaxPending = 5
  DestroyOnEmpty = {r1}
  Presence = TRUE
  ConnLimited = TRUE
  AsyncLimiter = TRUE
  MaxFrames = 1
  MaxBroadcasts = 1
  MaxCreates = 2
  Outside = Outside
  Left = Left
INVARIANTS
  TypeOK
  MembershipAgrees
  NothingLeaks
  NoMessageLost
PROPERTIES
  NoFrameAfterClose
  ClosingLeaves
CHECK_DEADLOCK FALSE
