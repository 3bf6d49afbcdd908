SPECIFICATION FramesSpec
CONSTANTS
  Actor = {peer, other}
  Peer = peer
  Capacity = 2
  IdleEvict = 2
  MaxBuckets = 1
  MaxTime = 2
  MaxSteps = 1
  SeqNumbers = 3
  Timeouts = TRUE
  MaxBuffered = 2
  MaxFrames <- MCMaxFrames
  MaxSessions = 2
  Null = Null
  Malformed = Malformed
  Foreign = Foreign
  Word = 512
  MaxReason = 5
  MaxName = 1
  MaxEntries = 1
  MaxRoomConnections = 100
INVARIANTS
  Transparent
  AsIdeal
  SameMeaning
CHECK_DEADLOCK FALSE
