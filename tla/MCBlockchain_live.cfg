SPECIFICATION FairSpec
CONSTANTS
  Block <- MCShortBlock
  Genesis = "g"
  Parent <- MCShortParent
  Height <- MCShortHeight
  NoBlock = "none"
  NoBlockLimit = 1
  P2pLimit = 1
  QueueLimit = 1
  Faults = {}
  MaxImmediates = 2
  MaxFetches = 1
  MaxSegment = 1
  MaxReceived = 1
  MaxHorizon = 3
PROPERTIES SyncEnds NewBlockEnds StopReturns IdleWakesUp
CHECK_DEADLOCK FALSE
