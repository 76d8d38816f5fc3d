SPECIFICATION Spec
CONSTANTS
  Block <- MCBlock
  Genesis = "g"
  Parent <- MCParent
  Height <- MCHeight
  NoBlock = "none"
  NoBlockLimit = 1
  P2pLimit = 1
  QueueLimit = 1
  Faults = {}
  MaxImmediates = 2
  MaxFetches = 1
  MaxSegment = 1
  MaxReceived = 2
  MaxHorizon = 2
INVARIANT LastDownloadedNotBehind
CHECK_DEADLOCK FALSE
