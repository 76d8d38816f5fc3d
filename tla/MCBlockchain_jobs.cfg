SPECIFICATION Spec
CONSTANTS
  Block <- MCBlock
  Genesis = "g"
  Parent <- MCParent
  Height <- MCHeight
  NoBlock = "none"
  NoBlockLimit = 1
  P2pLimit = 1
  QueueLimit = 1
  Faults = {"reject", "apply", "pool", "corrupt", "save", "restore"}
  MaxImmediates = 2
  MaxFetches = 1
  MaxSegment = 2
  MaxReceived = 0
  MaxHorizon = 2
INVARIANTS AcceptedAboveStored
PROPERTIES OneBlockAtATime
CHECK_DEADLOCK FALSE
