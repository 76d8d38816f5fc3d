SPECIFICATION Spec
CONSTANTS
  Block <- MCShortBlock
  Genesis = "g"
  Parent <- MCShortParent
  Height <- MCShortHeight
  NoBlock = "none"
  NoBlockLimit = 1
  P2pLimit = 1
  QueueLimit = 1
  Faults = {"init", "nopeers", "unhealthy", "unchained", "interrupt", "forged", "fork"}
  MaxImmediates = 2
  MaxFetches = 1
  MaxSegment = 1
  MaxReceived = 1
  MaxHorizon = 2
INVARIANTS TypeOK NoJobStranded NewBlockServed WakeUpArmed SyncDriven
CHECK_DEADLOCK FALSE
