SPECIFICATION LedgerSpec
CONSTANTS
  gena = gena
  anna = anna
  bert = bert
  carl = carl
  dora = dora
  Block <- StoredBlocks
  Genesis = "g"
  Previous <- StoredPrevious
  HeightOf <- StoredHeights
  Transactions <- StoredTransactions
  MaxLastBlocks = 3
  MaxChunk = 3
  MaxCrashes = 2
  MaxFaults = 2
  MaxLimit = 2
  MaxIds = 2
  MaxRequests = 1
  Validator = {"v1", "v2", "v3"}
  KeyOrder <- ByKey
  PerRound = 2
  Accumulated = FALSE
  MaxApplied = 6
  RoundChunk = 3
  RoundFaults = 2
  RoundCrashes = 1
INVARIANTS LedgerTypeOK DatabaseConsistent AnswersTrue   
PROPERTIES CopiesApart RestartKeepsStored
CHECK_DEADLOCK FALSE
