SPECIFICATION Spec
CONSTANTS
  anna = anna
  bert = bert
  None = None
  Tx <- PoolTransactions
  Unfit <- UnfitTransactions
  Sender <- Senders
  Call = {1, 2}
  MaxTransactionsInPool = 1
  MaxTransactionsPerSender = 2
  MaxTransactionAge = 2
  Racing = FALSE
  MaxPoolHeight = 2
  MaxReverts = 0
  MaxPoolRestarts = 0
  MaxReadds = 0
  SlotTicks = 4
  MinimumTicks = 1
  RetryTicks = 1
  Validators = 2
  Ours <- TurnsOfRounds
  PeerSet = {"p1", "p2", "p3"}
  MinimumReach = 2
  MaxTime = 11
  MaxHeight = 6
  MaxRestarts = 1
  Nodes = {1, 2}
  Batches <- OneBatch
  Misread = {"x"}
  Broken = {}
  Private = {"u"}
  BuffersArrive = TRUE
  MaxPeers = 1
  MaxCalls = 3
  MaxForged = 0
  MaxDisposed = 0
INVARIANTS ServicesTypeOK  ForgesSafely   SubmittedOnce
PROPERTIES OperatedSafely
CHECK_DEADLOCK FALSE
