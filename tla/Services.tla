------------------------------ MODULE Services ------------------------------
(* Services of a node that work beside its chain and share no variable: the    *)
(* pool of transactions (TransactionPool), the forger of its blocks (Forger)   *)
(* and the calls by which transactions are submitted and passed on             *)
(* (Submission).                                                               *)
CONSTANTS
  Tx, Unfit, Sender, Call, MaxTransactionsInPool, MaxTransactionsPerSender,           \* of TransactionPool
  MaxTransactionAge, Racing, MaxPoolHeight, MaxReverts, MaxPoolRestarts, MaxReadds,
  SlotTicks, MinimumTicks, RetryTicks, Validators, Ours, PeerSet, MinimumReach, None, \* of Forger
  MaxTime, MaxHeight, MaxRestarts,
  Nodes, Batches, Misread, Broken, Private, BuffersArrive, MaxPeers,                  \* of Submission
  MaxCalls, MaxForged, MaxDisposed

VARIABLES
  storage, mempool, calls, blocks, accepted, cleaning, failed, readding, node, count,
  now, tip, pc, wake, round, network, incoming, queue, coldStart, restarts, forged, waited, odd,
  submissionStorage, submissionCalls, answers, posts, disposed, submissionHistory

Pool == INSTANCE TransactionPool WITH MaxHeight <- MaxPoolHeight, MaxRestarts <- MaxPoolRestarts

Forging == INSTANCE Forger

Submitting == INSTANCE Submission WITH
  storage <- submissionStorage, calls <- submissionCalls, history <- submissionHistory

ServicesAssumption ==
  Pool!PoolAssumption /\ Forging!ForgerAssumption /\ Submitting!SubmissionAssumption

-----------------------------------------------------------------------------
\* Whatever is added, forged, reverted, cleaned up and read again beside one
\* another: when nothing is on its way the storage has the transactions of the
\* mempool and no others; always, each sender's are of consecutive nonces, one of
\* a kind and begin no later than the chain expects, its mempool is given up when
\* it is empty, and the pool keeps its limit (Service of core-transaction-pool,
\* SenderMempool, SenderState).
PoolConsistent ==
  /\ Pool!StorageIsMempool
  /\ Pool!NoncesAreConsecutive
  /\ Pool!OneOfAKind
  /\ Pool!PoolLimit
  /\ Pool!SendersGivenUp
  /\ Pool!NextOrStale

\* Whatever the network answers and however late its blocks arrive, the forger
\* makes at most one block for a slot, and the node refuses its own block only
\* if the forger was delayed after it took the round (ForgerService.checkSlot,
\* NetworkStateAction, BlockchainService.handleIncomingBlock).
ForgesSafely == Forging!OneBlockPerSlot /\ Forging!RefusedOnlyIfDelayed

\* Every entry of a batch a call came to is answered as what became of it, what
\* was accepted is passed on also when a later entry ends the call, and only by
\* the call by which it entered the pool, so that it does not go round
\* (Processor.process, TransactionBroadcaster.broadcastTransactions).
SubmittedOnce ==
  /\ Submitting!AnswersAddUp
  /\ Submitting!AcceptedIsPassedOn
  /\ Submitting!PassedOnOnceEntered
=============================================================================
