------------------------ MODULE BlockchainChain_proof ------------------------
(***************************************************************************)
(* What jobs, downloads, reverts and failures do to the chain: the last    *)
(* block moves one block at a time, the stored height stays below what is  *)
(* accepted and not yet stored, and the next download never starts behind. *)
(***************************************************************************)
EXTENDS Blockchain_proof

-----------------------------------------------------------------------------
(* Which steps touch the last block and the running job *)

\* A job that begins, or no job.
Fresh(w) == w = NoWork \/ \E bs \in Seq(Block) : w = NewWork(bs)

\* Only a job's own steps move the last block or its own work; any other step
\* may only start a job.
LEMMA OtherSteps ==
  ASSUME TypeInv, ServiceStep \/ ImmediateStep \/ AnswerStep
  PROVE  /\ store'.lastBlock = store.lastBlock
         /\ store'.lastStored = store.lastStored
         /\ work' = work \/ (Fresh(work') /\ ~queue.busy)
<1>1. queue \in Queue /\ store \in Store
  BY DEF TypeInv, TypeOK
<1>2. ASSUME NEW q \in Queue, SetQueue(q) PROVE work' = work \/ (Fresh(work') /\ ~queue.busy)
  BY <1>2 DEF SetQueue, Fresh, Queue
<1>3. CASE ServiceStep
  <2>1. ASSUME NEW b \in Block, HandleIncomingBlock(b) PROVE work' = work \/ (Fresh(work') /\ ~queue.busy)
    <3>1. PICK chunks \in Chunkings(<<b>>) : SetQueue(Enqueue(queue, chunks))
      BY <2>1 DEF HandleIncomingBlock
    <3>2. chunks \in Seq(Seq(Block))
      BY <<b>> \in Seq(Block), ChunkingsType
    <3> QED
      BY <1>1, <1>2, <3>1, <3>2, EnqueueType
  <2>2. Dispose => work' = work \/ (Fresh(work') /\ ~queue.busy)
    BY <1>1, <1>2, QueueOperatorTypes DEF Dispose
  <2> QED
    BY <1>3, <2>1, <2>2 DEF ServiceStep, Boot, BootFinished, Dispose, Tick,
       HandleIncomingBlock, WakeUp, ForceWakeup, CheckMissingBlocks, MissingBlocksChecked
<1>4. CASE ImmediateStep
  BY <1>1, <1>4 DEF ImmediateStep, Initialize, CheckLater, BlockchainReady,
     CheckLastDownloadedBlockSynced, DownloadBlocks, DownloadFinished,
     CheckLastBlockSynced, SyncingComplete, LogOnly, ExitApp, Exit, Store
<1>5. CASE AnswerStep
  <2>1. CASE Initialized \/ NetworkHealthChecked
    BY <1>1, <2>1 DEF Initialized, NetworkHealthChecked, Store
  <2>2. ASSUME NEW b \in Block, Downloaded(b)
        PROVE  /\ store'.lastBlock = store.lastBlock
               /\ store'.lastStored = store.lastStored
               /\ work' = work \/ (Fresh(work') /\ ~queue.busy)
    <3>1. CountNoBlock(store).lastBlock = store.lastBlock
          /\ CountNoBlock(store).lastStored = store.lastStored
      BY <1>1 DEF CountNoBlock, Store
    <3>2. ASSUME NEW bs \in Segments(b), NEW chunks \in Chunkings(bs),
                 SetQueue(Enqueue(queue, chunks)),
                 store' = [store EXCEPT !.lastDownloaded = Last(bs)]
          PROVE  /\ store'.lastBlock = store.lastBlock
                 /\ store'.lastStored = store.lastStored
                 /\ work' = work \/ (Fresh(work') /\ ~queue.busy)
      <4>1. chunks \in Seq(Seq(Block))
        BY SegmentsType, ChunkingsType
      <4> QED
        BY <1>1, <1>2, <3>2, <4>1, EnqueueType DEF Store
    <3> QED
      BY <2>2, <3>1, <3>2 DEF Downloaded, NothingDownloaded
  <2> QED
    BY <1>5, <2>1, <2>2 DEF AnswerStep
<1> QED
  BY <1>3, <1>4, <1>5

\* What the operators on the store do to the last block and the stored height.
LEMMA StoreMoves ==
  ASSUME NEW s \in Store
  PROVE  /\ \A b \in Block : SetLastBlock(s, b).lastBlock = b
                             /\ SetLastBlock(s, b).lastStored = s.lastStored
                             /\ SetLastBlock(s, b).lastDownloaded = s.lastDownloaded
         /\ ResetLastDownloaded(s).lastBlock = s.lastBlock
         /\ ResetLastDownloaded(s).lastStored = s.lastStored
         /\ ResetLastDownloaded(s).lastDownloaded = s.lastBlock
         /\ CatchUp(s).lastBlock = s.lastBlock
         /\ CatchUp(s).lastStored = s.lastStored
<1>1. /\ ResetLastDownloaded(s).lastBlock = s.lastBlock
      /\ ResetLastDownloaded(s).lastStored = s.lastStored
      /\ ResetLastDownloaded(s).lastDownloaded = s.lastBlock
  BY DEF ResetLastDownloaded, Store
<1>2. \A b \in Block : /\ SetLastBlock(s, b).lastBlock = b
                       /\ SetLastBlock(s, b).lastStored = s.lastStored
                       /\ SetLastBlock(s, b).lastDownloaded = s.lastDownloaded
  BY DEF SetLastBlock, Store
<1> QED
  BY <1>1, <1>2 DEF CatchUp

-----------------------------------------------------------------------------
(* The accepted blocks are a chain below or at the last block *)

\* A job that has accepted nothing and is not within a block.
LEMMA ChainFresh ==
  ASSUME Fresh(work')
  PROVE  AcceptedChain'
<1>1. work'.accepted = <<>> /\ work'.phase \notin {"applied", "undo"}
  BY DEF Fresh, NoWork, NewWork
<1> QED
  BY <1>1 DEF AcceptedChain

\* A step of the job that neither applies, reverts nor accepts a block.
LEMMA ChainStay ==
  ASSUME AcceptedChain, store'.lastBlock = store.lastBlock,
         work'.accepted = work.accepted,
         \/ work'.phase = work.phase
         \/ work'.phase = "end"
         \/ work.phase \in {"next", "save", "revert"} /\ work'.phase \in {"save", "revert"}
         \/ work.phase \in {"applied", "undo"} /\ work'.phase \in {"applied", "undo"}
  PROVE  AcceptedChain'
BY DEF AcceptedChain

ChainInv == TypeInv /\ AcceptedChain

\* Every step of a job keeps the chain of its accepted blocks.
LEMMA ChainJobStep ==
  ASSUME ChainInv, JobStep
  PROVE  AcceptedChain'
<1>1. /\ work \in Work /\ store \in Store /\ queue \in Queue /\ AcceptedChain
      /\ work.accepted \in Seq(Block) /\ store.lastBlock \in Block
  BY DEF ChainInv, TypeInv, TypeOK, Work, Store
<1>2. ASSUME NEW result, Break(result)
      PROVE  work'.accepted = work.accepted /\ work'.phase = "save"
  BY <1>1, <1>2 DEF Break, Work
<1>3. CASE Interrupted
  BY <1>1, <1>2, <1>3, ChainStay DEF Interrupted, Phase
<1>4. ASSUME NEW b \in Block, Refused(b) PROVE AcceptedChain'
  BY <1>1, <1>2, <1>4, StoreMoves, ChainStay DEF Refused, Processing, Phase
<1>5. ASSUME NEW b \in Block, Unchained(b) PROVE AcceptedChain'
  <2>1. store'.lastBlock = store.lastBlock
    BY <1>1, <1>5 DEF Unchained, Store
  <2>2. work'.accepted = work.accepted /\ work'.phase = "save" /\ work.phase = "next"
    BY <1>1, <1>5 DEF Unchained, Processing, Phase, Work
  <2> QED
    BY <1>1, <2>1, <2>2, ChainStay
<1>6. ASSUME NEW b \in Block, ApplyBlock(b) PROVE AcceptedChain'
  <2>1. work.phase = "next" /\ Chained(store.lastBlock, b)
    BY <1>6 DEF ApplyBlock, Processing, Phase
  <2>2. CASE Break("Rejected") /\ store' = ResetLastDownloaded(store)
    BY <1>1, <1>2, <2>1, <2>2, StoreMoves, ChainStay
  <2>3. CASE /\ store'.lastBlock = b
             /\ work'.accepted = work.accepted /\ work'.phase \in {"applied", "undo"}
    <3>1. Parent[b] = store.lastBlock /\ Chained(Parent[b], b)
      BY <2>1 DEF Chained
    <3> QED
      BY <1>1, <2>1, <2>3, <3>1 DEF AcceptedChain
  <2>4. SetLastBlock(store, b) \in Store /\ SetLastBlock(store, b).lastBlock = b
    BY <1>1, StoreTypes, StoreMoves
  <2>5. [SetLastBlock(store, b) EXCEPT !.forkedBlock = NoBlock].lastBlock = b
    BY <2>4 DEF Store
  <2>6. ResetLastDownloaded(SetLastBlock(store, b)).lastBlock = b
    BY <2>4, StoreMoves
  <2>7. \/ Break("Rejected") /\ store' = ResetLastDownloaded(store)
        \/ work' = [work EXCEPT !.phase = "applied"] /\ store'.lastBlock = b
        \/ work' = [work EXCEPT !.phase = "undo"] /\ store'.lastBlock = b
    BY <1>6, <2>4, <2>5, <2>6 DEF ApplyBlock
  <2> QED
    BY <1>1, <2>2, <2>3, <2>7 DEF Work
<1>7. CASE FinishAccept
  <2>1. work.phase = "applied"
    BY <1>7 DEF FinishAccept, Phase
  <2>2. store'.lastBlock = store.lastBlock
    BY <1>1, <1>7, StoreMoves DEF FinishAccept
  <2>3. CASE work' = [work EXCEPT !.phase = "undo"]
    BY <1>1, <2>1, <2>2, <2>3, ChainStay DEF Work
  <2>4. CASE /\ work'.accepted = Append(work.accepted, store.lastBlock)
             /\ work'.phase \in {"save", "next"}
    <3> DEFINE n == Len(work.accepted)
    <3>1. /\ n \in Nat /\ Len(work'.accepted) = n + 1
          /\ work'.accepted[n + 1] = store.lastBlock
          /\ \A i \in 1..n : work'.accepted[i] = work.accepted[i]
      BY <1>1, <2>4, AppendProperties, LenProperties
    <3>2. Chained(Parent[store.lastBlock], store.lastBlock)
      BY <1>1, <2>1 DEF AcceptedChain
    <3>3. n # 0 => Parent[store.lastBlock] = work.accepted[n]
      <4>1. n # 0 => work.accepted # <<>>
        BY <1>1, EmptySeq
      <4> QED
        BY <1>1, <2>1, <4>1 DEF AcceptedChain, Last
    <3>4. \A i \in 1..(n + 1) : Chained(Parent[work'.accepted[i]], work'.accepted[i])
      <4> TAKE i \in 1..(n + 1)
      <4>1. CASE i \in 1..n
        BY <1>1, <3>1, <4>1 DEF AcceptedChain
      <4>2. CASE i = n + 1
        BY <3>1, <3>2, <4>2
      <4> QED
        BY <3>1, <4>1, <4>2
    <3>5. \A i \in 2..(n + 1) : Parent[work'.accepted[i]] = work'.accepted[i - 1]
      <4> TAKE i \in 2..(n + 1)
      <4>1. CASE i \in 2..n
        <5>1. i \in 1..n /\ i - 1 \in 1..n
          BY <3>1, <4>1
        <5> QED
          BY <1>1, <3>1, <4>1, <5>1 DEF AcceptedChain
      <4>2. CASE i = n + 1
        <5>1. n # 0 /\ n \in 1..n /\ i - 1 = n
          BY <3>1, <4>2
        <5> QED
          BY <3>1, <3>3, <4>2, <5>1
      <4> QED
        BY <3>1, <4>1, <4>2
    <3>6. Last(work'.accepted) = store'.lastBlock
      BY <2>2, <3>1 DEF Last
    <3> QED
      BY <2>4, <3>1, <3>4, <3>5, <3>6 DEF AcceptedChain
  <2> QED
    BY <1>1, <1>7, <2>3, <2>4 DEF FinishAccept, Work
<1>8. CASE Corrupted
  BY <1>1, <1>8, ChainStay DEF Corrupted, Exit
<1>9. CASE UndoAccept
  <2>1. work.phase = "undo" /\ work'.accepted = work.accepted /\ work'.phase = "save"
    BY <1>2, <1>9 DEF UndoAccept, Phase
  <2>2. Parent[store.lastBlock] \in Block
    BY <1>1, BlockAssumption
  <2>3. store'.lastBlock = Parent[store.lastBlock]
    BY <1>1, <1>9, <2>2, StoreMoves DEF UndoAccept, RevertLastBlock
  <2> QED
    BY <1>1, <2>1, <2>3 DEF AcceptedChain
<1>10. CASE SaveBlocks
  <2>1. work.phase = "save" /\ work'.accepted = work.accepted /\ work'.phase \in {"end", "revert"}
    BY <1>1, <1>10 DEF SaveBlocks, Phase, Work
  <2>2. work'.phase = "revert" => store' = store
    BY <1>1, <1>10 DEF SaveBlocks, Work
  <2>3. CASE work'.phase = "end"
    BY <1>1, <2>1, <2>3 DEF AcceptedChain
  <2>4. CASE work'.phase = "revert"
    BY <1>1, <2>1, <2>2, <2>4, ChainStay
  <2> QED
    BY <2>1, <2>3, <2>4
<1>11. CASE RevertBlock
  <2> DEFINE n == Len(work.accepted)
  <2>1. work.phase = "revert" /\ work.accepted # <<>> /\ n \in Nat \ {0}
    BY <1>1, <1>11, EmptySeq DEF RevertBlock, Phase
  <2>2. /\ work'.accepted = Front(work.accepted) /\ work'.phase = "revert"
        /\ Len(Front(work.accepted)) = n - 1
        /\ \A i \in 1..(n - 1) : Front(work.accepted)[i] = work.accepted[i]
    BY <1>1, <1>11, <2>1, FrontType DEF RevertBlock, Work
  <2>3. Parent[store.lastBlock] \in Block
    BY <1>1, BlockAssumption
  <2>4. store'.lastBlock = Parent[store.lastBlock]
    BY <1>1, <1>11, <2>3, StoreMoves DEF RevertBlock, RevertLastBlock
  <2>5. store.lastBlock = work.accepted[n]
    BY <1>1, <2>1 DEF AcceptedChain, Last
  <2>6. \A i \in 1..(n - 1) : Chained(Parent[work'.accepted[i]], work'.accepted[i])
    BY <1>1, <2>1, <2>2 DEF AcceptedChain
  <2>7. \A i \in 2..(n - 1) : Parent[work'.accepted[i]] = work'.accepted[i - 1]
    <3> TAKE i \in 2..(n - 1)
    <3>1. i \in 1..(n - 1) /\ i - 1 \in 1..(n - 1) /\ i \in 2..n
      BY <2>1
    <3> QED
      BY <1>1, <2>2, <3>1 DEF AcceptedChain
  <2>8. work'.accepted # <<>> => store'.lastBlock = Last(work'.accepted)
    <3> SUFFICES ASSUME work'.accepted # <<>> PROVE store'.lastBlock = Last(work'.accepted)
      OBVIOUS
    <3>1. Front(work.accepted) \in Seq(Block)
      BY <1>1, <2>1, FrontType
    <3>2. n - 1 \in Nat \ {0}
      BY <2>2, <3>1, EmptySeq
    <3>3. n - 1 \in 1..(n - 1) /\ n \in 2..n
      <4>1. \A m \in Nat : m - 1 \in Nat \ {0} => m - 1 \in 1..(m - 1) /\ m \in 2..m
        OBVIOUS
      <4> HIDE DEF n
      <4> QED
        BY <2>1, <3>2, <4>1
    <3>4. Parent[work.accepted[n]] = work.accepted[n - 1]
      BY <1>1, <3>3 DEF AcceptedChain
    <3> QED
      BY <2>2, <2>4, <2>5, <3>3, <3>4 DEF Last
  <2> QED
    BY <2>2, <2>6, <2>7, <2>8 DEF AcceptedChain
<1>12. CASE BlocksReverted
  <2>1. work'.accepted = work.accepted /\ work'.phase = "end"
    BY <1>1, <1>12 DEF BlocksReverted, Work
  <2> QED
    BY <1>1, <2>1 DEF AcceptedChain
<1>13. CASE FinishJob
  <2>1. Fresh(work')
    BY <1>1, <1>13, QueueOperatorTypes DEF FinishJob, Fresh, Queue
  <2> QED
    BY <2>1, ChainFresh
<1> QED
  BY <1>3, <1>4, <1>5, <1>6, <1>7, <1>8, <1>9, <1>10, <1>11, <1>12, <1>13 DEF JobStep

\* The chain of the accepted blocks is inductive.
LEMMA ChainNext ==
  ASSUME ChainInv, [Next]_vars
  PROVE  ChainInv'
<1>1. AcceptedChain'
  <2>1. CASE UNCHANGED vars
    BY <2>1, ChainStay DEF vars, ChainInv
  <2>2. CASE ServiceStep \/ ImmediateStep \/ AnswerStep
    BY <2>2, OtherSteps, ChainStay, ChainFresh DEF ChainInv
  <2>3. CASE JobStep
    BY <2>3, ChainJobStep
  <2> QED
    BY <2>1, <2>2, <2>3 DEF Next
<1> QED
  BY <1>1, TypeNext DEF ChainInv

LEMMA ChainInit == Init => ChainInv
<1> SUFFICES ASSUME Init PROVE ChainInv
  OBVIOUS
<1>1. work.accepted = <<>> /\ work.phase = "none"
  BY DEF Init, NoWork
<1> QED
  BY <1>1, TypeInit DEF ChainInv, AcceptedChain

-----------------------------------------------------------------------------
(* The last block moves one block at a time *)

\* What a step of the job can do to the last block.
LEMMA LastBlockMoves ==
  ASSUME ChainInv, JobStep
  PROVE  \/ store'.lastBlock = store.lastBlock
         \/ /\ work.phase = "next" /\ Chained(store.lastBlock, store'.lastBlock)
         \/ /\ work.phase \in {"undo", "revert"}
            /\ store'.lastBlock = Parent[store.lastBlock]
            /\ Chained(store'.lastBlock, store.lastBlock)
            /\ work.phase = "revert" => /\ work.accepted # <<>>
                                        /\ store.lastBlock = Last(work.accepted)
<1>1. /\ work \in Work /\ store \in Store /\ AcceptedChain
      /\ work.accepted \in Seq(Block) /\ store.lastBlock \in Block
  BY DEF ChainInv, TypeInv, TypeOK, Work, Store
<1>2. Parent[store.lastBlock] \in Block
  BY <1>1, BlockAssumption
<1>3. ASSUME NEW b \in Block, ApplyBlock(b)
      PROVE  \/ store'.lastBlock = store.lastBlock
             \/ work.phase = "next" /\ Chained(store.lastBlock, store'.lastBlock)
  <2>1. SetLastBlock(store, b) \in Store /\ SetLastBlock(store, b).lastBlock = b
    BY <1>1, StoreTypes, StoreMoves
  <2>2. [SetLastBlock(store, b) EXCEPT !.forkedBlock = NoBlock].lastBlock = b
    BY <2>1 DEF Store
  <2>3. ResetLastDownloaded(SetLastBlock(store, b)).lastBlock = b
    BY <2>1, StoreMoves
  <2>4. ResetLastDownloaded(store).lastBlock = store.lastBlock
    BY <1>1, StoreMoves
  <2> QED
    BY <1>3, <2>1, <2>2, <2>3, <2>4 DEF ApplyBlock, Processing, Phase
<1>4. CASE UndoAccept
  BY <1>1, <1>2, <1>4, StoreMoves DEF UndoAccept, Phase, RevertLastBlock, AcceptedChain
<1>5. CASE RevertBlock
  <2>1. work.phase = "revert" /\ work.accepted # <<>> /\ store'.lastBlock = Parent[store.lastBlock]
    BY <1>1, <1>2, <1>5, StoreMoves DEF RevertBlock, Phase, RevertLastBlock
  <2>2. store.lastBlock = Last(work.accepted) /\ Len(work.accepted) \in Nat \ {0}
    BY <1>1, <2>1, EmptySeq DEF AcceptedChain
  <2>3. Len(work.accepted) \in 1..Len(work.accepted)
    BY <2>2
  <2> QED
    BY <1>1, <2>1, <2>2, <2>3 DEF AcceptedChain, Last
<1>6. CASE \/ Interrupted \/ FinishAccept \/ Corrupted \/ BlocksReverted \/ FinishJob
           \/ \E b \in Block : Refused(b) \/ Unchained(b)
  BY <1>1, <1>6, StoreMoves DEF Interrupted, FinishAccept, Corrupted, Exit, BlocksReverted,
     FinishJob, Refused, Unchained, Store
<1>7. CASE SaveBlocks
  <2>1. ASSUME NEW s \in Store, s.lastBlock = store.lastBlock, Conclude(s)
        PROVE  store'.lastBlock = store.lastBlock
    <3>1. [s EXCEPT !.forkedBlock = work.fork] \in Store
          /\ [s EXCEPT !.forkedBlock = work.fork].lastBlock = store.lastBlock
      BY <1>1, <2>1 DEF Store, Work
    <3> QED
      BY <2>1, <3>1, StoreMoves DEF Conclude
  <2>2. work.accepted # <<>> =>
          Stored(store) \in Store /\ Stored(store).lastBlock = store.lastBlock
    <3>1. work.accepted # <<>> => Last(work.accepted) \in Block
      BY <1>1, EmptySeq, ElementOfSeq DEF Last
    <3> QED
      BY <1>1, <3>1, BlockAssumption DEF Stored, Store
  <2> QED
    BY <1>1, <1>7, <2>1, <2>2 DEF SaveBlocks
<1> QED
  BY <1>3, <1>4, <1>5, <1>6, <1>7 DEF JobStep

(***************************************************************************)
(* The last block only moves along the chain, one block at a time, for any *)
(* tree of blocks and any failure: a revert finds the parent of the block  *)
(* it takes back because the accepted blocks are a chain (AcceptedChain).  *)
(***************************************************************************)
THEOREM LastBlockFollowsChain == Spec => OneBlockAtATime
<1>1. ChainInv /\ [Next]_vars =>
        [LET old == store.lastBlock
             new == store'.lastBlock
         IN  \/ new = old
             \/ Parent[new] = old /\ Height[new] = Height[old] + 1
             \/ new = Parent[old] /\ Height[old] = Height[new] + 1]_store
  <2> SUFFICES ASSUME ChainInv, [Next]_vars
               PROVE  \/ store'.lastBlock = store.lastBlock
                      \/ Chained(store.lastBlock, store'.lastBlock)
                      \/ /\ store'.lastBlock = Parent[store.lastBlock]
                         /\ Chained(store'.lastBlock, store.lastBlock)
    BY DEF Chained
  <2>1. CASE UNCHANGED vars
    BY <2>1 DEF vars
  <2>2. CASE ServiceStep \/ ImmediateStep \/ AnswerStep
    BY <2>2, OtherSteps DEF ChainInv
  <2>3. CASE JobStep
    BY <2>3, LastBlockMoves
  <2> QED
    BY <2>1, <2>2, <2>3 DEF Next
<1> QED
  BY <1>1, ChainInit, ChainNext, PTL DEF Spec, OneBlockAtATime

-----------------------------------------------------------------------------
(* What is stored stays below what is accepted *)

StoredInv == ChainInv /\ AcceptedAboveStored /\ AppliedAboveStored

\* A job that begins, or a step that moves none of what is compared.
LEMMA StoredStay ==
  ASSUME AcceptedAboveStored, AppliedAboveStored,
         store'.lastBlock = store.lastBlock, store'.lastStored = store.lastStored,
         \/ Fresh(work')
         \/ /\ work'.accepted = work.accepted
            /\ work.phase # "end" \/ work'.phase = "end"
            /\ work'.phase \in {"applied", "undo"} => work.phase \in {"applied", "undo"}
  PROVE  AcceptedAboveStored' /\ AppliedAboveStored'
<1>1. CASE Fresh(work')
  <2>1. work'.accepted = <<>> /\ work'.phase \notin {"applied", "undo"}
    BY <1>1 DEF Fresh, NoWork, NewWork
  <2> QED
    BY <2>1 DEF AcceptedAboveStored, AppliedAboveStored
<1>2. CASE ~Fresh(work')
  BY <1>2 DEF AcceptedAboveStored, AppliedAboveStored
<1> QED
  BY <1>1, <1>2

\* Every step of a job keeps the stored height below what is accepted.
LEMMA StoredJobStep ==
  ASSUME StoredInv, JobStep
  PROVE  AcceptedAboveStored' /\ AppliedAboveStored'
<1>1. /\ ChainInv /\ AcceptedChain /\ AcceptedAboveStored /\ AppliedAboveStored
      /\ work \in Work /\ store \in Store /\ queue \in Queue
      /\ work.accepted \in Seq(Block) /\ store.lastBlock \in Block /\ store.lastStored \in Nat
  BY DEF StoredInv, ChainInv, TypeInv, TypeOK, Work, Store
<1>2. DOMAIN work.accepted = 1..Len(work.accepted) /\ Len(work.accepted) \in Nat
  BY <1>1, LenProperties
<1>3. ASSUME NEW result, Break(result)
      PROVE  work'.accepted = work.accepted /\ work'.phase = "save"
  BY <1>1, <1>3 DEF Break, Work
<1>4. Parent[store.lastBlock] \in Block /\ Height[Parent[store.lastBlock]] \in Nat
      /\ Height[store.lastBlock] \in Nat
  BY <1>1, BlockAssumption
<1>5. CASE Interrupted \/ Corrupted
  BY <1>1, <1>3, <1>5, StoredStay DEF Interrupted, Corrupted, Exit, Phase
<1>6. ASSUME NEW b \in Block, Refused(b) \/ Unchained(b)
      PROVE  AcceptedAboveStored' /\ AppliedAboveStored'
  <2>1. work'.accepted = work.accepted /\ work'.phase = "save" /\ work.phase = "next"
    BY <1>1, <1>3, <1>6 DEF Refused, Unchained, Processing, Phase, Work
  <2>2. store'.lastBlock = store.lastBlock /\ store'.lastStored = store.lastStored
    BY <1>1, <1>6, StoreMoves DEF Refused, Unchained, Store
  <2> QED
    BY <1>1, <2>1, <2>2, StoredStay
<1>7. ASSUME NEW b \in Block, ApplyBlock(b)
      PROVE  AcceptedAboveStored' /\ AppliedAboveStored'
  <2>1. work.phase = "next" /\ Height[b] = Height[store.lastBlock] + 1 /\ Height[b] \in Nat
    BY <1>7, BlockAssumption DEF ApplyBlock, Processing, Phase, Chained
  <2>2. /\ SetLastBlock(store, b) \in Store /\ SetLastBlock(store, b).lastBlock = b
        /\ SetLastBlock(store, b).lastStored = store.lastStored
    BY <1>1, StoreTypes, StoreMoves
  <2>3. /\ [SetLastBlock(store, b) EXCEPT !.forkedBlock = NoBlock].lastBlock = b
        /\ [SetLastBlock(store, b) EXCEPT !.forkedBlock = NoBlock].lastStored = store.lastStored
    BY <2>2 DEF Store
  <2>4. /\ ResetLastDownloaded(SetLastBlock(store, b)).lastBlock = b
        /\ ResetLastDownloaded(SetLastBlock(store, b)).lastStored = store.lastStored
    BY <2>2, StoreMoves
  <2>5. CASE Break("Rejected") /\ store' = ResetLastDownloaded(store)
    BY <1>1, <1>3, <2>1, <2>5, StoreMoves, StoredStay
  <2>6. CASE /\ store'.lastBlock = b /\ store'.lastStored = store.lastStored
             /\ work'.accepted = work.accepted
    BY <1>1, <1>4, <2>1, <2>6 DEF AcceptedAboveStored, AppliedAboveStored
  <2>7. \/ Break("Rejected") /\ store' = ResetLastDownloaded(store)
        \/ /\ work' = [work EXCEPT !.phase = "applied"] \/ work' = [work EXCEPT !.phase = "undo"]
           /\ store'.lastBlock = b /\ store'.lastStored = store.lastStored
    BY <1>7, <2>2, <2>3, <2>4 DEF ApplyBlock
  <2> QED
    BY <1>1, <2>5, <2>6, <2>7 DEF Work
<1>8. CASE FinishAccept
  <2>1. work.phase = "applied" /\ Height[store.lastBlock] > store.lastStored
    BY <1>1, <1>8 DEF FinishAccept, Phase, AppliedAboveStored
  <2>2. store'.lastBlock = store.lastBlock /\ store'.lastStored = store.lastStored
    BY <1>1, <1>8, StoreMoves DEF FinishAccept
  <2>3. CASE work' = [work EXCEPT !.phase = "undo"]
    BY <1>1, <2>1, <2>2, <2>3, StoredStay DEF Work
  <2>4. CASE /\ work'.accepted = Append(work.accepted, store.lastBlock)
             /\ work'.phase \in {"save", "next"}
    <3> DEFINE n == Len(work.accepted)
    <3>1. /\ DOMAIN work'.accepted = 1..(n + 1)
          /\ work'.accepted[n + 1] = store.lastBlock
          /\ \A i \in 1..n : work'.accepted[i] = work.accepted[i]
      BY <1>1, <2>4, AppendProperties, LenProperties
    <3>2. \A i \in 1..n : Height[work.accepted[i]] > store.lastStored
      BY <1>1, <1>2, <2>1 DEF AcceptedAboveStored
    <3>3. \A i \in 1..(n + 1) : Height[work'.accepted[i]] > store.lastStored
      <4> TAKE i \in 1..(n + 1)
      <4>1. i \in 1..n \/ i = n + 1
        BY <1>2
      <4> QED
        BY <2>1, <3>1, <3>2, <4>1
    <3> QED
      BY <1>1, <2>2, <2>4, <3>1, <3>3 DEF AcceptedAboveStored, AppliedAboveStored
  <2> QED
    BY <1>1, <1>8, <2>3, <2>4 DEF FinishAccept, Work
<1>9. CASE UndoAccept
  <2>1. work.phase = "undo" /\ work'.accepted = work.accepted /\ work'.phase = "save"
    BY <1>3, <1>9 DEF UndoAccept, Phase
  <2>2. store'.lastBlock = Parent[store.lastBlock] /\ store'.lastStored = store.lastStored
    BY <1>1, <1>4, <1>9, StoreMoves DEF UndoAccept, RevertLastBlock
  <2>3. Height[store.lastBlock] > store.lastStored
        /\ Height[store.lastBlock] = Height[Parent[store.lastBlock]] + 1
    BY <1>1, <2>1 DEF AppliedAboveStored, AcceptedChain, Chained
  <2> QED
    BY <1>1, <1>4, <2>1, <2>2, <2>3 DEF AcceptedAboveStored, AppliedAboveStored
<1>10. CASE SaveBlocks
  <2>1. work.phase = "save" /\ work'.accepted = work.accepted /\ work'.phase \in {"end", "revert"}
    BY <1>1, <1>10 DEF SaveBlocks, Phase, Work
  <2>2. ASSUME NEW s \in Store, Conclude(s)
        PROVE  store'.lastBlock = s.lastBlock /\ store'.lastStored = s.lastStored
    <3>1. /\ [s EXCEPT !.forkedBlock = work.fork] \in Store
          /\ [s EXCEPT !.forkedBlock = work.fork].lastBlock = s.lastBlock
          /\ [s EXCEPT !.forkedBlock = work.fork].lastStored = s.lastStored
      BY <1>1, <2>2 DEF Store, Work
    <3> QED
      BY <2>2, <3>1, StoreMoves DEF Conclude
  <2>3. CASE work'.phase = "revert" \/ Conclude(store)
    <3>1. store'.lastBlock = store.lastBlock /\ store'.lastStored = store.lastStored
      BY <1>1, <1>10, <2>2, <2>3 DEF SaveBlocks, Work
    <3> QED
      BY <1>1, <2>1, <3>1, StoredStay
  <2>4. CASE work.accepted # <<>> /\ work'.phase = "end" /\ Conclude(Stored(store))
    <3>1. Last(work.accepted) = store.lastBlock
      BY <1>1, <2>1, <2>4 DEF AcceptedChain
    <3>2. /\ Stored(store) \in Store /\ Stored(store).lastBlock = store.lastBlock
          /\ Stored(store).lastStored = Height[store.lastBlock]
      BY <1>1, <1>4, <3>1 DEF Stored, Store
    <3>3. store'.lastBlock = store.lastBlock /\ store'.lastStored = Height[store.lastBlock]
      BY <2>2, <2>4, <3>2
    <3> QED
      BY <1>4, <2>4, <3>3 DEF AcceptedAboveStored, AppliedAboveStored
  <2> QED
    BY <1>1, <1>10, <2>3, <2>4 DEF SaveBlocks, Work
<1>11. CASE RevertBlock
  <2> DEFINE n == Len(work.accepted)
  <2>1. work.phase = "revert" /\ work.accepted # <<>> /\ n \in Nat \ {0}
    BY <1>1, <1>11, EmptySeq DEF RevertBlock, Phase
  <2>2. /\ work'.accepted = Front(work.accepted) /\ work'.phase = "revert"
        /\ DOMAIN Front(work.accepted) = 1..(n - 1)
        /\ \A i \in 1..(n - 1) : Front(work.accepted)[i] = work.accepted[i]
    BY <1>1, <1>11, <2>1, FrontType, LenProperties DEF RevertBlock, Work
  <2>3. store'.lastBlock = Parent[store.lastBlock] /\ store'.lastStored = store.lastStored
    BY <1>1, <1>4, <1>11, StoreMoves DEF RevertBlock, RevertLastBlock
  <2>4. store.lastBlock = work.accepted[n] /\ n \in 1..n
    BY <1>1, <2>1 DEF AcceptedChain, Last
  <2>5. Height[store.lastBlock] > store.lastStored
        /\ Height[store.lastBlock] = Height[Parent[store.lastBlock]] + 1
    BY <1>1, <1>2, <2>1, <2>4 DEF AcceptedAboveStored, AcceptedChain, Chained
  <2>6. \A i \in 1..(n - 1) : Height[work'.accepted[i]] > store.lastStored
    BY <1>1, <1>2, <2>1, <2>2 DEF AcceptedAboveStored
  <2> QED
    BY <1>1, <1>4, <2>2, <2>3, <2>5, <2>6 DEF AcceptedAboveStored, AppliedAboveStored
<1>12. CASE BlocksReverted
  <2>1. work'.accepted = work.accepted /\ work'.phase = "end" /\ work.phase = "revert"
    BY <1>1, <1>12 DEF BlocksReverted, Phase, Work
  <2>2. store'.lastBlock = store.lastBlock /\ store'.lastStored = store.lastStored
    BY <1>1, <1>12, StoreMoves DEF BlocksReverted
  <2> QED
    BY <1>1, <2>1, <2>2, StoredStay
<1>13. CASE FinishJob
  <2>1. Fresh(work')
    BY <1>1, <1>13, QueueOperatorTypes DEF FinishJob, Fresh, Queue
  <2> QED
    BY <1>1, <1>13, <2>1, StoredStay DEF FinishJob
<1> QED
  BY <1>5, <1>6, <1>7, <1>8, <1>9, <1>10, <1>11, <1>12, <1>13 DEF JobStep

(***************************************************************************)
(* Whatever is accepted and not yet in the database is above the stored    *)
(* height, and the stored height never passes the last block: the forged-  *)
(* transactions check never takes the database for a block only memory     *)
(* has, through any interleaving of jobs, reverts and failed saves.        *)
(***************************************************************************)
THEOREM StoredBelowAccepted == Spec => []AcceptedAboveStored
<1>1. Init => StoredInv
  <2> SUFFICES ASSUME Init PROVE StoredInv
    OBVIOUS
  <2>1. /\ work.accepted = <<>> /\ work.phase = "none"
        /\ store.lastStored = 1 /\ store.lastBlock = Genesis
    BY DEF Init, NoWork
  <2> QED
    BY <2>1, ChainInit, BlockAssumption DEF StoredInv, AcceptedAboveStored, AppliedAboveStored
<1>2. StoredInv /\ [Next]_vars => StoredInv'
  <2> SUFFICES ASSUME StoredInv, [Next]_vars PROVE AcceptedAboveStored' /\ AppliedAboveStored'
    BY ChainNext DEF StoredInv
  <2>1. CASE UNCHANGED vars
    BY <2>1, StoredStay DEF vars, StoredInv
  <2>2. CASE ServiceStep \/ ImmediateStep \/ AnswerStep
    BY <2>2, OtherSteps, StoredStay DEF StoredInv, ChainInv
  <2>3. CASE JobStep
    BY <2>3, StoredJobStep
  <2> QED
    BY <2>1, <2>2, <2>3 DEF Next
<1>3. StoredInv => AcceptedAboveStored
  BY DEF StoredInv
<1> QED
  BY <1>1, <1>2, <1>3, PTL DEF Spec

-----------------------------------------------------------------------------
(* The last downloaded block does not fall behind the last one *)

\* A download from a block ends above it.
LEMMA SegmentsHigher ==
  ASSUME NEW b \in Block, NEW bs \in Segments(b)
  PROVE  Height[Last(bs)] > Height[b]
<1>1. PICK n \in 1..MaxSegment : bs \in [1..n -> Block]
  BY DEF Segments
<1>2. n \in Nat \ {0} /\ Len(bs) = n /\ 1 \in 1..n /\ n \in 1..n
  BY <1>1, BoundAssumption
<1>3. Height[bs[1]] = Height[b] + 1
  BY DEF Segments, Chained
<1>4. 1 < n => Height[bs[1]] < Height[bs[n]]
  BY <1>2 DEF Segments
<1>5. Height[b] \in Nat /\ Height[bs[1]] \in Nat /\ Height[bs[n]] \in Nat
  BY <1>1, <1>2, BlockAssumption
<1>6. Height[bs[n]] > Height[b]
  <2>1. CASE n = 1
    BY <1>3, <1>5, <2>1
  <2>2. CASE 1 < n
    BY <1>3, <1>4, <1>5, <2>2
  <2> QED
    BY <1>2, <2>1, <2>2
<1> QED
  BY <1>2, <1>6 DEF Last

Caught == store.lastDownloaded # NoBlock /\ LastDownloadedNotBehind

\* What steps outside jobs do to the last downloaded block.
LEMMA CaughtOther ==
  ASSUME TypeInv, Caught, ServiceStep \/ ImmediateStep \/ AnswerStep
  PROVE  /\ store'.lastDownloaded # NoBlock
         /\ work.phase # "applied" =>
              Height[store'.lastDownloaded] >= Height[store'.lastBlock]
<1>1. /\ store \in Store /\ store.lastDownloaded \in Block /\ store.lastBlock \in Block
      /\ work.phase # "applied" => Height[store.lastDownloaded] >= Height[store.lastBlock]
  BY DEF TypeInv, TypeOK, Store, Caught, LastDownloadedNotBehind
<1>2. ASSUME store'.lastDownloaded = store.lastDownloaded, store'.lastBlock = store.lastBlock
      PROVE  /\ store'.lastDownloaded # NoBlock
             /\ work.phase # "applied" =>
                  Height[store'.lastDownloaded] >= Height[store'.lastBlock]
  BY <1>1, <1>2, BlockAssumption
<1>3. ASSUME NEW b \in Block, Downloaded(b)
      PROVE  /\ store'.lastDownloaded # NoBlock
             /\ work.phase # "applied" =>
                  Height[store'.lastDownloaded] >= Height[store'.lastBlock]
  <2>1. ASSUME NEW bs \in Segments(b), ~Outdated(b),
               store' = [store EXCEPT !.lastDownloaded = Last(bs)]
        PROVE  /\ store'.lastDownloaded # NoBlock
               /\ work.phase # "applied" =>
                    Height[store'.lastDownloaded] >= Height[store'.lastBlock]
    <3>1. store.lastDownloaded = b
      BY <2>1 DEF Outdated, Caught
    <3>2. Last(bs) \in Block /\ Height[Last(bs)] > Height[b]
      BY SegmentsType, SegmentsHigher
    <3>3. store'.lastDownloaded = Last(bs) /\ store'.lastBlock = store.lastBlock
      BY <1>1, <2>1 DEF Store
    <3>4. Height[Last(bs)] \in Nat /\ Height[b] \in Nat /\ Height[store.lastBlock] \in Nat
      BY <1>1, <3>2, BlockAssumption
    <3> QED
      BY <1>1, <3>1, <3>2, <3>3, <3>4, BlockAssumption
  <2>2. CountNoBlock(store).lastDownloaded = store.lastBlock
        /\ CountNoBlock(store).lastBlock = store.lastBlock
    BY <1>1 DEF CountNoBlock, Store
  <2>3. Height[store.lastBlock] >= Height[store.lastBlock] /\ store.lastBlock # NoBlock
    BY <1>1, BlockAssumption
  <2> QED
    BY <1>2, <1>3, <2>1, <2>2, <2>3 DEF Downloaded, NothingDownloaded
<1> QED
  BY <1>1, <1>2, <1>3 DEF ServiceStep, Boot, BootFinished, Dispose, Tick, HandleIncomingBlock,
     WakeUp, ForceWakeup, CheckMissingBlocks, MissingBlocksChecked, ImmediateStep, Initialize,
     CheckLater, BlockchainReady, CheckLastDownloadedBlockSynced, DownloadBlocks,
     DownloadFinished, CheckLastBlockSynced, SyncingComplete, LogOnly, ExitApp, Exit,
     AnswerStep, Initialized, NetworkHealthChecked, Store

\* A job's steps leave the last downloaded block at or above the last one.
LEMMA CaughtJobStep ==
  ASSUME ChainInv, Caught, JobStep, work'.phase # "applied"
  PROVE  /\ store'.lastDownloaded # NoBlock
         /\ Height[store'.lastDownloaded] >= Height[store'.lastBlock]
<1>1. /\ work \in Work /\ store \in Store /\ AcceptedChain /\ TypeInv
      /\ store.lastDownloaded \in Block /\ store.lastBlock \in Block
      /\ Height[store.lastDownloaded] \in Nat /\ Height[store.lastBlock] \in Nat
      /\ work.phase # "applied" => Height[store.lastDownloaded] >= Height[store.lastBlock]
  BY BlockAssumption DEF ChainInv, TypeInv, TypeOK, Store, Caught, LastDownloadedNotBehind
<1>2. ASSUME NEW s \in Store, store' = ResetLastDownloaded(s)
      PROVE  /\ store'.lastDownloaded # NoBlock
             /\ Height[store'.lastDownloaded] >= Height[store'.lastBlock]
  <2>1. store'.lastDownloaded = s.lastBlock /\ store'.lastBlock = s.lastBlock
        /\ s.lastBlock \in Block
    BY <1>2, StoreMoves DEF Store
  <2> QED
    BY <2>1, BlockAssumption
<1>3. ASSUME work.phase # "applied", store'.lastDownloaded = store.lastDownloaded,
             store'.lastBlock = store.lastBlock
      PROVE  /\ store'.lastDownloaded # NoBlock
             /\ Height[store'.lastDownloaded] >= Height[store'.lastBlock]
  BY <1>1, <1>3 DEF Caught
<1>4. CASE Interrupted \/ Corrupted \/ FinishJob
  BY <1>3, <1>4 DEF Interrupted, Corrupted, Exit, FinishJob, Phase
<1>5. ASSUME NEW b \in Block, Refused(b)
      PROVE  /\ store'.lastDownloaded # NoBlock
             /\ Height[store'.lastDownloaded] >= Height[store'.lastBlock]
  BY <1>1, <1>2, <1>5 DEF Refused
<1>6. ASSUME NEW b \in Block, Unchained(b)
      PROVE  /\ store'.lastDownloaded # NoBlock
             /\ Height[store'.lastDownloaded] >= Height[store'.lastBlock]
  <2>1. PICK result \in UnchainedResults(b) :
          store' = [store EXCEPT !.lastDownloaded = IF result = "Rollback" THEN b
                                                    ELSE store.lastBlock]
    BY <1>6 DEF Unchained
  <2>2. store'.lastBlock = store.lastBlock
        /\ store'.lastDownloaded = IF result = "Rollback" THEN b ELSE store.lastBlock
    BY <1>1, <2>1 DEF Store
  <2>3. Height[b] \in Nat
    BY BlockAssumption
  <2>4. result = "Rollback" => Height[b] >= Height[store.lastBlock]
    BY <1>1, <2>1, <2>3 DEF UnchainedResults
  <2> QED
    BY <1>1, <2>2, <2>3, <2>4, BlockAssumption
<1>7. ASSUME NEW b \in Block, ApplyBlock(b)
      PROVE  /\ store'.lastDownloaded # NoBlock
             /\ Height[store'.lastDownloaded] >= Height[store'.lastBlock]
  <2>1. SetLastBlock(store, b) \in Store
    BY <1>1, StoreTypes
  <2>2. \/ store' = ResetLastDownloaded(store)
        \/ store' = ResetLastDownloaded(SetLastBlock(store, b))
    BY <1>1, <1>7 DEF ApplyBlock, Work
  <2> QED
    BY <1>1, <1>2, <2>1, <2>2
<1>8. CASE FinishAccept
  <2>1. CASE store' = ResetLastDownloaded(store)
    BY <1>1, <1>2, <2>1
  <2>2. CASE store' = CatchUp(store)
    <3>1. CASE Height[store.lastDownloaded] < Height[store.lastBlock]
      BY <1>1, <1>2, <2>2, <3>1 DEF CatchUp, Caught
    <3>2. CASE ~(Height[store.lastDownloaded] < Height[store.lastBlock])
      BY <1>1, <2>2, <3>2 DEF CatchUp, Caught
    <3> QED
      BY <3>1, <3>2
  <2> QED
    BY <1>8, <2>1, <2>2 DEF FinishAccept
<1>9. CASE UndoAccept \/ RevertBlock
  <2>1. work.phase \in {"undo", "revert"} /\ Parent[store.lastBlock] \in Block
    BY <1>1, <1>9, BlockAssumption DEF UndoAccept, RevertBlock, Phase
  <2>2. store'.lastBlock = Parent[store.lastBlock] /\ store'.lastDownloaded = store.lastDownloaded
    BY <1>1, <1>9, <2>1, StoreMoves DEF UndoAccept, RevertBlock, RevertLastBlock
  <2>3. store'.lastBlock = store.lastBlock \/ Chained(store'.lastBlock, store.lastBlock)
    BY <2>1, LastBlockMoves
  <2>4. Height[Parent[store.lastBlock]] \in Nat
    BY <2>1, BlockAssumption
  <2> QED
    BY <1>1, <2>1, <2>2, <2>3, <2>4 DEF Chained, Caught
<1>10. CASE SaveBlocks
  <2>1. ASSUME NEW s \in Store, s.lastBlock = store.lastBlock,
               s.lastDownloaded = store.lastDownloaded, Conclude(s), Phase("save")
        PROVE  /\ store'.lastDownloaded # NoBlock
               /\ Height[store'.lastDownloaded] >= Height[store'.lastBlock]
    <3>1. [s EXCEPT !.forkedBlock = work.fork] \in Store
      BY <1>1, <2>1 DEF Store, Work
    <3> QED
      BY <1>2, <1>3, <2>1, <3>1 DEF Conclude, Phase
  <2>2. work.accepted # <<>> =>
          /\ Stored(store) \in Store /\ Stored(store).lastBlock = store.lastBlock
          /\ Stored(store).lastDownloaded = store.lastDownloaded
    <3>1. work.accepted # <<>> => Last(work.accepted) \in Block
      BY <1>1, EmptySeq, ElementOfSeq DEF Last, Work
    <3> QED
      BY <1>1, <3>1, BlockAssumption DEF Stored, Store
  <2> QED
    BY <1>1, <1>3, <1>10, <2>1, <2>2 DEF SaveBlocks, Phase
<1>11. CASE BlocksReverted
  BY <1>1, <1>2, <1>3, <1>11 DEF BlocksReverted, Phase
<1> QED
  BY <1>4, <1>5, <1>6, <1>7, <1>8, <1>9, <1>10, <1>11 DEF JobStep

\* Applying a block leaves the last downloaded block as it is.
LEMMA ApplyingKeeps ==
  ASSUME ChainInv, JobStep, work'.phase = "applied"
  PROVE  store'.lastDownloaded = store.lastDownloaded
<1>1. store \in Store /\ work \in Work /\ queue \in Queue
  BY DEF ChainInv, TypeInv, TypeOK
<1>2. ASSUME NEW b \in Block, ApplyBlock(b)
      PROVE  store'.lastDownloaded = store.lastDownloaded
  <2>1. SetLastBlock(store, b) \in Store
        /\ SetLastBlock(store, b).lastDownloaded = store.lastDownloaded
    BY <1>1, StoreTypes, StoreMoves
  <2>2. [SetLastBlock(store, b) EXCEPT !.forkedBlock = NoBlock].lastDownloaded
          = store.lastDownloaded
    BY <2>1 DEF Store
  <2>3. store' \in {SetLastBlock(store, b),
                    [SetLastBlock(store, b) EXCEPT !.forkedBlock = NoBlock]}
    BY <1>1, <1>2 DEF ApplyBlock, Break, Work
  <2> QED
    BY <2>1, <2>2, <2>3
<1>3. ~Interrupted /\ ~UndoAccept
      /\ \A b \in Block : ~Refused(b) /\ ~Unchained(b)
  BY <1>1 DEF Interrupted, UndoAccept, Refused, Unchained, Break, Work
<1>4. ~FinishAccept /\ ~SaveBlocks /\ ~RevertBlock /\ ~BlocksReverted /\ ~Corrupted
  BY <1>1 DEF FinishAccept, SaveBlocks, RevertBlock, BlocksReverted, Corrupted, Exit, Phase, Work
<1>5. FinishJob => store' = store
  BY DEF FinishJob
<1> QED
  BY <1>2, <1>3, <1>4, <1>5 DEF JobStep

(***************************************************************************)
(* Once known and not behind, the last downloaded block never falls behind *)
(* the last block: the reset in every failure path and the check in the    *)
(* accept handler suffice, with downloads answered at any moment.  Another *)
(* job cannot begin while a block is being accepted (BusyWorking).         *)
(***************************************************************************)
THEOREM DownloadsKeepUp == Spec => NeverFallsBehind
<1> DEFINE Inv == ChainInv /\ BusyWorking
<1>1. Init => Inv
  BY ChainInit DEF Init, NoWork, EmptyQueue, BusyWorking
<1>2. Inv /\ [Next]_vars => Inv'
  BY ChainNext, BusyNext DEF ChainInv
<1>3. Inv /\ [Next]_vars =>
        [ store.lastDownloaded # NoBlock /\ LastDownloadedNotBehind
          => store'.lastDownloaded # NoBlock /\ LastDownloadedNotBehind' ]_<<store, work>>
  <2> SUFFICES ASSUME Inv, [Next]_vars, Caught
               PROVE  store'.lastDownloaded # NoBlock /\ LastDownloadedNotBehind'
    BY DEF Caught
  <2>1. CASE UNCHANGED vars
    BY <2>1 DEF vars, Caught, LastDownloadedNotBehind
  <2>2. CASE ServiceStep \/ ImmediateStep \/ AnswerStep
    <3>1. CASE work.phase # "applied"
      BY <2>2, <3>1, CaughtOther DEF ChainInv, LastDownloadedNotBehind
    <3>2. CASE work.phase = "applied"
      <4>1. work' = work
        BY <2>2, <3>2, OtherSteps DEF ChainInv, BusyWorking
      <4> QED
        BY <2>2, <3>2, <4>1, CaughtOther DEF ChainInv, LastDownloadedNotBehind
    <3> QED
      BY <3>1, <3>2
  <2>3. CASE JobStep
    BY <2>3, CaughtJobStep, ApplyingKeeps DEF Caught, LastDownloadedNotBehind
  <2> QED
    BY <2>1, <2>2, <2>3 DEF Next
<1> QED
  BY <1>1, <1>2, <1>3, PTL DEF Spec, NeverFallsBehind

=============================================================================
