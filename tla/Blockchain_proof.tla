-------------------------- MODULE Blockchain_proof --------------------------
(***************************************************************************)
(* Type correctness of the blockchain manager, and that it never waits for *)
(* something nobody will do: a job queue that may run runs, a machine in   *)
(* "newBlock" has a job that will end it, an idle machine has a timer that *)
(* will wake it up, and a machine that synchronises has a callback, an     *)
(* answer or a job that drives it on.                                      *)
(***************************************************************************)
EXTENDS Blockchain, SequenceTheorems, TLAPS

-----------------------------------------------------------------------------
(* The transition table *)

\* Every event leads to a state of the machine.
LEMMA TargetType ==
  ASSUME NEW s \in State, NEW e
  PROVE  Target(s, e) \in State
BY DEF Target, State, SyncState

\* What a state queues on entry are actions index.ts implements.
LEMMA OnEntryType ==
  ASSUME NEW s
  PROVE  OnEntry(s) \in Seq(ActionName)
<1>1. \A a, b \in ActionName : <<a>> \in Seq(ActionName) /\ <<a, b>> \in Seq(ActionName)
  OBVIOUS
<1>2. <<>> \in Seq(ActionName)
  OBVIOUS
<1> QED
  BY <1>1, <1>2 DEF OnEntry, ActionName

\* Dispatching keeps the machine and the setImmediate queue well typed.
LEMMA DispatchType ==
  ASSUME machine \in State, NEW queued \in Seq(ActionName), NEW e,
         Dispatch(queued, e)
  PROVE  machine' \in State /\ immediates' \in Seq(ActionName)
<1>1. Entered(machine, e) \in Seq(ActionName)
  BY OnEntryType DEF Entered
<1> QED
  BY <1>1, TargetType DEF Dispatch

-----------------------------------------------------------------------------
(* The job queue *)

\* Every operation of the queue returns a queue.
LEMMA ProcessJobsType ==
  ASSUME NEW q \in Queue
  PROVE  ProcessJobs(q) \in Queue
<1>1. CASE ~q.busy /\ q.started /\ q.jobs # <<>>
  <2>1. Head(q.jobs) \in Seq(Block) /\ Tail(q.jobs) \in Seq(Seq(Block))
    BY <1>1, HeadTailProperties DEF Queue
  <2> QED
    BY <1>1, <2>1 DEF ProcessJobs, Queue
<1>2. CASE ~(~q.busy /\ q.started /\ q.jobs # <<>>)
  BY <1>2 DEF ProcessJobs, Queue
<1> QED
  BY <1>1, <1>2

LEMMA EnqueueType ==
  ASSUME NEW q \in Queue, NEW chunks \in Seq(Seq(Block))
  PROVE  Enqueue(q, chunks) \in Queue
<1>1. q.jobs \o chunks \in Seq(Seq(Block))
  BY ConcatProperties DEF Queue
<1>2. [q EXCEPT !.jobs = q.jobs \o chunks, !.started = TRUE] \in Queue
  BY <1>1 DEF Queue
<1> QED
  BY <1>2, ProcessJobsType DEF Enqueue

LEMMA QueueOperatorTypes ==
  ASSUME NEW q \in Queue
  PROVE  /\ Clear(q) \in Queue
         /\ Pause(q) \in Queue
         /\ Stop(q) \in Queue
         /\ JobDone(q) \in Queue
<1> <<>> \in Seq(Seq(Block))
  OBVIOUS
<1>1. Clear(q) \in Queue
  BY DEF Clear, Queue
<1>2. Pause(q) \in Queue /\ Stop(q) \in Queue
  <2>1. \A p \in Queue : Clear(p) \in Queue
    BY DEF Clear, Queue
  <2>2. Pause(q) \in Queue
    BY DEF Pause, Queue
  <2> QED
    BY <2>1, <2>2 DEF Stop
<1>3. [q EXCEPT !.busy = FALSE] \in Queue
  BY DEF Queue
<1> QED
  BY <1>1, <1>2, <1>3, ProcessJobsType DEF JobDone

\* A job begins with its blocks to do.
LEMMA NewWorkType ==
  ASSUME NEW bs \in Seq(Block)
  PROVE  /\ NewWork(bs) \in Work
         /\ NewWork(bs).phase = "next" => NewWork(bs).todo # <<>>
         /\ NewWork(bs).phase \in {"next", "end"}
BY DEF NewWork, Work

\* What is cut into chunks are blocks.
LEMMA ChunkingsType ==
  ASSUME NEW bs \in Seq(Block), NEW chunks \in Chunkings(bs)
  PROVE  chunks \in Seq(Seq(Block)) /\ chunks # <<>>
<1> DEFINE S == UNION {[1..k -> ToSet(bs)] : k \in 0..Len(bs)}
<1>1. S \subseteq Seq(Block)
  <2>1. ToSet(bs) \subseteq Block
    BY DEF ToSet
  <2>2. \A k \in 0..Len(bs) : [1..k -> ToSet(bs)] \subseteq Seq(Block)
    <3> TAKE k \in 0..Len(bs)
    <3>1. k \in Nat
      OBVIOUS
    <3>2. [1..k -> ToSet(bs)] \subseteq [1..k -> Block]
      BY <2>1
    <3> QED
      BY <3>1, <3>2, SeqDef
  <2> QED
    BY <2>2
<1>2. PICK n \in 1..(Len(bs) + 1) : chunks \in [1..n -> S]
  BY DEF Chunkings
<1>3. chunks \in Seq(S) /\ Len(chunks) = n
  BY <1>2
<1> QED
  BY <1>1, <1>2, <1>3

\* A download returns at least one block.
LEMMA SegmentsType ==
  ASSUME NEW b \in Block, NEW bs \in Segments(b)
  PROVE  bs \in Seq(Block) /\ bs # <<>> /\ Last(bs) \in Block
<1>1. PICK n \in 1..MaxSegment : bs \in [1..n -> Block]
  BY DEF Segments
<1> QED
  BY <1>1, BoundAssumption DEF Last

\* Giving the queue a new value keeps it and the running job well typed.
LEMMA SetQueueType ==
  ASSUME work \in Work, BlockInHand, NEW q \in Queue, SetQueue(q)
  PROVE  queue' \in Queue /\ work' \in Work /\ BlockInHand'
<1>1. q.current \in Seq(Block)
  BY DEF Queue
<1>2. NewWork(q.current) \in Work
  BY <1>1, NewWorkType
<1>3. NewWork(q.current).phase \in {"next", "applied", "undo"}
        => NewWork(q.current).todo # <<>>
  BY <1>1, NewWorkType
<1> QED
  BY <1>2, <1>3 DEF SetQueue, BlockInHand

-----------------------------------------------------------------------------
(* The timer *)

\* Each operation on the timer keeps at most one alive.
LEMMA TimerType ==
  ASSUME NEW t \in Timer
  PROVE  /\ ClearWakeUp(t) = [handle |-> FALSE, live |-> 0]
         /\ ResetWakeUp(t) = [handle |-> TRUE, live |-> 1]
         /\ ~t.handle => SetWakeUp(t) = [handle |-> TRUE, live |-> 1]
         /\ t.live > 0 => t.handle /\ t.live = 1
<1>1. CASE t = [handle |-> FALSE, live |-> 0]
  BY <1>1 DEF ClearWakeUp, ResetWakeUp, SetWakeUp
<1>2. CASE t = [handle |-> TRUE, live |-> 1]
  BY <1>2 DEF ClearWakeUp, ResetWakeUp, SetWakeUp
<1> QED
  BY <1>1, <1>2 DEF Timer

-----------------------------------------------------------------------------
(* Type correctness *)

TypeInv == TypeOK /\ BlockInHand

LEMMA TypeInit == Init => TypeInv
<1> SUFFICES ASSUME Init PROVE TypeInv
  OBVIOUS
<1>1. <<>> \in Seq(ActionName) /\ <<>> \in Seq(Seq(Block)) /\ <<>> \in Seq(Block)
  OBVIOUS
<1>2. process \in Process /\ machine \in State /\ timer \in Timer
  BY DEF Init, Process, State, Timer
<1>3. store \in Store
  <2>1. {Genesis} \subseteq Block /\ {NoBlock} \subseteq Block \cup {NoBlock}
        /\ {0} \subseteq Nat /\ {1} \subseteq Nat /\ {FALSE} \subseteq BOOLEAN
    BY BlockAssumption
  <2> QED
    BY <2>1 DEF Init, Store
<1>4. queue \in Queue
  BY <1>1 DEF Init, EmptyQueue, Queue
<1>5. work \in Work /\ BlockInHand
  BY <1>1 DEF Init, NoWork, Work, BlockInHand
<1>6. flight \in Flight
  BY DEF Init, Flight
<1> QED
  BY <1>1, <1>2, <1>3, <1>4, <1>5, <1>6 DEF Init, TypeInv, TypeOK

\* The steps of the service keep the types.
LEMMA TypeServiceStep ==
  ASSUME TypeInv, ServiceStep
  PROVE  TypeInv'
<1> USE DEF TypeInv, TypeOK
<1>1. CASE Boot
  BY <1>1, DispatchType DEF Boot, outside, BlockInHand
<1>2. CASE BootFinished
  BY <1>2 DEF BootFinished, outside, BlockInHand, Process
<1>3. CASE Dispose
  <2>1. process' \in Process /\ timer' \in Timer
    BY <1>3, TimerType DEF Dispose, Process, Timer
  <2>2. machine' \in State /\ immediates' \in Seq(ActionName)
    BY <1>3, DispatchType DEF Dispose
  <2>3. queue' \in Queue /\ work' \in Work /\ BlockInHand'
    BY <1>3, QueueOperatorTypes, SetQueueType DEF Dispose
  <2> QED
    BY <1>3, <2>1, <2>2, <2>3 DEF Dispose, outside
<1>4. CASE Tick
  BY <1>4 DEF Tick, BlockInHand
<1>5. ASSUME NEW b \in Block, HandleIncomingBlock(b) PROVE TypeInv'
  <2>1. PICK chunks \in Chunkings(<<b>>) : SetQueue(Enqueue(queue, chunks))
    BY <1>5 DEF HandleIncomingBlock
  <2>2. Enqueue(queue, chunks) \in Queue
    <3>1. chunks \in Seq(Seq(Block))
      BY <2>1, <<b>> \in Seq(Block), ChunkingsType
    <3> QED
      BY <3>1, EnqueueType
  <2>3. queue' \in Queue /\ work' \in Work /\ BlockInHand'
    BY <2>1, <2>2, SetQueueType
  <2>4. machine' \in State /\ immediates' \in Seq(ActionName)
    BY <1>5, DispatchType DEF HandleIncomingBlock
  <2> QED
    BY <1>5, <2>3, <2>4 DEF HandleIncomingBlock
<1>6. CASE WakeUp \/ ForceWakeup
  <2>1. timer' \in Timer
    <3>1. CASE WakeUp
      <4>1. timer.live = 1
        BY <3>1, TimerType DEF WakeUp
      <4> QED
        BY <3>1, <4>1 DEF WakeUp, Timer
    <3>2. CASE ForceWakeup
      BY <3>2, TimerType DEF ForceWakeup, Timer
    <3> QED
      BY <1>6, <3>1, <3>2
  <2>2. machine' \in State /\ immediates' \in Seq(ActionName)
    BY <1>6, DispatchType DEF WakeUp, ForceWakeup
  <2> QED
    BY <1>6, <2>1, <2>2 DEF WakeUp, ForceWakeup, outside, BlockInHand
<1>7. CASE CheckMissingBlocks
  BY <1>7 DEF CheckMissingBlocks, outside, BlockInHand, Flight
<1>8. CASE MissingBlocksChecked
  <2>1. machine' \in State /\ immediates' \in Seq(ActionName)
    BY <1>8, DispatchType DEF MissingBlocksChecked
  <2> QED
    BY <1>8, <2>1 DEF MissingBlocksChecked, outside, BlockInHand, Flight
<1> QED
  BY <1>1, <1>2, <1>3, <1>4, <1>5, <1>6, <1>7, <1>8 DEF ServiceStep

\* What is left of the setImmediate queue when its head has run.
LEMMA ImmediateTail ==
  ASSUME immediates \in Seq(ActionName), NEW a, Immediate(a)
  PROVE  Tail(immediates) \in Seq(ActionName)
BY HeadTailProperties DEF Immediate

\* The operators on the state store return a state store.
LEMMA StoreTypes ==
  ASSUME NEW s \in Store
  PROVE  /\ \A b \in Block : SetLastBlock(s, b) \in Store
         /\ LastDownloaded(s) \in Block
         /\ ResetLastDownloaded(s) \in Store
         /\ CatchUp(s) \in Store
         /\ CountNoBlock(s) \in Store
<1>1. ResetLastDownloaded(s) \in Store
  BY DEF ResetLastDownloaded, Store
<1>2. \A b \in Block : SetLastBlock(s, b) \in Store
  BY DEF SetLastBlock, Store
<1>3. LastDownloaded(s) \in Block
  BY DEF LastDownloaded, Store
<1>4. CatchUp(s) \in Store
  BY <1>1 DEF CatchUp
<1>5. CountNoBlock(s) \in Store
  <2>1. \A n \in Nat : [s EXCEPT !.noBlockCounter = n, !.lastDownloaded = s.lastBlock] \in Store
    BY DEF Store
  <2>2. s.noBlockCounter \in Nat /\ s.noBlockCounter + 1 \in Nat
    BY DEF Store
  <2> QED
    BY <2>1, <2>2 DEF CountNoBlock
<1> QED
  BY <1>1, <1>2, <1>3, <1>4, <1>5

\* Counting the downloads from a block keeps the type of what is in flight.
LEMMA FetchesType ==
  ASSUME NEW f \in Flight, NEW b \in Block, NEW n \in Nat
  PROVE  [f EXCEPT !.fetches[b] = n] \in Flight
<1>1. f.fetches \in [Block -> Nat]
  BY DEF Flight
<1>2. [f.fetches EXCEPT ![b] = n] \in [Block -> Nat]
  BY <1>1
<1>3. [f EXCEPT !.fetches = [f.fetches EXCEPT ![b] = n]] \in Flight
  BY <1>2 DEF Flight
<1> QED
  BY <1>3

\* The steps of the state machine's actions keep the types.
LEMMA TypeImmediateStep ==
  ASSUME TypeInv, ImmediateStep
  PROVE  TypeInv'
<1> USE DEF TypeInv, TypeOK
<1>1. CASE Initialize
  BY <1>1, ImmediateTail DEF Initialize, outside, BlockInHand, Flight
<1>2. CASE CheckLater
  <2>1. timer' \in Timer
    BY <1>2, TimerType DEF CheckLater, Timer
  <2> QED
    BY <1>2, <2>1, ImmediateTail DEF CheckLater, outside, BlockInHand
<1>3. CASE BlockchainReady
  BY <1>3, ImmediateTail DEF BlockchainReady, outside, BlockInHand, Store
<1>4. CASE CheckLastDownloadedBlockSynced
  <2>1. Tail(immediates) \in Seq(ActionName)
    BY <1>4, ImmediateTail DEF CheckLastDownloadedBlockSynced
  <2>2. machine' \in State /\ immediates' \in Seq(ActionName)
    BY <1>4, <2>1, DispatchType DEF CheckLastDownloadedBlockSynced
  <2>3. store' \in Store
    <3>1. [store EXCEPT !.noBlockCounter = 0] \in Store
      BY DEF Store
    <3>2. \A n \in Nat : [store EXCEPT !.noBlockCounter = 0, !.p2pUpdateCounter = n] \in Store
      BY DEF Store
    <3>3. store.p2pUpdateCounter + 1 \in Nat
      BY DEF Store
    <3> QED
      BY <1>4, <3>1, <3>2, <3>3 DEF CheckLastDownloadedBlockSynced
  <2>4. flight' \in Flight
    BY <1>4 DEF CheckLastDownloadedBlockSynced, Flight
  <2> QED
    BY <1>4, <2>2, <2>3, <2>4 DEF CheckLastDownloadedBlockSynced, outside, BlockInHand
<1>5. CASE DownloadBlocks
  <2>1. LastDownloaded(store) \in Block
    BY StoreTypes
  <2>2. flight' \in Flight
    <3>1. flight.fetches[LastDownloaded(store)] + 1 \in Nat
      BY <2>1 DEF Flight
    <3> QED
      BY <1>5, <2>1, <3>1, FetchesType DEF DownloadBlocks
  <2> QED
    BY <1>5, <2>2, ImmediateTail DEF DownloadBlocks, outside, BlockInHand
<1>6. CASE DownloadFinished
  <2>1. Tail(immediates) \in Seq(ActionName)
    BY <1>6, ImmediateTail DEF DownloadFinished
  <2>2. machine' \in State /\ immediates' \in Seq(ActionName)
    BY <1>6, <2>1, DispatchType DEF DownloadFinished
  <2>3. store' \in Store
    BY <1>6 DEF DownloadFinished, Store
  <2> QED
    BY <1>6, <2>2, <2>3 DEF DownloadFinished, outside, BlockInHand
<1>7. CASE CheckLastBlockSynced
  <2>1. Tail(immediates) \in Seq(ActionName)
    BY <1>7, ImmediateTail DEF CheckLastBlockSynced
  <2>2. machine' \in State /\ immediates' \in Seq(ActionName)
    BY <1>7, <2>1, DispatchType DEF CheckLastBlockSynced
  <2> QED
    BY <1>7, <2>2 DEF CheckLastBlockSynced, outside, BlockInHand
<1>8. CASE SyncingComplete
  <2>1. Tail(immediates) \in Seq(ActionName)
    BY <1>8, ImmediateTail DEF SyncingComplete
  <2>2. machine' \in State /\ immediates' \in Seq(ActionName)
    BY <1>8, <2>1, DispatchType DEF SyncingComplete
  <2> QED
    BY <1>8, <2>2 DEF SyncingComplete, outside, BlockInHand
<1>9. CASE LogOnly
  BY <1>9, ImmediateTail DEF LogOnly, outside, BlockInHand
<1>10. CASE ExitApp
  BY <1>10, ImmediateTail DEF ExitApp, Exit, outside, BlockInHand, Process
<1> QED
  BY <1>1, <1>2, <1>3, <1>4, <1>5, <1>6, <1>7, <1>8, <1>9, <1>10 DEF ImmediateStep

\* An empty or unchained answer keeps the types.
LEMMA NothingDownloadedType ==
  ASSUME TypeInv, NEW q \in Queue, NothingDownloaded(q)
  PROVE  /\ machine' \in State /\ immediates' \in Seq(ActionName)
         /\ store' \in Store /\ queue' \in Queue
         /\ work' \in Work /\ BlockInHand'
BY DispatchType, StoreTypes DEF NothingDownloaded, TypeInv, TypeOK, BlockInHand

\* The answers to what was awaited keep the types.
LEMMA TypeAnswerStep ==
  ASSUME TypeInv, AnswerStep
  PROVE  TypeInv'
<1> USE DEF TypeInv, TypeOK
<1>1. CASE Initialized
  <2>1. machine' \in State /\ immediates' \in Seq(ActionName)
    BY <1>1, DispatchType DEF Initialized
  <2> QED
    BY <1>1, <2>1 DEF Initialized, outside, BlockInHand, Flight
<1>2. CASE NetworkHealthChecked
  <2>1. machine' \in State /\ immediates' \in Seq(ActionName)
    BY <1>2, DispatchType DEF NetworkHealthChecked
  <2>2. store' \in Store /\ flight' \in Flight
    BY <1>2 DEF NetworkHealthChecked, Store, Flight
  <2> QED
    BY <1>2, <2>1, <2>2 DEF NetworkHealthChecked, outside, BlockInHand
<1>3. ASSUME NEW b \in Block, Downloaded(b) PROVE TypeInv'
  <2>1. flight' \in Flight
    <3>1. flight.fetches[b] - 1 \in Nat
      BY <1>3 DEF Downloaded, Flight
    <3> QED
      BY <1>3, <3>1, FetchesType DEF Downloaded
  <2>2. process' \in Process /\ timer' \in Timer /\ horizon' \in Nat /\ received' \in Nat
    BY <1>3 DEF Downloaded, outside
  <2>3. CASE UNCHANGED <<machine, immediates, store, queue, work>>
    BY <2>1, <2>2, <2>3 DEF BlockInHand
  <2>4. ASSUME NEW bs \in Segments(b), NEW chunks \in Chunkings(bs),
               SetQueue(Enqueue(queue, chunks)),
               store' = [store EXCEPT !.lastDownloaded = Last(bs)],
               Dispatch(immediates, "DOWNLOADED")
        PROVE  TypeInv'
    <3>1. bs \in Seq(Block) /\ Last(bs) \in Block
      BY SegmentsType
    <3>2. chunks \in Seq(Seq(Block))
      BY <3>1, ChunkingsType
    <3>3. queue' \in Queue /\ work' \in Work /\ BlockInHand'
      BY <2>4, <3>2, EnqueueType, SetQueueType
    <3>4. store' \in Store
      BY <2>4, <3>1 DEF Store
    <3>5. machine' \in State /\ immediates' \in Seq(ActionName)
      BY <2>4, DispatchType
    <3> QED
      BY <2>1, <2>2, <3>3, <3>4, <3>5
  <2>5. CASE NothingDownloaded(queue)
    BY <2>1, <2>2, <2>5, NothingDownloadedType
  <2>6. CASE NothingDownloaded(Clear(queue))
    BY <2>1, <2>2, <2>6, NothingDownloadedType, QueueOperatorTypes
  <2> QED
    BY <1>3, <2>3, <2>4, <2>5, <2>6 DEF Downloaded
<1> QED
  BY <1>1, <1>2, <1>3 DEF AnswerStep

\* All but the last element of a sequence.
LEMMA FrontType ==
  ASSUME NEW S, NEW s \in Seq(S), s # <<>>
  PROVE  /\ Front(s) \in Seq(S)
         /\ Len(Front(s)) = Len(s) - 1
         /\ \A i \in 1..(Len(s) - 1) : Front(s)[i] = s[i]
<1>1. Len(s) \in Nat \ {0}
  BY EmptySeq
<1>2. \A i \in 1..(Len(s) - 1) : s[i] \in S
  BY <1>1, ElementOfSeq
<1>3. 1 \in Int /\ Len(s) - 1 \in Int
  BY <1>1
<1>4. /\ SubSeq(s, 1, Len(s) - 1) \in Seq(S)
      /\ Len(SubSeq(s, 1, Len(s) - 1)) = IF 1 <= Len(s) - 1 THEN (Len(s) - 1) - 1 + 1 ELSE 0
      /\ \A i \in 1..((Len(s) - 1) - 1 + 1) : SubSeq(s, 1, Len(s) - 1)[i] = s[1 + i - 1]
  BY <1>2, <1>3, SubSeqProperties
<1>5. Len(SubSeq(s, 1, Len(s) - 1)) = Len(s) - 1
  <2>1. \A n \in Nat \ {0} : (IF 1 <= n - 1 THEN (n - 1) - 1 + 1 ELSE 0) = n - 1
    OBVIOUS
  <2> QED
    BY <1>1, <1>4, <2>1
<1>6. ASSUME NEW i \in 1..(Len(s) - 1) PROVE SubSeq(s, 1, Len(s) - 1)[i] = s[i]
  <2>1. i \in 1..((Len(s) - 1) - 1 + 1) /\ 1 + i - 1 = i
    BY <1>1
  <2> QED
    BY <1>4, <2>1
<1> QED
  BY <1>4, <1>5, <1>6 DEF Front

\* Leaving the loop over the blocks keeps the type of the running job.
LEMMA BreakType ==
  ASSUME work \in Work, NEW result, Break(result),
         result \in {"none", "Accepted", "Discarded", "Rejected", "Rollback"}
  PROVE  work' \in Work /\ BlockInHand'
BY DEF Break, Work, BlockInHand

\* What handle() does last keeps the types.
LEMMA ConcludeType ==
  ASSUME machine \in State, immediates \in Seq(ActionName), queue \in Queue,
         work \in Work, NEW s \in Store, Conclude(s)
  PROVE  /\ machine' \in State /\ immediates' \in Seq(ActionName)
         /\ store' \in Store /\ queue' \in Queue
<1>1. CASE store' = s /\ UNCHANGED <<machine, immediates, queue>>
  BY <1>1
<1>2. CASE /\ store' = ResetLastDownloaded([s EXCEPT !.forkedBlock = work.fork])
           /\ queue' = Clear(Pause(queue))
           /\ Dispatch(immediates, "FORK")
  <2>1. [s EXCEPT !.forkedBlock = work.fork] \in Store
    BY DEF Store, Work
  <2> QED
    BY <1>2, <2>1, StoreTypes, QueueOperatorTypes, DispatchType
<1>3. CASE /\ store' = ResetLastDownloaded(s)
           /\ queue' = Clear(queue)
           /\ UNCHANGED <<machine, immediates>>
  BY <1>3, StoreTypes, QueueOperatorTypes
<1> QED
  BY <1>1, <1>2, <1>3 DEF Conclude

\* The steps of the running job keep the types.
LEMMA TypeJobStep ==
  ASSUME TypeInv, JobStep
  PROVE  TypeInv'
<1> USE DEF TypeInv, TypeOK
<1>1. CASE Interrupted
  <2>1. work' \in Work /\ BlockInHand'
    BY <1>1, BreakType DEF Interrupted, Work
  <2> QED
    BY <1>1, <2>1 DEF Interrupted, outside
<1>2. ASSUME NEW b \in Block, Refused(b) PROVE TypeInv'
  <2>1. work' \in Work /\ BlockInHand'
    BY <1>2, BreakType DEF Refused
  <2> QED
    BY <1>2, <2>1, StoreTypes DEF Refused, outside
<1>3. ASSUME NEW b \in Block, Unchained(b) PROVE TypeInv'
  <2>1. PICK result \in UnchainedResults(b) :
          /\ work' = [work EXCEPT !.phase = "save", !.last = result,
                                  !.fork = IF result = "Rollback" THEN b ELSE NoBlock]
          /\ store' = [store EXCEPT !.lastDownloaded = IF result = "Rollback" THEN b
                                                       ELSE store.lastBlock]
    BY <1>3 DEF Unchained
  <2>2. result \in {"Rejected", "Discarded", "Rollback"}
    BY <2>1 DEF UnchainedResults
  <2>3. work' \in Work /\ BlockInHand'
    BY <2>1, <2>2 DEF Work, BlockInHand
  <2>4. store' \in Store
    BY <2>1 DEF Store
  <2> QED
    BY <1>3, <2>3, <2>4, QueueOperatorTypes DEF Unchained, outside
<1>4. ASSUME NEW b \in Block, ApplyBlock(b) PROVE TypeInv'
  <2>1. SetLastBlock(store, b) \in Store
    BY StoreTypes
  <2>2. store' \in Store
    <3>1. [SetLastBlock(store, b) EXCEPT !.forkedBlock = NoBlock] \in Store
      BY <2>1 DEF Store
    <3> QED
      BY <1>4, <2>1, <3>1, StoreTypes DEF ApplyBlock
  <2>3. work' \in Work /\ BlockInHand'
    <3>1. CASE work' = [work EXCEPT !.phase = "applied"] \/ work' = [work EXCEPT !.phase = "undo"]
      BY <1>4, <3>1 DEF ApplyBlock, Processing, Phase, Work, BlockInHand
    <3>2. CASE Break("Rejected")
      BY <3>2, BreakType
    <3> QED
      BY <1>4, <3>1, <3>2 DEF ApplyBlock
  <2> QED
    BY <1>4, <2>2, <2>3 DEF ApplyBlock, outside
<1>5. CASE FinishAccept
  <2>1. work.todo # <<>> /\ work.todo \in Seq(Block) /\ work.accepted \in Seq(Block)
    BY <1>5 DEF FinishAccept, Phase, BlockInHand, Work
  <2>2. Tail(work.todo) \in Seq(Block) /\ Len(Tail(work.todo)) = Len(work.todo) - 1
    BY <2>1, HeadTailProperties
  <2>3. Append(work.accepted, store.lastBlock) \in Seq(Block)
    BY <2>1, AppendProperties DEF Store
  <2>4. Len(work.todo) # 1 => Tail(work.todo) # <<>>
    <3>1. Len(<<>>) = 0
      BY EmptySeq
    <3>2. Len(work.todo) \in Nat
      BY <2>1, LenProperties
    <3> QED
      <4> SUFFICES ASSUME Tail(work.todo) = <<>> PROVE Len(work.todo) = 1
        OBVIOUS
      <4>1. Len(<<>>) = Len(work.todo) - 1
        BY <2>2
      <4> QED
        BY <3>1, <3>2, <4>1
  <2>5. work' \in Work /\ BlockInHand'
    BY <1>5, <2>1, <2>2, <2>3, <2>4 DEF FinishAccept, Work, BlockInHand
  <2>6. timer' \in Timer
    BY <1>5, TimerType DEF FinishAccept, Timer
  <2>7. store' \in Store
    BY <1>5, StoreTypes DEF FinishAccept
  <2> QED
    BY <1>5, <2>5, <2>6, <2>7 DEF FinishAccept, outside
<1>6. CASE Corrupted
  BY <1>6 DEF Corrupted, Exit, outside, Process, BlockInHand
<1>7. CASE UndoAccept
  <2>1. work' \in Work /\ BlockInHand'
    BY <1>7, BreakType DEF UndoAccept
  <2>2. Parent[store.lastBlock] \in Block
    BY BlockAssumption DEF Store
  <2> QED
    BY <1>7, <2>1, <2>2, StoreTypes DEF UndoAccept, RevertLastBlock, outside
<1>8. CASE SaveBlocks
  <2>1. work' \in Work /\ BlockInHand'
    BY <1>8 DEF SaveBlocks, Work, BlockInHand
  <2>2. work.accepted # <<>> => Stored(store) \in Store
    <3>1. work.accepted # <<>> => Last(work.accepted) \in Block
      BY EmptySeq, ElementOfSeq DEF Work, Last
    <3> QED
      BY <3>1, BlockAssumption DEF Stored, Store
  <2>3. /\ machine' \in State /\ immediates' \in Seq(ActionName)
        /\ store' \in Store /\ queue' \in Queue
    BY <1>8, <2>2, ConcludeType DEF SaveBlocks
  <2> QED
    BY <1>8, <2>1, <2>3 DEF SaveBlocks, outside
<1>9. CASE RevertBlock
  <2>1. Front(work.accepted) \in Seq(Block)
    BY <1>9, FrontType DEF RevertBlock, Work
  <2>2. work' \in Work /\ BlockInHand'
    BY <1>9, <2>1 DEF RevertBlock, Phase, Work, BlockInHand
  <2>3. Parent[store.lastBlock] \in Block
    BY BlockAssumption DEF Store
  <2> QED
    BY <1>9, <2>2, <2>3, StoreTypes DEF RevertBlock, RevertLastBlock, outside
<1>10. CASE BlocksReverted
  <2>1. work' \in Work /\ BlockInHand'
    BY <1>10 DEF BlocksReverted, Work, BlockInHand
  <2> QED
    BY <1>10, <2>1, QueueOperatorTypes, StoreTypes DEF BlocksReverted, outside
<1>11. CASE FinishJob
  <2>1. JobDone(queue) \in Queue
    BY QueueOperatorTypes
  <2>2. JobDone(queue).current \in Seq(Block)
    BY <2>1 DEF Queue
  <2>3. NoWork \in Work
    BY <<>> \in Seq(Block) DEF NoWork, Work
  <2>4. work' \in Work /\ BlockInHand'
    BY <1>11, <2>2, <2>3, NewWorkType DEF FinishJob, NoWork, BlockInHand
  <2>5. machine' \in State /\ immediates' \in Seq(ActionName)
    BY <1>11, DispatchType DEF FinishJob
  <2> QED
    BY <1>11, <2>1, <2>4, <2>5 DEF FinishJob, outside
<1> QED
  BY <1>1, <1>2, <1>3, <1>4, <1>5, <1>6, <1>7, <1>8, <1>9, <1>10, <1>11 DEF JobStep

\* Every step keeps the types.
LEMMA TypeNext ==
  ASSUME TypeInv, [Next]_vars
  PROVE  TypeInv'
<1>1. CASE Next
  BY <1>1, TypeServiceStep, TypeImmediateStep, TypeAnswerStep, TypeJobStep DEF Next
<1>2. CASE UNCHANGED vars
  BY <1>2 DEF vars, TypeInv, TypeOK, BlockInHand
<1> QED
  BY <1>1, <1>2

(***************************************************************************)
(* Type correctness: whatever the blocks, faults and bounds, every         *)
(* variable keeps its type; one wake-up timer at most is alive and the     *)
(* handle tells whether one is.                                            *)
(***************************************************************************)
THEOREM TypeCorrect == Spec => []TypeOK
<1>1. TypeInv => TypeOK
  BY DEF TypeInv
<1> QED
  BY <1>1, TypeInit, TypeNext, PTL DEF Spec

-----------------------------------------------------------------------------
(* What the queue's operators leave *)

Handed(q) == q.started /\ q.jobs # <<>> => q.busy

\* No operator strands a job, and one that may start the loop does.
LEMMA HandedOver ==
  ASSUME NEW q \in Queue
  PROVE  /\ Handed(ProcessJobs(q))
         /\ \A chunks \in Seq(Seq(Block)) : Handed(Enqueue(q, chunks))
         /\ Handed(Clear(q)) /\ Handed(Clear(Pause(q))) /\ Handed(Stop(q))
         /\ Handed(JobDone(q))
<1>1. \A p \in Queue : Handed(ProcessJobs(p))
  BY DEF Handed, ProcessJobs, Queue
<1>2. ASSUME NEW chunks \in Seq(Seq(Block)) PROVE Handed(Enqueue(q, chunks))
  <2>1. q.jobs \o chunks \in Seq(Seq(Block))
    BY ConcatProperties DEF Queue
  <2>2. [q EXCEPT !.jobs = q.jobs \o chunks, !.started = TRUE] \in Queue
    BY <2>1 DEF Queue
  <2> QED
    BY <1>1, <2>2 DEF Enqueue
<1>3. \A p \in Queue : Handed(Clear(p))
  BY DEF Handed, Clear, Queue
<1>4. Handed(Clear(Pause(q))) /\ Handed(Stop(q))
  BY <1>3, QueueOperatorTypes DEF Stop
<1>5. [q EXCEPT !.busy = FALSE] \in Queue
  BY DEF Queue
<1> QED
  BY <1>1, <1>2, <1>3, <1>4, <1>5 DEF JobDone

\* enqueueBlocks leaves a queue that runs and will go on.
LEMMA EnqueueServes ==
  ASSUME NEW q \in Queue, NEW chunks \in Seq(Seq(Block)), chunks # <<>> \/ q.busy
  PROVE  Enqueue(q, chunks).busy /\ Enqueue(q, chunks).started
<1> DEFINE p == [q EXCEPT !.jobs = q.jobs \o chunks, !.started = TRUE]
<1>1. chunks # <<>> => q.jobs \o chunks # <<>>
  BY ConcatSimplifications DEF Queue
<1>2. p.started /\ p.busy = q.busy /\ p.jobs = q.jobs \o chunks
  BY DEF Queue
<1>3. q.jobs \o chunks \in Seq(Seq(Block))
  BY ConcatProperties DEF Queue
<1>4. p \in Queue
  BY <1>3 DEF Queue
<1> HIDE DEF p
<1>5. ProcessJobs(p).busy /\ ProcessJobs(p).started
  BY <1>1, <1>2, <1>4 DEF ProcessJobs, Queue
<1> QED
  BY <1>5 DEF Enqueue, p

\* clear() does not stop the loop.
LEMMA ClearServes ==
  ASSUME NEW q \in Queue
  PROVE  Clear(q).busy = q.busy /\ Clear(q).started = q.started
BY DEF Clear, Queue

\* The loop goes on to the next job, or no job is left.
LEMMA JobDoneServes ==
  ASSUME NEW q \in Queue, q.started
  PROVE  JobDone(q).started /\ (JobDone(q).busy \/ Drains(JobDone(q)))
<1> DEFINE p == [q EXCEPT !.busy = FALSE]
<1>1. p \in Queue /\ p.started /\ ~p.busy
  BY DEF Queue
<1> HIDE DEF p
<1>2. ProcessJobs(p).started /\ (ProcessJobs(p).busy \/ Drains(ProcessJobs(p)))
  BY <1>1 DEF ProcessJobs, Drains, Queue
<1> QED
  BY <1>2 DEF JobDone, p

\* Entering the loop of a queue that nobody awaits, or that runs already.
LEMMA EnterLoop ==
  ASSUME NEW q \in Queue, q.busy \/ ~q.awaited
  PROVE  /\ q.busy => ProcessJobs(q) = q
         /\ ~q.busy /\ q.started /\ q.jobs # <<>> =>
              ProcessJobs(q) = [q EXCEPT !.busy = TRUE, !.current = Head(q.jobs),
                                         !.jobs = Tail(q.jobs)]
         /\ ~q.started => ProcessJobs(q) = q
BY DEF ProcessJobs, Queue

(***************************************************************************)
(* enqueueBlocks pushes and resumes for every chunk (blockchain.ts); the   *)
(* model adds all chunks at once.  It is the same: one chunk is one push   *)
(* and one resume, and one more chunk is one more of each.                 *)
(***************************************************************************)
THEOREM EnqueueByChunk ==
  ASSUME NEW q \in Queue, q.busy \/ ~q.awaited, NEW chunk \in Seq(Block)
  PROVE  /\ Enqueue(q, <<chunk>>) = Resume(Push(q, chunk))
         /\ \A chunks \in Seq(Seq(Block)) : chunks # <<>> =>
              Enqueue(q, Append(chunks, chunk))
                = Resume(Push(Enqueue(q, chunks), chunk))
<1>1. \A p \in Queue : Append(p.jobs, chunk) = p.jobs \o <<chunk>>
  BY AppendIsConcat DEF Queue
<1>2. \A p \in Queue : Append(p.jobs, chunk) \in Seq(Seq(Block))
                       /\ Append(p.jobs, chunk) # <<>>
  BY AppendProperties DEF Queue
<1>3. Enqueue(q, <<chunk>>) = Resume(Push(q, chunk))
  <2> DEFINE p == [q EXCEPT !.jobs = Append(q.jobs, chunk)]
             r == [p EXCEPT !.started = TRUE]
  <2>1. p \in Queue /\ r \in Queue
    BY <1>2 DEF Queue
  <2>2. /\ p.busy = q.busy /\ p.awaited = q.awaited /\ p.started = q.started
        /\ r.busy = q.busy /\ r.awaited = q.awaited /\ r.started = TRUE
        /\ p.jobs = Append(q.jobs, chunk) /\ p.jobs # <<>> /\ r.jobs = p.jobs
    BY <1>2 DEF Queue
  <2>3. Enqueue(q, <<chunk>>) = ProcessJobs(r)
    <3>1. r = [q EXCEPT !.jobs = q.jobs \o <<chunk>>, !.started = TRUE]
      BY <1>1 DEF Queue
    <3> QED
      BY <3>1 DEF Enqueue
  <2>4. Push(q, chunk) = ProcessJobs(p)
    BY DEF Push
  <2> HIDE DEF p
  <2>5. CASE q.busy \/ ~q.started
    <3>1. ProcessJobs(p) = p
      BY <2>1, <2>2, <2>5, EnterLoop
    <3> QED
      BY <2>3, <2>4, <3>1 DEF Resume
  <2>6. CASE ~q.busy /\ q.started
    <3>1. r = p
      BY <2>1, <2>2, <2>6 DEF Queue
    <3>2. ProcessJobs(p).busy /\ ProcessJobs(p).started = TRUE
          /\ ProcessJobs(p) \in Queue
      BY <2>1, <2>2, <2>6, ProcessJobsType DEF ProcessJobs, Queue
    <3>3. [ProcessJobs(p) EXCEPT !.started = TRUE] = ProcessJobs(p)
      BY <3>2 DEF Queue
    <3>4. ProcessJobs(ProcessJobs(p)) = ProcessJobs(p)
      BY <3>2, EnterLoop
    <3> QED
      BY <2>3, <2>4, <3>1, <3>3, <3>4 DEF Resume
  <2> QED
    BY <2>5, <2>6 DEF Queue
<1>4. ASSUME NEW chunks \in Seq(Seq(Block)), chunks # <<>>
      PROVE  Enqueue(q, Append(chunks, chunk))
               = Resume(Push(Enqueue(q, chunks), chunk))
  <2> DEFINE J == q.jobs \o chunks
             more == q.jobs \o Append(chunks, chunk)
             p == [q EXCEPT !.jobs = J, !.started = TRUE]
             r == [q EXCEPT !.jobs = more, !.started = TRUE]
             e == ProcessJobs(p)
  <2>1. J \in Seq(Seq(Block)) /\ J # <<>>
    BY <1>4, ConcatProperties, ConcatSimplifications DEF Queue
  <2>2. more = Append(J, chunk)
    <3>1. Append(chunks, chunk) = chunks \o <<chunk>> /\ <<chunk>> \in Seq(Seq(Block))
      BY AppendIsConcat
    <3>2. Append(J, chunk) = J \o <<chunk>>
      BY <2>1, AppendIsConcat
    <3> HIDE DEF J
    <3>3. q.jobs \o (chunks \o <<chunk>>) = (q.jobs \o chunks) \o <<chunk>>
      BY <3>1, ConcatAssociative DEF Queue
    <3> QED
      BY <3>1, <3>2, <3>3 DEF J
  <2> HIDE DEF J, more
  <2>3. /\ more \in Seq(Seq(Block)) /\ more # <<>>
        /\ Head(more) = Head(J) /\ Tail(more) = Append(Tail(J), chunk)
    <3>1. more \in Seq(Seq(Block)) /\ more # <<>>
      BY <2>1, <2>2, AppendProperties
    <3>2. Head(more) = Head(J) /\ Tail(more) = Append(Tail(J), chunk)
      BY <2>1, <2>2, HeadTailAppend
    <3> QED
      BY <3>1, <3>2
  <2>4. /\ p \in Queue /\ p.started = TRUE /\ p.busy = q.busy
        /\ p.awaited = q.awaited /\ p.jobs = J
    BY <2>1 DEF Queue
  <2>5. /\ r \in Queue /\ r.started = TRUE /\ r.busy = q.busy
        /\ r.awaited = q.awaited /\ r.jobs = more
    BY <2>3 DEF Queue
  <2>6. e \in Queue /\ e.busy = TRUE /\ e.started = TRUE
    BY <2>1, <2>4, ProcessJobsType DEF ProcessJobs, Queue
  <2>7. ProcessJobs(r) = [e EXCEPT !.jobs = Append(e.jobs, chunk)]
    <3>1. CASE q.busy
      <4>1. e = p /\ ProcessJobs(r) = r
        BY <2>4, <2>5, <3>1, EnterLoop
      <4>2. r = [p EXCEPT !.jobs = Append(p.jobs, chunk)]
        BY <2>2, <2>4 DEF Queue
      <4> QED
        BY <4>1, <4>2
    <3>2. CASE ~q.busy
      <4>1. e = [p EXCEPT !.busy = TRUE, !.current = Head(J), !.jobs = Tail(J)]
        BY <2>1, <2>4, <3>2, EnterLoop
      <4>2. ProcessJobs(r)
              = [r EXCEPT !.busy = TRUE, !.current = Head(more), !.jobs = Tail(more)]
        BY <2>3, <2>5, <3>2, EnterLoop
      <4> QED
        BY <2>3, <4>1, <4>2 DEF Queue
    <3> QED
      BY <3>1, <3>2 DEF Queue
  <2> DEFINE f == [e EXCEPT !.jobs = Append(e.jobs, chunk)]
  <2> HIDE DEF e
  <2>8. f \in Queue /\ f.busy = TRUE /\ f.started = TRUE
    BY <1>2, <2>6 DEF Queue
  <2>9. ProcessJobs(f) = f /\ [f EXCEPT !.started = TRUE] = f
    BY <2>8, EnterLoop DEF Queue
  <2>10. Resume(Push(e, chunk)) = f
    BY <2>9 DEF Resume, Push
  <2> QED
    BY <2>7, <2>10 DEF Enqueue, e, p, r, J, more
<1> QED
  BY <1>3, <1>4

-----------------------------------------------------------------------------
(* No job is stranded *)

\* What any step can do to the queue.
LEMMA QueueMoves ==
  ASSUME TypeInv, [Next]_vars
  PROVE  \/ queue' = queue
         \/ \E chunks \in Seq(Seq(Block)) : queue' = Enqueue(queue, chunks)
         \/ queue' \in {Clear(queue), Clear(Pause(queue)), Stop(queue), JobDone(queue)}
<1>1. CASE ServiceStep
  <2>1. ASSUME NEW b \in Block, HandleIncomingBlock(b)
        PROVE  \E chunks \in Seq(Seq(Block)) : queue' = Enqueue(queue, chunks)
    <3>1. PICK chunks \in Chunkings(<<b>>) : SetQueue(Enqueue(queue, chunks))
      BY <2>1 DEF HandleIncomingBlock
    <3>2. chunks \in Seq(Seq(Block))
      BY <<b>> \in Seq(Block), ChunkingsType
    <3> QED
      BY <3>1, <3>2 DEF SetQueue
  <2>2. Dispose => queue' = Stop(queue)
    BY DEF Dispose, SetQueue
  <2> QED
    BY <1>1, <2>1, <2>2 DEF ServiceStep, Boot, BootFinished, Tick, WakeUp, ForceWakeup,
       CheckMissingBlocks, MissingBlocksChecked
<1>2. CASE ImmediateStep
  BY <1>2 DEF ImmediateStep, Initialize, CheckLater, BlockchainReady,
     CheckLastDownloadedBlockSynced, DownloadBlocks, DownloadFinished,
     CheckLastBlockSynced, SyncingComplete, LogOnly, ExitApp, Exit
<1>3. CASE AnswerStep
  <2>1. ASSUME NEW b \in Block, Downloaded(b)
        PROVE  \/ queue' \in {queue, Clear(queue)}
               \/ \E chunks \in Seq(Seq(Block)) : queue' = Enqueue(queue, chunks)
    <3>1. ASSUME NEW bs \in Segments(b), NEW chunks \in Chunkings(bs),
                 SetQueue(Enqueue(queue, chunks))
          PROVE  \E cs \in Seq(Seq(Block)) : queue' = Enqueue(queue, cs)
      <4>1. chunks \in Seq(Seq(Block))
        BY SegmentsType, ChunkingsType
      <4> QED
        BY <3>1, <4>1 DEF SetQueue
    <3> QED
      BY <2>1, <3>1 DEF Downloaded, NothingDownloaded
  <2> QED
    BY <1>3, <2>1 DEF AnswerStep, Initialized, NetworkHealthChecked
<1>4. CASE JobStep
  BY <1>4 DEF JobStep, Interrupted, Refused, Unchained, ApplyBlock, FinishAccept,
     Corrupted, Exit, UndoAccept, SaveBlocks, Conclude, RevertBlock, BlocksReverted, FinishJob
<1> QED
  BY <1>1, <1>2, <1>3, <1>4 DEF Next, vars

(***************************************************************************)
(* No job is stranded, for any blocks, faults and bounds.                  *)
(***************************************************************************)
THEOREM NothingStranded == Spec => []NoJobStranded
<1> DEFINE Inv == TypeInv /\ NoJobStranded
<1>1. Init => Inv
  BY TypeInit DEF Init, EmptyQueue, NoJobStranded
<1>2. Inv /\ [Next]_vars => Inv'
  <2> SUFFICES ASSUME Inv, [Next]_vars PROVE Inv'
    OBVIOUS
  <2>1. queue \in Queue
    BY DEF TypeInv, TypeOK
  <2>2. Handed(queue')
    BY <2>1, QueueMoves, HandedOver DEF NoJobStranded, Handed
  <2> QED
    BY <2>2, TypeNext DEF NoJobStranded, Handed
<1> QED
  BY <1>1, <1>2, PTL DEF Spec

\* Whoever awaits the end of the loop awaits a loop that runs, which is what
\* EnqueueByChunk assumes of the queue.
AwaitsLoop == queue.busy \/ ~queue.awaited

LEMMA AwaitedRuns == Spec => []AwaitsLoop
<1>1. Init => AwaitsLoop
  BY DEF Init, EmptyQueue, AwaitsLoop
<1>2. TypeInv /\ AwaitsLoop /\ [Next]_vars => AwaitsLoop'
  <2> DEFINE Fine(q) == q.busy \/ ~q.awaited
  <2> SUFFICES ASSUME TypeInv, Fine(queue), [Next]_vars PROVE Fine(queue')
    BY DEF AwaitsLoop
  <2>1. queue \in Queue
    BY DEF TypeInv, TypeOK
  <2>2. \A q \in Queue : ~q.busy => Fine(ProcessJobs(q))
    BY DEF ProcessJobs, Queue
  <2>3. \A q \in Queue : Fine(q) => Fine(ProcessJobs(q))
    BY DEF ProcessJobs, Queue
  <2>4. Fine(Clear(queue)) /\ Fine(Clear(Pause(queue))) /\ Fine(Stop(queue))
    BY <2>1 DEF Clear, Pause, Stop, Queue
  <2>5. Fine(JobDone(queue))
    <3>1. [queue EXCEPT !.busy = FALSE] \in Queue
          /\ ~[queue EXCEPT !.busy = FALSE].busy
      BY <2>1 DEF Queue
    <3> QED
      BY <2>2, <3>1 DEF JobDone
  <2>6. ASSUME NEW chunks \in Seq(Seq(Block)) PROVE Fine(Enqueue(queue, chunks))
    <3> DEFINE q == [queue EXCEPT !.jobs = queue.jobs \o chunks, !.started = TRUE]
    <3>1. queue.jobs \o chunks \in Seq(Seq(Block))
      BY <2>1, ConcatProperties DEF Queue
    <3>2. q \in Queue /\ Fine(q)
      BY <2>1, <3>1 DEF Queue
    <3> HIDE DEF q
    <3>3. Fine(ProcessJobs(q))
      BY <2>3, <3>2
    <3> QED
      BY <3>3 DEF Enqueue, q
  <2> QED
    BY <2>4, <2>5, <2>6, QueueMoves
<1> QED
  BY <1>1, <1>2, TypeInit, TypeNext, PTL DEF Spec

-----------------------------------------------------------------------------
(* A machine in "newBlock" is served *)

\* Only NEWBLOCK leads to "newBlock"; three events leave it.
LEMMA IntoNewBlock ==
  ASSUME NEW s \in State, NEW e, Target(s, e) = "newBlock"
  PROVE  e = "NEWBLOCK" \/ (s = "newBlock" /\ e \notin {"STOP", "FORK", "PROCESSFINISHED"})
BY DEF Target, State, SyncState

\* A dispatch of another event while the queue stays served.
LEMMA ServedDispatch ==
  ASSUME TypeInv, NewBlockServed, NEW queued, NEW e, Dispatch(queued, e), e # "NEWBLOCK",
         \/ queue' \in {queue, Clear(queue)}
         \/ \E chunks \in Seq(Seq(Block)) : queue' = Enqueue(queue, chunks)
         \/ e \in {"STOP", "FORK", "PROCESSFINISHED"}
  PROVE  NewBlockServed'
<1>1. queue \in Queue /\ machine \in State
  BY DEF TypeInv, TypeOK
<1> SUFFICES ASSUME machine' = "newBlock" PROVE queue'.busy /\ queue'.started
  BY DEF NewBlockServed
<1>2. machine = "newBlock" /\ e \notin {"STOP", "FORK", "PROCESSFINISHED"}
  BY <1>1, IntoNewBlock DEF Dispatch
<1>3. queue.busy /\ queue.started
  BY <1>2 DEF NewBlockServed
<1> QED
  BY <1>1, <1>2, <1>3, ClearServes, EnqueueServes

\* A step that leaves the machine where it is and the queue served.
LEMMA ServedStay ==
  ASSUME TypeInv, NewBlockServed, machine' = machine, queue' \in {queue, Clear(queue)}
  PROVE  NewBlockServed'
BY ClearServes DEF TypeInv, TypeOK, NewBlockServed

LEMMA ServedServiceStep ==
  ASSUME TypeInv, NewBlockServed, ServiceStep
  PROVE  NewBlockServed'
<1>1. CASE Boot \/ BootFinished \/ Tick \/ WakeUp \/ ForceWakeup \/ CheckMissingBlocks
           \/ MissingBlocksChecked
  BY <1>1, ServedDispatch, ServedStay DEF Boot, BootFinished, Tick, WakeUp, ForceWakeup,
     CheckMissingBlocks, MissingBlocksChecked
<1>2. CASE Dispose
  BY <1>2, ServedDispatch DEF Dispose
<1>3. ASSUME NEW b \in Block, HandleIncomingBlock(b) PROVE NewBlockServed'
  <2>1. PICK chunks \in Chunkings(<<b>>) : SetQueue(Enqueue(queue, chunks))
    BY <1>3 DEF HandleIncomingBlock
  <2>2. chunks \in Seq(Seq(Block)) /\ chunks # <<>>
    BY <<b>> \in Seq(Block), ChunkingsType
  <2>3. queue \in Queue
    BY DEF TypeInv, TypeOK
  <2> QED
    BY <2>1, <2>2, <2>3, EnqueueServes DEF SetQueue, NewBlockServed
<1> QED
  BY <1>1, <1>2, <1>3 DEF ServiceStep

LEMMA ServedImmediateStep ==
  ASSUME TypeInv, NewBlockServed, ImmediateStep
  PROVE  NewBlockServed'
<1>1. CASE Initialize \/ CheckLater \/ BlockchainReady \/ DownloadBlocks \/ LogOnly \/ ExitApp
  BY <1>1, ServedStay DEF Initialize, CheckLater, BlockchainReady, DownloadBlocks, LogOnly,
     ExitApp, Exit
<1>2. CASE CheckLastDownloadedBlockSynced
  BY <1>2, ServedDispatch, ServedStay DEF CheckLastDownloadedBlockSynced, CheckedEvent
<1>3. CASE DownloadFinished
  BY <1>3, ServedDispatch, ServedStay DEF DownloadFinished
<1>4. CASE CheckLastBlockSynced
  <2>1. PICK synced \in Synced(store.lastBlock) :
          Dispatch(Tail(immediates), IF synced THEN "SYNCED" ELSE "NOTSYNCED")
    BY <1>4 DEF CheckLastBlockSynced
  <2> QED
    BY <1>4, <2>1, ServedDispatch DEF CheckLastBlockSynced
<1>5. CASE SyncingComplete
  BY <1>5, ServedDispatch DEF SyncingComplete
<1> QED
  BY <1>1, <1>2, <1>3, <1>4, <1>5 DEF ImmediateStep

LEMMA ServedAnswerStep ==
  ASSUME TypeInv, NewBlockServed, AnswerStep
  PROVE  NewBlockServed'
<1>1. CASE Initialized \/ NetworkHealthChecked
  BY <1>1, ServedDispatch DEF Initialized, NetworkHealthChecked, CheckedEvent
<1>2. ASSUME NEW b \in Block, Downloaded(b) PROVE NewBlockServed'
  <2>1. ASSUME NEW bs \in Segments(b), NEW chunks \in Chunkings(bs),
               SetQueue(Enqueue(queue, chunks)), Dispatch(immediates, "DOWNLOADED")
        PROVE  NewBlockServed'
    <3>1. chunks \in Seq(Seq(Block))
      BY SegmentsType, ChunkingsType
    <3> QED
      BY <2>1, <3>1, ServedDispatch DEF SetQueue
  <2>2. CASE NothingDownloaded(queue) \/ NothingDownloaded(Clear(queue))
    BY <2>2, ServedDispatch DEF NothingDownloaded
  <2> QED
    BY <1>2, <2>1, <2>2, ServedStay DEF Downloaded
<1> QED
  BY <1>1, <1>2 DEF AnswerStep

LEMMA ServedJobStep ==
  ASSUME TypeInv, NewBlockServed, JobStep
  PROVE  NewBlockServed'
<1>1. CASE \/ Interrupted \/ FinishAccept \/ Corrupted \/ UndoAccept \/ RevertBlock
           \/ BlocksReverted \/ \E b \in Block : Refused(b) \/ Unchained(b) \/ ApplyBlock(b)
  BY <1>1, ServedStay DEF Interrupted, FinishAccept, Corrupted, Exit, UndoAccept, RevertBlock,
     BlocksReverted, Refused, Unchained, ApplyBlock
<1>2. CASE SaveBlocks
  <2>1. ASSUME NEW s, Conclude(s) PROVE NewBlockServed'
    BY <2>1, ServedStay, ServedDispatch DEF Conclude
  <2> QED
    BY <1>2, <2>1, ServedStay DEF SaveBlocks
<1>3. CASE FinishJob
  <2>1. CASE Drains(JobDone(queue))
    BY <1>3, <2>1, ServedDispatch DEF FinishJob
  <2>2. CASE ~Drains(JobDone(queue)) /\ machine = "newBlock"
    <3>1. queue \in Queue /\ queue.started
      BY <2>2 DEF TypeInv, TypeOK, NewBlockServed
    <3> QED
      BY <1>3, <2>2, <3>1, JobDoneServes DEF FinishJob, NewBlockServed
  <2>3. CASE ~Drains(JobDone(queue)) /\ machine # "newBlock"
    BY <1>3, <2>3 DEF FinishJob, NewBlockServed
  <2> QED
    BY <2>1, <2>2, <2>3
<1> QED
  BY <1>1, <1>2, <1>3 DEF JobStep

(***************************************************************************)
(* A machine in "newBlock" always has a running job on a queue that goes   *)
(* on until it drains, for any blocks, faults and bounds: only a stop, a   *)
(* fork or the drain itself can end the job's claim on the queue, and each *)
(* moves the machine on.                                                   *)
(***************************************************************************)
THEOREM NewBlockAlwaysServed == Spec => []NewBlockServed
<1> DEFINE Inv == TypeInv /\ NewBlockServed
<1>1. Init => Inv
  BY TypeInit DEF Init, NewBlockServed
<1>2. Inv /\ [Next]_vars => Inv'
  <2> SUFFICES ASSUME Inv, [Next]_vars PROVE Inv'
    OBVIOUS
  <2>1. CASE UNCHANGED vars
    BY <2>1, ServedStay, TypeNext DEF vars
  <2>2. CASE Next
    BY <2>2, TypeNext, ServedServiceStep, ServedImmediateStep, ServedAnswerStep,
       ServedJobStep DEF Next
  <2> QED
    BY <2>1, <2>2
<1> QED
  BY <1>1, <1>2, PTL DEF Spec

-----------------------------------------------------------------------------
(* An idle machine will wake up *)

QueuedIn(a, q) == \E i \in DOMAIN q : q[i] = a

CheckLaterIn(q) == QueuedIn("checkLater", q)

\* An event that enters "idle" queues checkLater; four events leave it.
LEMMA IntoIdle ==
  ASSUME NEW s \in State, NEW e, Target(s, e) = "idle"
  PROVE  \/ Entered(s, e) = <<"checkLater", "blockchainReady">>
         \/ s = "idle" /\ e \notin {"STOP", "FORK", "NEWBLOCK", "WAKEUP"} /\ Entered(s, e) = <<>>
BY DEF Target, State, SyncState, Entered, OnEntry

\* Queueing further callbacks keeps those that are queued.
LEMMA QueuedStays ==
  ASSUME NEW q \in Seq(ActionName), NEW r \in Seq(ActionName), NEW a,
         QueuedIn(a, q) \/ QueuedIn(a, r)
  PROVE  QueuedIn(a, q \o r)
<1>1. /\ Len(q \o r) = Len(q) + Len(r) /\ q \o r \in Seq(ActionName)
      /\ Len(q) \in Nat /\ Len(r) \in Nat
      /\ DOMAIN q = 1..Len(q) /\ DOMAIN r = 1..Len(r) /\ DOMAIN (q \o r) = 1..Len(q \o r)
  BY ConcatProperties, LenProperties
<1>2. \A i \in 1..(Len(q) + Len(r)) :
        (q \o r)[i] = IF i <= Len(q) THEN q[i] ELSE r[i - Len(q)]
  BY ConcatProperties
<1>3. ASSUME NEW i \in DOMAIN q, q[i] = a PROVE QueuedIn(a, q \o r)
  <2>1. i \in 1..(Len(q) + Len(r)) /\ i <= Len(q)
    BY <1>1
  <2>2. (q \o r)[i] = a
    BY <1>2, <1>3, <2>1
  <2> QED
    BY <1>1, <2>1, <2>2 DEF QueuedIn
<1>4. ASSUME NEW i \in DOMAIN r, r[i] = a PROVE QueuedIn(a, q \o r)
  <2>1. /\ i + Len(q) \in 1..(Len(q) + Len(r)) /\ ~(i + Len(q) <= Len(q))
        /\ (i + Len(q)) - Len(q) = i
    BY <1>1
  <2>2. (q \o r)[i + Len(q)] = a
    BY <1>2, <1>4, <2>1
  <2> QED
    BY <1>1, <2>1, <2>2 DEF QueuedIn
<1> QED
  BY <1>3, <1>4 DEF QueuedIn

\* Running another callback leaves it queued.
LEMMA QueuedWaits ==
  ASSUME immediates \in Seq(ActionName), NEW a, QueuedIn(a, immediates),
         NEW b, Immediate(b), b # a
  PROVE  QueuedIn(a, Tail(immediates))
<1>1. PICK i \in DOMAIN immediates : immediates[i] = a
  BY DEF QueuedIn
<1>2. immediates # <<>> /\ Head(immediates) = immediates[1]
  BY DEF Immediate
<1>3. i \in 1..Len(immediates) /\ i # 1 /\ Len(immediates) \in Nat
  BY <1>1, <1>2, LenProperties DEF Immediate
<1>4. /\ Len(Tail(immediates)) = Len(immediates) - 1
      /\ \A j \in 1..Len(Tail(immediates)) : Tail(immediates)[j] = immediates[j + 1]
      /\ Tail(immediates) \in Seq(ActionName)
  BY <1>2, HeadTailProperties
<1>5. i - 1 \in 1..Len(Tail(immediates)) /\ (i - 1) + 1 = i
  BY <1>3, <1>4
<1>6. Tail(immediates)[i - 1] = a
  BY <1>1, <1>4, <1>5
<1>7. i - 1 \in DOMAIN Tail(immediates)
  BY <1>4, <1>5, LenProperties
<1> QED
  BY <1>6, <1>7 DEF QueuedIn

Armed == WakeUpArmed /\ StoppedForGood

\* A dispatch that leaves the timer alone, or leaves "idle".
LEMMA ArmedDispatch ==
  ASSUME TypeInv, Armed, NEW queued \in Seq(ActionName), NEW e, Dispatch(queued, e),
         CheckLaterIn(immediates) => CheckLaterIn(queued),
         timer' = timer \/ e = "WAKEUP" \/ e = "STOP",
         process'.stopped = process.stopped \/ e = "STOP"
  PROVE  Armed'
<1>1. machine \in State
  BY DEF TypeInv, TypeOK
<1>2. WakeUpArmed'
  <2> SUFFICES ASSUME machine' = "idle"
               PROVE  timer'.live = 1 \/ CheckLaterIn(immediates')
    BY DEF WakeUpArmed, Queued, CheckLaterIn, QueuedIn
  <2>1. CASE Entered(machine, e) = <<"checkLater", "blockchainReady">>
    <3>1. <<"checkLater", "blockchainReady">> \in Seq(ActionName)
      BY DEF ActionName
    <3>2. CheckLaterIn(<<"checkLater", "blockchainReady">>)
      BY DEF CheckLaterIn, QueuedIn
    <3> QED
      BY <2>1, <3>1, <3>2, QueuedStays DEF CheckLaterIn, Dispatch
  <2>2. CASE machine = "idle" /\ e \notin {"STOP", "WAKEUP"} /\ Entered(machine, e) = <<>>
    <3>1. immediates' = queued
      BY <2>2, ConcatEmptySeq DEF Dispatch
    <3> QED
      BY <2>2, <3>1 DEF Armed, WakeUpArmed, Queued, CheckLaterIn, QueuedIn
  <2> QED
    BY <1>1, <2>1, <2>2, IntoIdle DEF Dispatch
<1>3. StoppedForGood'
  BY <1>1 DEF Armed, StoppedForGood, Dispatch, Target, State, SyncState
<1> QED
  BY <1>2, <1>3 DEF Armed

\* A step that neither dispatches nor runs checkLater.
LEMMA ArmedStay ==
  ASSUME Armed, machine' = machine, process'.stopped = process.stopped,
         timer' = timer \/ timer'.live = 1,
         CheckLaterIn(immediates) => CheckLaterIn(immediates')
  PROVE  Armed'
BY DEF Armed, WakeUpArmed, StoppedForGood, Queued, CheckLaterIn, QueuedIn

LEMMA ArmedServiceStep ==
  ASSUME TypeInv, Armed, ServiceStep
  PROVE  Armed'
<1> USE DEF TypeInv, TypeOK
<1>1. CASE Boot \/ WakeUp \/ ForceWakeup
  BY <1>1, ArmedDispatch DEF Boot, WakeUp, ForceWakeup
<1>2. CASE BootFinished \/ Tick \/ CheckMissingBlocks
  BY <1>2, ArmedStay DEF BootFinished, Tick, CheckMissingBlocks, Process
<1>3. CASE Dispose
  BY <1>3, ArmedDispatch DEF Dispose
<1>4. CASE MissingBlocksChecked
  BY <1>4, ArmedDispatch, ArmedStay DEF MissingBlocksChecked
<1>5. ASSUME NEW b \in Block, HandleIncomingBlock(b) PROVE Armed'
  BY <1>5, ArmedDispatch DEF HandleIncomingBlock
<1> QED
  BY <1>1, <1>2, <1>3, <1>4, <1>5 DEF ServiceStep

LEMMA ArmedImmediateStep ==
  ASSUME TypeInv, Armed, ImmediateStep
  PROVE  Armed'
<1> USE DEF TypeInv, TypeOK
<1>1. ASSUME NEW a, Immediate(a), a # "checkLater"
      PROVE  /\ Tail(immediates) \in Seq(ActionName)
             /\ CheckLaterIn(immediates) => CheckLaterIn(Tail(immediates))
  BY <1>1, ImmediateTail, QueuedWaits DEF CheckLaterIn
<1>2. CASE Initialize \/ BlockchainReady \/ DownloadBlocks \/ LogOnly
  BY <1>1, <1>2, ArmedStay DEF Initialize, BlockchainReady, DownloadBlocks, LogOnly
<1>3. CASE ExitApp
  BY <1>1, <1>3, ArmedStay DEF ExitApp, Exit, Process
<1>4. CASE CheckLater
  <2>1. process.stopped => machine # "idle"
    BY DEF Armed, StoppedForGood
  <2>2. ~process.stopped => timer'.live = 1
    <3>1. timer.handle => timer.live = 1
      BY DEF Timer
    <3>2. ~timer.handle => SetWakeUp(timer).live = 1
      BY TimerType
    <3> QED
      BY <1>4, <3>1, <3>2 DEF CheckLater
  <2> QED
    BY <1>4, <2>1, <2>2 DEF CheckLater, Armed, WakeUpArmed, StoppedForGood
<1>5. CASE CheckLastDownloadedBlockSynced
  BY <1>1, <1>5, ArmedDispatch, ArmedStay DEF CheckLastDownloadedBlockSynced
<1>6. CASE DownloadFinished
  BY <1>1, <1>6, ArmedDispatch, ArmedStay DEF DownloadFinished
<1>7. CASE CheckLastBlockSynced
  BY <1>1, <1>7, ArmedDispatch DEF CheckLastBlockSynced
<1>8. CASE SyncingComplete
  BY <1>1, <1>8, ArmedDispatch DEF SyncingComplete
<1> QED
  BY <1>2, <1>3, <1>4, <1>5, <1>6, <1>7, <1>8 DEF ImmediateStep

LEMMA ArmedAnswerStep ==
  ASSUME TypeInv, Armed, AnswerStep
  PROVE  Armed'
<1> USE DEF TypeInv, TypeOK
<1>1. CASE Initialized \/ NetworkHealthChecked
  BY <1>1, ArmedDispatch DEF Initialized, NetworkHealthChecked
<1>2. ASSUME NEW b \in Block, Downloaded(b) PROVE Armed'
  BY <1>2, ArmedDispatch, ArmedStay DEF Downloaded, NothingDownloaded
<1> QED
  BY <1>1, <1>2 DEF AnswerStep

LEMMA ArmedJobStep ==
  ASSUME TypeInv, Armed, JobStep
  PROVE  Armed'
<1> USE DEF TypeInv, TypeOK
<1>1. CASE \/ Interrupted \/ UndoAccept \/ RevertBlock \/ BlocksReverted
           \/ \E b \in Block : Refused(b) \/ Unchained(b) \/ ApplyBlock(b)
  BY <1>1, ArmedStay DEF Interrupted, UndoAccept, RevertBlock, BlocksReverted, Refused,
     Unchained, ApplyBlock
<1>2. CASE FinishAccept
  BY <1>2, TimerType, ArmedStay DEF FinishAccept
<1>3. CASE Corrupted
  BY <1>3, ArmedStay DEF Corrupted, Exit, Process
<1>4. CASE SaveBlocks
  <2>1. ASSUME NEW s, Conclude(s), UNCHANGED <<process, timer>> PROVE Armed'
    BY <2>1, ArmedDispatch, ArmedStay DEF Conclude
  <2> QED
    BY <1>4, <2>1, ArmedStay DEF SaveBlocks
<1>5. CASE FinishJob
  BY <1>5, ArmedDispatch, ArmedStay DEF FinishJob
<1> QED
  BY <1>1, <1>2, <1>3, <1>4, <1>5 DEF JobStep

LEMMA ArmedAlways == Spec => [](TypeInv /\ Armed)
<1> DEFINE Inv == TypeInv /\ Armed
<1>1. Init => Inv
  BY TypeInit DEF Init, Armed, WakeUpArmed, StoppedForGood
<1>2. Inv /\ [Next]_vars => Inv'
  <2> SUFFICES ASSUME Inv, [Next]_vars PROVE Inv'
    OBVIOUS
  <2>1. CASE UNCHANGED vars
    BY <2>1, ArmedStay, TypeNext DEF vars
  <2>2. CASE Next
    BY <2>2, TypeNext, ArmedServiceStep, ArmedImmediateStep, ArmedAnswerStep,
       ArmedJobStep DEF Next
  <2> QED
    BY <2>1, <2>2
<1> QED
  BY <1>1, <1>2, PTL DEF Spec

(***************************************************************************)
(* An idle machine always has a timer that will wake it up, or is about to *)
(* set one: no order of timers, blocks, forced wake-ups and stops loses    *)
(* the wake-up.  checkLater sets none once the service is stopped, so the  *)
(* invariant needs that a stopped service never is idle again.             *)
(***************************************************************************)
THEOREM IdleArmed == Spec => []WakeUpArmed
<1>1. TypeInv /\ Armed => WakeUpArmed
  BY DEF Armed
<1> QED
  BY <1>1, ArmedAlways, PTL

-----------------------------------------------------------------------------
(* A job is under way exactly while the queue's loop runs *)

BusyWorking == work.phase # "none" <=> queue.busy

\* Giving the queue a value whose loop still runs, or just began.
LEMMA BusySetQueue ==
  ASSUME TypeInv, BusyWorking, NEW q \in Queue, queue.busy => q.busy, SetQueue(q)
  PROVE  BusyWorking'
<1>1. q.current \in Seq(Block)
  BY DEF Queue
<1>2. NewWork(q.current).phase # "none"
  BY <1>1, NewWorkType
<1> QED
  BY <1>2 DEF SetQueue, BusyWorking

\* Steps of the queue that do not end the loop.
LEMMA BusyKept ==
  ASSUME NEW q \in Queue
  PROVE  /\ \A chunks \in Seq(Seq(Block)) : q.busy => Enqueue(q, chunks).busy
         /\ Clear(q).busy = q.busy /\ Pause(q).busy = q.busy
         /\ Clear(Pause(q)).busy = q.busy /\ Stop(q).busy = q.busy
<1>1. \A p \in Queue : Clear(p).busy = p.busy
  BY DEF Clear, Queue
<1>2. Pause(q) \in Queue /\ Pause(q).busy = q.busy
  BY QueueOperatorTypes DEF Pause, Queue
<1>3. \A chunks \in Seq(Seq(Block)) : q.busy => Enqueue(q, chunks).busy
  BY DEF Enqueue, ProcessJobs, Queue
<1> QED
  BY <1>1, <1>2, <1>3 DEF Stop

LEMMA BusyNext ==
  ASSUME TypeInv, BusyWorking, [Next]_vars
  PROVE  BusyWorking'
<1>1. queue \in Queue /\ work \in Work
  BY DEF TypeInv, TypeOK
<1>2. ASSUME UNCHANGED work, queue'.busy = queue.busy PROVE BusyWorking'
  BY <1>2 DEF BusyWorking
<1>3. CASE ServiceStep
  <2>1. ASSUME NEW b \in Block, HandleIncomingBlock(b) PROVE BusyWorking'
    <3>1. PICK chunks \in Chunkings(<<b>>) : SetQueue(Enqueue(queue, chunks))
      BY <2>1 DEF HandleIncomingBlock
    <3>2. chunks \in Seq(Seq(Block))
      BY <<b>> \in Seq(Block), ChunkingsType
    <3> QED
      BY <1>1, <3>1, <3>2, BusyKept, BusySetQueue, EnqueueType
  <2>2. CASE Dispose
    BY <1>1, <2>2, BusyKept, BusySetQueue, QueueOperatorTypes DEF Dispose
  <2> QED
    BY <1>2, <1>3, <2>1, <2>2 DEF ServiceStep, Boot, BootFinished, Tick, WakeUp, ForceWakeup,
       CheckMissingBlocks, MissingBlocksChecked
<1>4. CASE ImmediateStep
  BY <1>2, <1>4 DEF ImmediateStep, Initialize, CheckLater, BlockchainReady,
     CheckLastDownloadedBlockSynced, DownloadBlocks, DownloadFinished,
     CheckLastBlockSynced, SyncingComplete, LogOnly, ExitApp, Exit
<1>5. CASE AnswerStep
  <2>1. ASSUME NEW b \in Block, Downloaded(b) PROVE BusyWorking'
    <3>1. ASSUME NEW bs \in Segments(b), NEW chunks \in Chunkings(bs),
                 SetQueue(Enqueue(queue, chunks))
          PROVE  BusyWorking'
      <4>1. chunks \in Seq(Seq(Block))
        BY SegmentsType, ChunkingsType
      <4> QED
        BY <1>1, <3>1, <4>1, BusyKept, BusySetQueue, EnqueueType
    <3>2. CASE NothingDownloaded(queue) \/ NothingDownloaded(Clear(queue))
      BY <1>1, <1>2, <3>2, BusyKept DEF NothingDownloaded
    <3> QED
      BY <1>2, <2>1, <3>1, <3>2 DEF Downloaded
  <2> QED
    BY <1>2, <1>5, <2>1 DEF AnswerStep, Initialized, NetworkHealthChecked
<1>6. CASE JobStep
  <2>1. CASE FinishJob
    <3>1. JobDone(queue).current \in Seq(Block)
      BY <1>1, QueueOperatorTypes DEF Queue
    <3>2. NewWork(JobDone(queue).current).phase # "none"
      BY <3>1, NewWorkType
    <3> QED
      BY <2>1, <3>2 DEF FinishJob, BusyWorking, NoWork
  <2>2. ASSUME work.phase # "none", work'.phase # "none", queue'.busy = queue.busy
        PROVE  BusyWorking'
    BY <2>2 DEF BusyWorking
  <2>3. CASE Interrupted \/ UndoAccept \/ \E b \in Block : Refused(b) \/ Unchained(b) \/ ApplyBlock(b)
    BY <1>1, <2>2, <2>3, BusyKept DEF Interrupted, UndoAccept, Refused, Unchained, ApplyBlock,
       Processing, Phase, Break, Work
  <2>4. CASE FinishAccept
    BY <1>1, <2>2, <2>4 DEF FinishAccept, Phase, Work
  <2>5. CASE SaveBlocks
    BY <1>1, <2>2, <2>5, BusyKept DEF SaveBlocks, Conclude, Phase, Work
  <2>6. CASE RevertBlock \/ BlocksReverted
    BY <1>1, <2>2, <2>6, BusyKept DEF RevertBlock, BlocksReverted, Phase, Work
  <2>7. CASE Corrupted
    BY <1>2, <2>7 DEF Corrupted, Exit
  <2> QED
    BY <1>6, <2>1, <2>3, <2>4, <2>5, <2>6, <2>7 DEF JobStep
<1>7. CASE UNCHANGED vars
  BY <1>2, <1>7 DEF vars
<1> QED
  BY <1>3, <1>4, <1>5, <1>6, <1>7 DEF Next

-----------------------------------------------------------------------------
(* Synchronisation is driven *)

\* Jobs only wait in a queue whose loop runs and goes on: whoever forbids the
\* loop to go on also drops the jobs.
JobsGoOn == queue.jobs # <<>> => queue.busy /\ queue.started

LEMMA JobsGoOnNext ==
  ASSUME TypeInv, JobsGoOn, [Next]_vars
  PROVE  JobsGoOn'
<1> DEFINE Fine(q) == q.jobs # <<>> => q.busy /\ q.started
<1> SUFFICES Fine(queue')
  BY DEF JobsGoOn
<1>1. queue \in Queue /\ Fine(queue)
  BY DEF TypeInv, TypeOK, JobsGoOn
<1>2. \A q \in Queue : q.started => Fine(ProcessJobs(q))
  BY DEF ProcessJobs, Queue
<1>3. \A q \in Queue : Fine(Clear(q))
  BY DEF Clear, Queue
<1>4. Fine(Clear(Pause(queue))) /\ Fine(Stop(queue))
  BY <1>1, <1>3, QueueOperatorTypes DEF Stop
<1>5. Fine(JobDone(queue))
  <2> DEFINE p == [queue EXCEPT !.busy = FALSE]
  <2>1. p \in Queue /\ p.jobs = queue.jobs /\ p.started = queue.started
    BY <1>1 DEF Queue
  <2>2. CASE queue.started
    BY <1>2, <2>1, <2>2 DEF JobDone
  <2>3. CASE ~queue.started
    <3>1. p.jobs = <<>> /\ ~p.started
      BY <1>1, <2>1, <2>3
    <3> HIDE DEF p
    <3>2. ProcessJobs(p).jobs = <<>>
      BY <2>1, <3>1 DEF ProcessJobs, Queue
    <3> QED
      BY <3>2 DEF JobDone, p
  <2> QED
    BY <2>2, <2>3
<1>6. ASSUME NEW chunks \in Seq(Seq(Block)) PROVE Fine(Enqueue(queue, chunks))
  <2>1. [queue EXCEPT !.jobs = queue.jobs \o chunks, !.started = TRUE] \in Queue
    <3>1. queue.jobs \o chunks \in Seq(Seq(Block))
      BY <1>1, ConcatProperties DEF Queue
    <3> QED
      BY <1>1, <3>1 DEF Queue
  <2>2. [queue EXCEPT !.jobs = queue.jobs \o chunks, !.started = TRUE].started
    BY <1>1 DEF Queue
  <2> QED
    BY <1>2, <2>1, <2>2 DEF Enqueue
<1> QED
  BY <1>1, <1>3, <1>4, <1>5, <1>6, QueueMoves

SyncInv == TypeInv /\ Armed /\ BusyWorking /\ JobsGoOn /\ SyncDriven

\* What a state of the synchronisation queues on entry.
Entry(s) ==
  CASE s = "sync.syncing"          -> "checkLastDownloadedBlockSynced"
    [] s = "sync.downloadBlocks"   -> "downloadBlocks"
    [] s = "sync.downloadFinished" -> "downloadFinished"
    [] s = "sync.downloadPaused"   -> "downloadPaused"
    [] s = "sync.processFinished"  -> "checkLastBlockSynced"
    [] s = "sync.end"              -> "syncingComplete"
    [] OTHER                       -> "none"

\* No event leads to "sync.idle".
LEMMA IntoSync ==
  ASSUME NEW s \in State, NEW e, Target(s, e) # s, Target(s, e) \in SyncState
  PROVE  Target(s, e) # "sync.idle" /\ Entered(s, e) = <<Entry(Target(s, e))>>
<1>1. Target(s, e) # "sync.idle"
  BY DEF Target, State, SyncState
<1> QED
  BY <1>1 DEF Entered, OnEntry, Entry, SyncState

\* A state that is entered has its entry action queued; what drives a paused
\* download is the queue.
LEMMA DrivenEntered ==
  ASSUME TypeInv, NEW queued \in Seq(ActionName), NEW e, Dispatch(queued, e),
         machine' # machine, machine' = "sync.downloadPaused" => queue'.busy
  PROVE  SyncDriven'
<1>1. machine \in State /\ machine' = Target(machine, e)
      /\ immediates' = queued \o Entered(machine, e)
  BY DEF TypeInv, TypeOK, Dispatch
<1>2. CASE machine' \in SyncState
  <2>1. machine' # "sync.idle" /\ Entered(machine, e) = <<Entry(machine')>>
    BY <1>1, <1>2, IntoSync
  <2>2. Entry(machine') \in ActionName
    BY <1>2, <2>1 DEF Entry, SyncState, ActionName
  <2>3. QueuedIn(Entry(machine'), immediates')
    <3>1. <<Entry(machine')>> \in Seq(ActionName)
      BY <2>2
    <3>2. QueuedIn(Entry(machine'), <<Entry(machine')>>)
      BY DEF QueuedIn
    <3> QED
      BY <1>1, <2>1, <3>1, <3>2, QueuedStays
  <2> QED
    BY <1>2, <2>1, <2>3 DEF SyncDriven, Entry, Queued, QueuedIn, SyncState
<1>3. CASE machine' \notin SyncState
  BY <1>3 DEF SyncDriven, SyncState
<1> QED
  BY <1>2, <1>3

\* The callbacks queued before, except b's, are in q.
Others(b, q) == \A a : a # b /\ QueuedIn(a, immediates) => QueuedIn(a, q)

LEMMA OthersQueued ==
  ASSUME immediates \in Seq(ActionName)
  PROVE  /\ \A b : Others(b, immediates)
         /\ \A b : Immediate(b) =>
              Tail(immediates) \in Seq(ActionName) /\ Others(b, Tail(immediates))
BY ImmediateTail, QueuedWaits DEF Others

(***************************************************************************)
(* The step keeps what the synchronisation awaits: the health check, the   *)
(* running loop and, unless a job runs, the downloads that still count.    *)
(***************************************************************************)
Keeps ==
  /\ flight.sync => flight'.sync
  /\ queue.busy => queue'.busy
  /\ \/ queue.busy
     \/ machine # "sync.downloadBlocks"
     \/ \A c \in Block : flight.fetches[c] > 0 /\ ~Outdated(c)
                           => flight'.fetches[c] > 0 /\ ~Outdated(c)'

LEMMA KeepsSame ==
  ASSUME flight'.sync = flight.sync, flight'.fetches = flight.fetches,
         queue.busy => queue'.busy, process'.stopped = process.stopped,
         queue.busy \/ store'.lastDownloaded = store.lastDownloaded
  PROVE  Keeps
BY DEF Keeps, Outdated

\* The machine stays and no callback of its state is run.
LEMMA DrivenStay ==
  ASSUME SyncInv, machine' = machine, NEW b, b # Entry(machine), Others(b, immediates'), Keeps
  PROVE  SyncDriven'
<1>1. Entry(machine) # "none" /\ Queued(Entry(machine)) => Queued(Entry(machine))'
  BY DEF Queued, QueuedIn, Others
<1>2. SyncDriven
  BY DEF SyncInv
<1> QED
  BY <1>1, <1>2 DEF SyncDriven, Entry, Keeps

\* A dispatch that leaves the machine where it is queues nothing.
LEMMA DispatchStays ==
  ASSUME NEW queued \in Seq(ActionName), NEW e, Dispatch(queued, e), machine' = machine
  PROVE  immediates' = queued
BY ConcatEmptySeq DEF Dispatch, Entered

\* A dispatch: the machine stays and what is awaited is kept, or it moves.
LEMMA DrivenDispatch ==
  ASSUME SyncInv, NEW queued \in Seq(ActionName), NEW e, Dispatch(queued, e),
         NEW b, b # Entry(machine), Others(b, queued),
         e = "PAUSED" => queue'.busy, Keeps
  PROVE  SyncDriven'
<1>1. CASE machine' = machine
  <2>1. Others(b, immediates')
    BY <1>1, DispatchStays
  <2> QED
    BY <1>1, <2>1, DrivenStay
<1>2. CASE machine' # machine
  <2>1. machine' = "sync.downloadPaused" => e = "PAUSED"
    BY <1>2 DEF Dispatch, Target, SyncInv, TypeInv, TypeOK, State, SyncState
  <2>2. TypeInv
    BY DEF SyncInv
  <2> QED
    BY <1>2, <2>1, <2>2, DrivenEntered
<1> QED
  BY <1>1, <1>2

LEMMA SyncServiceStep ==
  ASSUME SyncInv, ServiceStep
  PROVE  SyncDriven'
<1> DEFINE none == "none of the callbacks"
<1>1. /\ none # Entry(machine) /\ immediates \in Seq(ActionName)
      /\ Others(none, immediates) /\ flight \in Flight /\ process \in Process /\ queue \in Queue
  BY OthersQueued DEF Entry, SyncInv, TypeInv, TypeOK
<1> HIDE DEF none
<1>2. CASE Boot \/ WakeUp \/ ForceWakeup
  <2>1. Keeps
    BY <1>2, KeepsSame DEF Boot, WakeUp, ForceWakeup
  <2> QED
    BY <1>1, <1>2, <2>1, DrivenDispatch DEF Boot, WakeUp, ForceWakeup
<1>3. CASE BootFinished \/ Tick \/ CheckMissingBlocks
  <2>1. Keeps
    BY <1>1, <1>3, KeepsSame DEF BootFinished, Tick, CheckMissingBlocks, Flight, Process
  <2> QED
    BY <1>1, <1>3, <2>1, DrivenStay DEF BootFinished, Tick, CheckMissingBlocks
<1>4. CASE MissingBlocksChecked
  <2>1. Keeps
    BY <1>1, <1>4, KeepsSame DEF MissingBlocksChecked, Flight
  <2> QED
    BY <1>1, <1>4, <2>1, DrivenDispatch, DrivenStay DEF MissingBlocksChecked
<1>5. CASE Dispose
  <2>1. machine' \notin SyncState
    BY <1>5 DEF Dispose, Dispatch, Target, State, SyncState
  <2> QED
    BY <2>1 DEF SyncDriven, SyncState
<1>6. ASSUME NEW b \in Block, HandleIncomingBlock(b) PROVE SyncDriven'
  <2>1. PICK chunks \in Chunkings(<<b>>) : SetQueue(Enqueue(queue, chunks))
    BY <1>6 DEF HandleIncomingBlock
  <2>2. chunks \in Seq(Seq(Block))
    BY <<b>> \in Seq(Block), ChunkingsType
  <2>3. queue.busy => queue'.busy
    BY <1>1, <2>1, <2>2, BusyKept DEF SetQueue
  <2>4. Keeps
    BY <1>6, <2>3, KeepsSame DEF HandleIncomingBlock
  <2> QED
    BY <1>1, <1>6, <2>4, DrivenDispatch DEF HandleIncomingBlock
<1> QED
  BY <1>2, <1>3, <1>4, <1>5, <1>6 DEF ServiceStep

\* The action on entry of state s dispatches e there: the machine moves on.
LEMMA DrivenOn ==
  ASSUME SyncInv, NEW queued \in Seq(ActionName), NEW e, Dispatch(queued, e),
         NEW b, Others(b, queued), Keeps, e = "PAUSED" => queue'.busy,
         b = Entry(machine) => machine' # machine
  PROVE  SyncDriven'
<1>1. CASE b # Entry(machine)
  BY <1>1, DrivenDispatch
<1>2. CASE machine' # machine
  <2>1. machine' = "sync.downloadPaused" => e = "PAUSED"
    BY <1>2 DEF Dispatch, Target, SyncInv, TypeInv, TypeOK, State, SyncState
  <2>2. TypeInv
    BY DEF SyncInv
  <2> QED
    BY <1>2, <2>1, <2>2, DrivenEntered
<1> QED
  BY <1>1, <1>2

\* A callback of one of the states is run in that state or left over in another.
LEMMA SyncImmediateStep ==
  ASSUME SyncInv, ImmediateStep
  PROVE  SyncDriven'
<1>1. /\ immediates \in Seq(ActionName) /\ flight \in Flight /\ process \in Process
      /\ queue \in Queue /\ store \in Store /\ machine \in State
  BY DEF SyncInv, TypeInv, TypeOK
<1>2. ASSUME NEW b, Immediate(b)
      PROVE  Tail(immediates) \in Seq(ActionName) /\ Others(b, Tail(immediates))
  BY <1>1, <1>2, OthersQueued
<1>3. ASSUME NEW b \in {"init", "checkLater", "blockchainReady", "exitApp", "stopped",
                        "downloadPaused"},
             Immediate(b), immediates' = Tail(immediates), machine' = machine, Keeps,
             machine # "sync.downloadPaused" \/ UNCHANGED queue
      PROVE  SyncDriven'
  <2>1. CASE machine = "sync.downloadPaused"
    BY <1>3, <2>1 DEF SyncInv, SyncDriven
  <2>2. CASE machine # "sync.downloadPaused"
    <3>1. b # Entry(machine)
      BY <1>3, <2>2 DEF Entry
    <3> QED
      BY <1>2, <1>3, <3>1, DrivenStay
  <2> QED
    BY <2>1, <2>2
<1>4. CASE Initialize \/ CheckLater \/ BlockchainReady \/ LogOnly \/ ExitApp
  <2>1. Keeps
    BY <1>1, <1>4, KeepsSame DEF Initialize, CheckLater, BlockchainReady, ExitApp, Exit,
       LogOnly, Flight, Process, Store
  <2> QED
    BY <1>3, <1>4, <2>1 DEF Initialize, CheckLater, BlockchainReady, ExitApp, Exit, LogOnly
<1>5. CASE CheckLastDownloadedBlockSynced
  <2> DEFINE b == "checkLastDownloadedBlockSynced"
  <2>1. Immediate(b) /\ UNCHANGED <<process, queue>> /\ flight'.fetches = flight.fetches
        /\ (flight.sync => flight'.sync) /\ store'.lastDownloaded = store.lastDownloaded
    BY <1>1, <1>5 DEF CheckLastDownloadedBlockSynced, Flight, Store
  <2>2. Keeps
    BY <2>1 DEF Keeps, Outdated
  <2>3. Tail(immediates) \in Seq(ActionName) /\ Others(b, Tail(immediates))
    BY <1>2, <2>1
  <2>4. ASSUME NEW e \in {"NETWORKHALTED", "SYNCED", "PAUSED", "NOTSYNCED"},
               Dispatch(Tail(immediates), e), e = "PAUSED" => queue.busy
        PROVE  SyncDriven'
    <3>1. b = Entry(machine) => machine = "sync.syncing"
      BY DEF Entry
    <3>2. machine = "sync.syncing" => machine' # machine
      BY <2>4 DEF Dispatch, Target, SyncState
    <3> QED
      BY <2>1, <2>2, <2>3, <2>4, <3>1, <3>2, DrivenOn
  <2>5. CASE immediates' = Tail(immediates) /\ machine' = machine /\ flight'.sync
    <3>1. CASE machine = "sync.syncing"
      BY <2>5, <3>1 DEF SyncDriven
    <3>2. CASE machine # "sync.syncing"
      <4>1. b # Entry(machine)
        BY <3>2 DEF Entry
      <4> QED
        BY <2>2, <2>3, <2>5, <4>1, DrivenStay
    <3> QED
      BY <3>1, <3>2
  <2>6. Len(queue.jobs) > QueueLimit => queue.busy
    <3>1. queue.jobs = <<>> => Len(queue.jobs) = 0
      OBVIOUS
    <3> QED
      BY <3>1, BoundAssumption DEF SyncInv, JobsGoOn
  <2>7. [flight EXCEPT !.sync = TRUE].sync
    BY <1>1 DEF Flight
  <2> QED
    BY <1>5, <2>4, <2>5, <2>6, <2>7 DEF CheckLastDownloadedBlockSynced, CheckedEvent
<1>6. CASE DownloadBlocks
  <2>1. PICK from \in Block :
             /\ from = LastDownloaded(store)
             /\ Immediate("downloadBlocks") /\ UNCHANGED <<process, machine, store, queue>>
             /\ immediates' = Tail(immediates)
             /\ flight' = [flight EXCEPT !.fetches[from] = flight.fetches[from] + 1]
    BY <1>1, <1>6, StoreTypes DEF DownloadBlocks
  <2>2. ~process.stopped => ~Outdated(from)
    BY <2>1 DEF Outdated, LastDownloaded
  <2>3. flight'.sync = flight.sync /\ flight.fetches \in [Block -> Nat]
        /\ flight'.fetches = [flight.fetches EXCEPT ![from] = flight.fetches[from] + 1]
    BY <1>1, <2>1 DEF Flight
  <2>4. /\ \A c \in Block : flight.fetches[c] > 0 => flight'.fetches[c] > 0
        /\ flight'.fetches[from] > 0
    BY <2>1, <2>3
  <2>5. Keeps
    BY <2>1, <2>3, <2>4 DEF Keeps, Outdated
  <2>6. CASE machine = "sync.downloadBlocks"
    <3>1. ~process.stopped
      BY <2>6 DEF SyncInv, Armed, StoppedForGood
    <3>2. ~Outdated(from)'
      BY <2>1, <2>2, <3>1 DEF Outdated
    <3> QED
      BY <2>1, <2>4, <2>6, <3>2 DEF SyncDriven
  <2>7. CASE machine # "sync.downloadBlocks"
    <3>1. "downloadBlocks" # Entry(machine)
      BY <2>7 DEF Entry
    <3> QED
      BY <1>2, <2>1, <2>5, <3>1, DrivenStay
  <2> QED
    BY <2>6, <2>7
<1>7. CASE DownloadFinished
  <2> DEFINE b == "downloadFinished"
  <2>1. Immediate(b) /\ UNCHANGED <<process, queue, flight>>
        /\ store'.lastDownloaded = store.lastDownloaded
    BY <1>1, <1>7 DEF DownloadFinished, Store
  <2>2. Keeps
    BY <2>1, KeepsSame
  <2>3. Tail(immediates) \in Seq(ActionName) /\ Others(b, Tail(immediates))
    BY <1>2, <2>1
  <2>4. b = Entry(machine) => machine = "sync.downloadFinished"
    BY DEF Entry
  <2>5. ASSUME NEW e \in {"SYNCFINISHED", "PROCESSFINISHED"}, Dispatch(Tail(immediates), e)
        PROVE  SyncDriven'
    <3>1. machine = "sync.downloadFinished" => machine' # machine
      BY <2>5 DEF Dispatch, Target, SyncState
    <3> QED
      BY <2>2, <2>3, <2>4, <2>5, <3>1, DrivenOn
  <2>6. CASE queue.busy /\ immediates' = Tail(immediates) /\ machine' = machine
    <3>1. CASE machine = "sync.downloadFinished"
      BY <2>1, <2>6, <3>1 DEF SyncDriven
    <3>2. CASE machine # "sync.downloadFinished"
      BY <2>2, <2>3, <2>4, <2>6, <3>2, DrivenStay
    <3> QED
      BY <3>1, <3>2
  <2> QED
    BY <1>7, <2>5, <2>6 DEF DownloadFinished
<1>8. CASE CheckLastBlockSynced
  <2> DEFINE b == "checkLastBlockSynced"
  <2>1. PICK e \in {"SYNCED", "NOTSYNCED"} : Dispatch(Tail(immediates), e)
    BY <1>8 DEF CheckLastBlockSynced
  <2>2. Immediate(b) /\ UNCHANGED <<process, store, queue, flight>>
    BY <1>8 DEF CheckLastBlockSynced
  <2>3. Keeps /\ Tail(immediates) \in Seq(ActionName) /\ Others(b, Tail(immediates))
    BY <1>2, <2>2, KeepsSame
  <2>4. b = Entry(machine) => machine = "sync.processFinished"
    BY DEF Entry
  <2>5. machine = "sync.processFinished" => machine' # machine
    BY <2>1 DEF Dispatch, Target, SyncState
  <2> QED
    BY <2>1, <2>3, <2>4, <2>5, DrivenOn
<1>9. CASE SyncingComplete
  <2> DEFINE b == "syncingComplete"
  <2>1. PICK e \in {"SYNCFINISHED"} :
             /\ Immediate(b) /\ Dispatch(Tail(immediates), e)
             /\ UNCHANGED <<process, store, queue, flight>>
    BY <1>9 DEF SyncingComplete
  <2>2. Keeps /\ Tail(immediates) \in Seq(ActionName) /\ Others(b, Tail(immediates))
    BY <1>2, <2>1, KeepsSame
  <2>3. b = Entry(machine) => machine = "sync.end"
    BY DEF Entry
  <2>4. machine = "sync.end" => machine' # machine
    BY <2>1 DEF Dispatch, Target, SyncState
  <2> QED
    BY <2>1, <2>2, <2>3, <2>4, DrivenOn
<1> QED
  BY <1>4, <1>5, <1>6, <1>7, <1>8, <1>9 DEF ImmediateStep

LEMMA SyncAnswerStep ==
  ASSUME SyncInv, AnswerStep
  PROVE  SyncDriven'
<1> DEFINE none == "none of the callbacks"
<1>1. /\ none # Entry(machine) /\ immediates \in Seq(ActionName)
      /\ Others(none, immediates) /\ flight \in Flight /\ process \in Process
      /\ queue \in Queue /\ store \in Store /\ machine \in State
  BY OthersQueued DEF Entry, SyncInv, TypeInv, TypeOK
<1> HIDE DEF none
<1>2. CASE Initialized
  <2>1. Keeps
    BY <1>1, <1>2, KeepsSame DEF Initialized, Flight
  <2> QED
    BY <1>1, <1>2, <2>1, DrivenDispatch DEF Initialized
<1>3. CASE NetworkHealthChecked
  <2>1. PICK e \in {"NETWORKHALTED", "SYNCED", "FORK"} : Dispatch(immediates, e)
    BY <1>3 DEF NetworkHealthChecked, CheckedEvent
  <2>2. CASE machine = "sync.syncing"
    <3>1. machine' # machine /\ machine' # "sync.downloadPaused"
      BY <2>1, <2>2 DEF Dispatch, Target, SyncState
    <3>2. TypeInv
      BY DEF SyncInv
    <3> QED
      BY <1>1, <2>1, <3>1, <3>2, DrivenEntered
  <2>3. CASE machine # "sync.syncing"
    <3>1. /\ flight'.fetches = flight.fetches /\ UNCHANGED <<process, queue>>
          /\ store'.lastDownloaded = store.lastDownloaded
      BY <1>1, <1>3 DEF NetworkHealthChecked, Flight, Store
    <3>2. CASE machine' = machine
      <4>1. Others(none, immediates')
        BY <1>1, <2>1, <3>2, DispatchStays
      <4>2. Queued(Entry(machine)) => Queued(Entry(machine))'
        BY <1>1, <3>2, <4>1 DEF Queued, QueuedIn, Others
      <4>3. SyncDriven
        BY DEF SyncInv
      <4> QED
        BY <2>3, <3>1, <3>2, <4>2, <4>3 DEF SyncDriven, Entry, Outdated
    <3>3. CASE machine' # machine
      <4>1. machine' # "sync.downloadPaused"
        BY <1>1, <2>1, <3>3 DEF Dispatch, Target, State, SyncState
      <4>2. TypeInv
        BY DEF SyncInv
      <4> QED
        BY <1>1, <2>1, <3>3, <4>1, <4>2, DrivenEntered
    <3> QED
      BY <3>2, <3>3
  <2> QED
    BY <2>2, <2>3
<1>4. ASSUME NEW b \in Block, Downloaded(b) PROVE SyncDriven'
  <2>1. /\ flight'.sync = flight.sync
        /\ \A c \in Block : c # b => flight'.fetches[c] = flight.fetches[c]
        /\ process' = process
    BY <1>1, <1>4 DEF Downloaded, Flight
  <2>2. CASE Outdated(b) /\ UNCHANGED <<machine, immediates, store, queue>>
    <3>1. Keeps
      BY <2>1, <2>2 DEF Keeps, Outdated
    <3> QED
      BY <1>1, <2>2, <3>1, DrivenStay
  \* An answer that counts: the machine leaves downloadBlocks if it is there.
  <2>3. ASSUME NEW e \in {"DOWNLOADED", "NOBLOCK"}, Dispatch(immediates, e),
               queue.busy => queue'.busy
        PROVE  SyncDriven'
    <3>1. CASE machine = "sync.downloadBlocks"
      <4>1. machine' # machine /\ machine' # "sync.downloadPaused"
        BY <2>3, <3>1 DEF Dispatch, Target, SyncState
      <4>2. TypeInv
        BY DEF SyncInv
      <4> QED
        BY <1>1, <2>3, <4>1, <4>2, DrivenEntered
    <3>2. CASE machine # "sync.downloadBlocks"
      <4>1. Keeps
        BY <2>1, <2>3, <3>2 DEF Keeps
      <4> QED
        BY <1>1, <2>3, <4>1, DrivenDispatch
    <3> QED
      BY <3>1, <3>2
  <2>4. ASSUME NEW bs \in Segments(b), NEW chunks \in Chunkings(bs),
               SetQueue(Enqueue(queue, chunks))
        PROVE  queue.busy => queue'.busy
    <3>1. chunks \in Seq(Seq(Block))
      BY SegmentsType, ChunkingsType
    <3> QED
      BY <1>1, <2>4, <3>1, BusyKept DEF SetQueue
  <2>5. Clear(queue).busy = queue.busy
    BY <1>1, BusyKept
  <2> QED
    BY <1>4, <2>2, <2>3, <2>4, <2>5 DEF Downloaded, NothingDownloaded
<1> QED
  BY <1>2, <1>3, <1>4 DEF AnswerStep

\* While a job runs the queue's loop does; when it ends its loop, it drains.
LEMMA SyncJobStep ==
  ASSUME SyncInv, JobStep
  PROVE  SyncDriven'
<1> DEFINE none == "none of the callbacks"
<1>1. /\ none # Entry(machine) /\ immediates \in Seq(ActionName)
      /\ Others(none, immediates) /\ queue \in Queue /\ machine \in State
  BY OthersQueued DEF Entry, SyncInv, TypeInv, TypeOK
<1> HIDE DEF none
<1>2. queue.busy
  BY DEF SyncInv, BusyWorking, JobStep, Interrupted, Refused, Unchained, ApplyBlock,
     FinishAccept, Corrupted, UndoAccept, SaveBlocks, RevertBlock, BlocksReverted, FinishJob,
     Processing, Phase
<1>3. ASSUME UNCHANGED flight, queue'.busy PROVE Keeps
  BY <1>2, <1>3 DEF Keeps
<1>4. CASE \/ Interrupted \/ UndoAccept \/ FinishAccept \/ Corrupted \/ RevertBlock
           \/ BlocksReverted
           \/ \E b \in Block : Refused(b) \/ Unchained(b) \/ ApplyBlock(b)
  <2>1. UNCHANGED <<machine, immediates, flight>> /\ queue' \in {queue, Clear(queue)}
    BY <1>4 DEF Interrupted, UndoAccept, FinishAccept, Corrupted, Exit, RevertBlock,
       BlocksReverted, Refused, Unchained, ApplyBlock
  <2>2. Keeps
    BY <1>1, <1>2, <1>3, <2>1, BusyKept
  <2> QED
    BY <1>1, <2>1, <2>2, DrivenStay
<1>5. CASE SaveBlocks
  <2>1. UNCHANGED flight /\ queue' \in {queue, Clear(queue), Clear(Pause(queue))}
    BY <1>5 DEF SaveBlocks, Conclude
  <2>2. Keeps
    BY <1>1, <1>2, <1>3, <2>1, BusyKept
  <2>3. UNCHANGED <<machine, immediates>> \/ Dispatch(immediates, "FORK")
    BY <1>5 DEF SaveBlocks, Conclude
  <2> QED
    BY <1>1, <2>2, <2>3, DrivenStay, DrivenDispatch
<1>6. CASE FinishJob
  <2>1. UNCHANGED flight /\ queue' = JobDone(queue)
    BY <1>6 DEF FinishJob
  <2>2. CASE queue'.busy /\ ~Drains(JobDone(queue))
    <3>1. Keeps
      BY <1>3, <2>1, <2>2
    <3> QED
      BY <1>1, <1>6, <2>2, <3>1, DrivenStay DEF FinishJob
  <2>3. CASE Drains(JobDone(queue))
    <3>1. PICK e \in {"PROCESSFINISHED"} : Dispatch(immediates, e)
      BY <1>6, <2>3 DEF FinishJob
    <3>2. CASE machine' # machine
      <4>1. machine' # "sync.downloadPaused" /\ TypeInv
        BY <1>1, <3>1, <3>2 DEF Dispatch, Target, State, SyncState, SyncInv
      <4> QED
        BY <1>1, <3>1, <3>2, <4>1, DrivenEntered
    <3>3. CASE machine' = machine
      <4>1. machine \notin {"sync.downloadBlocks", "sync.downloadFinished",
                            "sync.downloadPaused"}
        BY <3>1, <3>3 DEF Dispatch, Target, SyncState
      <4>2. Others(none, immediates')
        BY <1>1, <3>1, <3>3, DispatchStays
      <4>3. Queued(Entry(machine)) => Queued(Entry(machine))'
        BY <1>1, <3>3, <4>2 DEF Queued, QueuedIn, Others
      <4>4. SyncDriven
        BY DEF SyncInv
      <4> QED
        BY <2>1, <3>3, <4>1, <4>3, <4>4 DEF SyncDriven, Entry
    <3> QED
      BY <3>2, <3>3
  <2>4. queue'.busy \/ Drains(JobDone(queue))
    <3>1. CASE queue.started
      BY <1>1, <2>1, <3>1, JobDoneServes
    <3>2. CASE ~queue.started
      <4>1. queue.jobs = <<>>
        BY <3>2 DEF SyncInv, JobsGoOn
      <4> QED
        BY <1>1, <3>2, <4>1 DEF JobDone, Drains, ProcessJobs, Queue
    <3> QED
      BY <3>1, <3>2
  <2> QED
    BY <2>2, <2>3, <2>4
<1> QED
  BY <1>4, <1>5, <1>6 DEF JobStep

(***************************************************************************)
(* Synchronisation is never stuck: every state of syncWithNetwork has a    *)
(* callback, an answer that still counts or a running job pending that     *)
(* will dispatch an event the state reacts to.  The argument needs three   *)
(* other invariants: a stopped service is in none of these states (so the  *)
(* answers that remain are not outdated), the queue's loop runs exactly    *)
(* while a job is under way, and jobs never wait in a paused queue.        *)
(***************************************************************************)
THEOREM SyncIsDriven == Spec => []SyncDriven
<1> DEFINE Running == BusyWorking /\ JobsGoOn /\ SyncDriven
<1>1. Init => Running
  BY DEF Init, BusyWorking, JobsGoOn, SyncDriven, SyncState, EmptyQueue, NoWork
<1>2. TypeInv /\ Armed /\ Running /\ [Next]_vars => Running'
  <2> SUFFICES ASSUME TypeInv, Armed, Running, [Next]_vars PROVE Running'
    OBVIOUS
  <2>1. BusyWorking' /\ JobsGoOn'
    BY BusyNext, JobsGoOnNext
  <2>2. SyncInv
    BY DEF SyncInv
  <2>3. ASSUME UNCHANGED vars PROVE SyncDriven'
    BY <2>3 DEF vars, SyncDriven, Queued, Outdated
  <2>4. ASSUME Next PROVE SyncDriven'
    BY <2>2, <2>4, SyncServiceStep, SyncImmediateStep, SyncAnswerStep, SyncJobStep DEF Next
  <2> QED
    BY <2>1, <2>3, <2>4
<1>3. Running => SyncDriven
  OBVIOUS
<1> QED
  BY <1>1, <1>2, <1>3, ArmedAlways, PTL DEF Spec
=============================================================================
