----------------------------- MODULE Blockchain -----------------------------
(***************************************************************************)
(* The blockchain manager of a node (core-blockchain): its state machine   *)
(* and the actions that machine queues, the block-processing job with its  *)
(* accept, unchained and revert handlers, the job queue, the wake-up timer *)
(* and the fields of the state store they share.                           *)
(*                                                                         *)
(* Node.js runs one callback at a time; an action below is the code from   *)
(* one suspension to the next.  What suspends is setImmediate, a timer, an *)
(* await of the network, of a database write or of an event's listeners;   *)
(* an await of anything else (the database is read synchronously) lets no  *)
(* other callback run.  Whatever is suspended is in `immediates', `timer', *)
(* `flight' (network calls, initialisation) or `work' (the running job).   *)
(***************************************************************************)
EXTENDS Integers, Sequences, SequencesExt, StateMachine, MemoryQueue

CONSTANTS
  Block,          \* blocks that exist anywhere in the network
  Genesis,        \* the block the node starts on
  Parent,         \* Parent[b]: the block b names as its previous block
  Height,         \* Height[b]: the height b claims
  NoBlock,        \* an undefined block field of the state store
  NoBlockLimit,   \* empty downloads before the network counts as halted (5)
  P2pLimit,       \* halts in a row before a network health check (3)
  QueueLimit,     \* waiting jobs that pause the download (100)
  Faults,         \* the failures the environment may cause, see Fault
  MaxImmediates,  \* bound: outside events wait while this many are queued
  MaxFetches,     \* bound: downloads in flight
  MaxSegment,     \* bound: blocks one download returns
  MaxReceived,    \* bound: blocks received outside a download
  MaxHorizon      \* bound: how far the clock moves

Fault == {"init", "nopeers", "unhealthy", "unchained", "interrupt", "reject", "forged",
          "fork", "apply", "pool", "corrupt", "save", "restore", "patchy"}

ASSUME BlockAssumption ==
  /\ Genesis \in Block
  /\ NoBlock \notin Block
  /\ Parent \in [Block -> Block]
  /\ Height \in [Block -> Nat]
  /\ Height[Genesis] >= 1

ASSUME BoundAssumption ==
  /\ {NoBlockLimit, P2pLimit, QueueLimit} \subseteq Nat
  /\ {MaxImmediates, MaxFetches, MaxSegment, MaxReceived, MaxHorizon} \subseteq Nat
  /\ Faults \subseteq Fault

VARIABLES
  process,     \* [stopped, booted, exited]: flags of the service, the process
  machine,     \* the state machine's state
  immediates,  \* actions given to setImmediate, in order
  timer,       \* [handle, live]: #wakeUpTimeout is set; timers that will fire
  store,       \* the state store's fields
  queue,       \* the job queue, a record of MemoryQueue
  work,        \* where the running job stands
  flight,      \* awaited calls: [init, sync, missing, fetches]
  horizon,     \* the clock: blocks below this height are too old to be synced
  received     \* blocks received so far, counted for MaxReceived

\* What only the environment moves.
outside == <<horizon, received>>

vars == <<process, machine, immediates, timer, store, queue, work, flight,
          horizon, received>>

-----------------------------------------------------------------------------
(* Blocks and the state store *)

\* Faulty variant: the previous block's id is not compared.
ChainedByHeight(a, b) == Height[b] = Height[a] + 1

\* isBlockChained: b follows a and is one higher.
Chained(a, b) == Parent[b] = a /\ Height[b] = Height[a] + 1

SetLastBlock(s, b) ==
  [s EXCEPT !.lastBlock = b, !.noBlockCounter = 0, !.p2pUpdateCounter = 0]

LastDownloaded(s) ==
  IF s.lastDownloaded = NoBlock THEN s.lastBlock ELSE s.lastDownloaded

ResetLastDownloaded(s) == [s EXCEPT !.lastDownloaded = s.lastBlock]

\* Faulty variant: the handler does not look at the last downloaded block.
CatchUpNever(s) == s

\* The last downloaded block is never left behind the last accepted one.
CatchUp(s) ==
  IF s.lastDownloaded # NoBlock /\ Height[s.lastDownloaded] < Height[s.lastBlock]
  THEN ResetLastDownloaded(s) ELSE s

\* Faulty variant: an empty download is not counted.
CountNoBlockNever(s) == ResetLastDownloaded(s)

\* The counter is only compared with the limit, so it may saturate above it.
CountNoBlock(s) ==
  [s EXCEPT !.noBlockCounter = IF s.noBlockCounter > NoBlockLimit
                               THEN s.noBlockCounter ELSE s.noBlockCounter + 1,
            !.lastDownloaded = s.lastBlock]

\* isSynced: the block is less than three block times old, or no peer is known.
Synced(b) == (IF "nopeers" \in Faults THEN {TRUE} ELSE {}) \cup {Height[b] >= horizon}

\* What a download from block a can bring: at most MaxSegment blocks, higher
\* and higher, the first of which follows a.  Only that is checked: parts sent
\* by different peers may be of different forks or leave a gap ("patchy").
Segments(a) ==
  {bs \in UNION {[1..n -> Block] : n \in 1..MaxSegment} :
     /\ Chained(a, bs[1])
     /\ \A i, j \in 1..Len(bs) : i < j => Height[bs[i]] < Height[bs[j]]
     /\ "patchy" \in Faults \/ \A i \in 2..Len(bs) : Chained(bs[i - 1], bs[i])}

\* The ways enqueueBlocks can cut blocks into jobs: every chunk but the last,
\* which holds what follows the last cut, is non-empty.
Chunkings(bs) ==
  {cs \in UNION {[1..n -> UNION {[1..k -> ToSet(bs)] : k \in 0..Len(bs)}]
                   : n \in 1..(Len(bs) + 1)} :
     /\ FlattenSeq(cs) = bs
     /\ \A i \in 1..(Len(cs) - 1) : cs[i] # <<>>}

-----------------------------------------------------------------------------
(* The wake-up timer *)

SetWakeUp(t) == [handle |-> TRUE, live |-> t.live + 1]

ClearWakeUp(t) == IF t.handle THEN [handle |-> FALSE, live |-> t.live - 1] ELSE t

\* Faulty variants: the old timer is not cleared; no new timer is set.
ResetWakeUpWithoutClear(t) == SetWakeUp(t)
ResetWakeUpWithoutSet(t) == ClearWakeUp(t)

ResetWakeUp(t) == SetWakeUp(ClearWakeUp(t))

-----------------------------------------------------------------------------
(* Steps shared by the actions *)

\* dispatch(event): move the machine and queue the entered state's actions
\* behind those already queued.
Dispatch(queued, e) ==
  /\ machine' = Target(machine, e)
  /\ immediates' = queued \o Entered(machine, e)

Alive == ~process.exited

\* The callback at the head of the setImmediate queue is action a.
Immediate(a) == Alive /\ immediates # <<>> /\ Head(immediates) = a

\* Callbacks from outside (timers, sockets) run between setImmediate rounds.
OutsideTurn == Alive /\ Len(immediates) < MaxImmediates

\* The running job is suspended at p.
Phase(p) == Alive /\ work.phase = p

\* handle() returns at once on an empty chunk.
NewWork(bs) ==
  [phase |-> IF bs = <<>> THEN "end" ELSE "next", todo |-> bs,
   accepted |-> <<>>, last |-> "none", fork |-> NoBlock]

NoWork == [phase |-> "none", todo |-> <<>>, accepted |-> <<>>,
           last |-> "none", fork |-> NoBlock]

\* The queue becomes q; a job q has just taken begins.
SetQueue(q) ==
  /\ queue' = q
  /\ work' = IF q.busy /\ ~queue.busy THEN NewWork(q.current) ELSE work

\* Faulty variants: resume() does not start the loop, or is not called.
EnqueueWithoutLoop(q, chunks) == [q EXCEPT !.jobs = q.jobs \o chunks, !.started = TRUE]
EnqueueWithoutResume(q, chunks) == ProcessJobs([q EXCEPT !.jobs = q.jobs \o chunks])

\* enqueueBlocks: push and resume for every chunk, the first of which starts
\* the loop if it was not running.
Enqueue(q, chunks) ==
  ProcessJobs([q EXCEPT !.jobs = q.jobs \o chunks, !.started = TRUE])

-----------------------------------------------------------------------------
(* Service: boot, dispose, incoming blocks, timers, health *)

\* The node may or may not be configured to start in genesis mode.
Init ==
  /\ process = [stopped |-> FALSE, booted |-> FALSE, exited |-> FALSE]
  /\ machine = "uninitialised"
  /\ immediates = <<>>
  /\ timer = [handle |-> FALSE, live |-> 0]
  /\ store \in [lastBlock : {Genesis}, lastDownloaded : {NoBlock},
                forkedBlock : {NoBlock}, lastStored : {1}, started : {FALSE},
                networkStart : BOOLEAN, noBlockCounter : {0}, p2pUpdateCounter : {0}]
  /\ queue = EmptyQueue
  /\ work = NoWork
  /\ flight = [init |-> FALSE, sync |-> FALSE, missing |-> FALSE,
               fetches |-> [b \in Block |-> 0]]
  /\ horizon = 0
  /\ received = 0

Boot ==
  /\ Alive /\ machine = "uninitialised"
  /\ Dispatch(immediates, "START")
  /\ UNCHANGED <<process, timer, store, queue, work, flight, outside>>

\* boot() polls until the node has started or was stopped.
BootFinished ==
  /\ Alive /\ machine # "uninitialised"
  /\ ~process.booted
  /\ store.started \/ process.stopped
  /\ process' = [process EXCEPT !.booted = TRUE]
  /\ UNCHANGED <<machine, immediates, timer, store, queue, work, flight, outside>>

Dispose ==
  /\ Alive /\ ~process.stopped
  /\ process' = [process EXCEPT !.stopped = TRUE]
  /\ timer' = ClearWakeUp(timer)
  /\ Dispatch(immediates, "STOP")
  /\ SetQueue(Stop(queue))
  /\ UNCHANGED <<store, flight, outside>>

\* Time passes.
Tick ==
  /\ Alive /\ horizon < MaxHorizon
  /\ horizon' = horizon + 1
  /\ UNCHANGED <<process, machine, immediates, timer, store, queue, work, flight, received>>

\* A block from a peer or the forger, in time for its slot.
HandleIncomingBlock(b) ==
  /\ OutsideTurn
  /\ received < MaxReceived
  /\ store.started
  /\ received' = received + 1
  /\ Dispatch(immediates, "NEWBLOCK")
  /\ \E chunks \in Chunkings(<<b>>) : SetQueue(Enqueue(queue, chunks))
  /\ UNCHANGED <<process, timer, store, flight, horizon>>

\* Faulty variant: the callback leaves the handle set.
WakeUpKeepingHandle ==
  /\ OutsideTurn
  /\ timer.live > 0
  /\ timer' = [timer EXCEPT !.live = timer.live - 1]
  /\ Dispatch(immediates, "WAKEUP")
  /\ UNCHANGED <<process, store, queue, work, flight, outside>>

\* The timer's callback clears the handle before it dispatches.
WakeUp ==
  /\ OutsideTurn
  /\ timer.live > 0
  /\ timer' = [handle |-> FALSE, live |-> timer.live - 1]
  /\ Dispatch(immediates, "WAKEUP")
  /\ UNCHANGED <<process, store, queue, work, flight, outside>>

\* The forger asks for it when the node it forges on is not synced.
ForceWakeup ==
  /\ OutsideTurn
  /\ process.booted
  /\ timer' = ClearWakeUp(timer)
  /\ Dispatch(immediates, "WAKEUP")
  /\ UNCHANGED <<process, store, queue, work, flight, outside>>

\* Enough forgers were missing in a row: a health check, at most every 10 minutes.
CheckMissingBlocks ==
  /\ Alive /\ process.booted
  /\ ~flight.missing
  /\ flight' = [flight EXCEPT !.missing = TRUE]
  /\ UNCHANGED <<process, machine, immediates, timer, store, queue, work, outside>>

MissingBlocksChecked ==
  /\ OutsideTurn
  /\ flight.missing
  /\ flight' = [flight EXCEPT !.missing = FALSE]
  /\ \/ UNCHANGED <<machine, immediates>>
     \/ "unhealthy" \in Faults /\ Dispatch(immediates, "FORK")
  /\ UNCHANGED <<process, timer, store, queue, work, outside>>

-----------------------------------------------------------------------------
(* Actions of the state machine, run from the setImmediate queue *)

Initialize ==
  /\ Immediate("init")
  /\ immediates' = Tail(immediates)
  /\ flight' = [flight EXCEPT !.init = TRUE]
  /\ UNCHANGED <<process, machine, timer, store, queue, work, outside>>

\* The state is built and the network monitor has booted, or something threw.
Initialized ==
  /\ Alive /\ flight.init
  /\ flight' = [flight EXCEPT !.init = FALSE]
  /\ \/ Dispatch(immediates, "STARTED")
     \/ "init" \in Faults /\ Dispatch(immediates, "FAILURE")
  /\ UNCHANGED <<process, timer, store, queue, work, outside>>

CheckLater ==
  /\ Immediate("checkLater")
  /\ immediates' = Tail(immediates)
  /\ timer' = IF ~process.stopped /\ ~timer.handle THEN SetWakeUp(timer) ELSE timer
  /\ UNCHANGED <<process, machine, store, queue, work, flight, outside>>

BlockchainReady ==
  /\ Immediate("blockchainReady")
  /\ immediates' = Tail(immediates)
  /\ store' = [store EXCEPT !.started = TRUE]
  /\ UNCHANGED <<process, machine, timer, queue, work, flight, outside>>

\* Too many empty downloads and nothing left to process.
NetworkHalted == store.noBlockCounter > NoBlockLimit /\ ~queue.busy

DownloadSynced ==
  IF store.lastDownloaded = NoBlock THEN {FALSE} ELSE Synced(store.lastDownloaded)

\* A start in genesis mode overrides what the check found.
CheckedEvent(e) == IF store.networkStart THEN "SYNCED" ELSE e

CheckLastDownloadedBlockSynced ==
  /\ Immediate("checkLastDownloadedBlockSynced")
  /\ \/ /\ NetworkHalted
        /\ store.p2pUpdateCounter + 1 > P2pLimit
        /\ store' = [store EXCEPT !.noBlockCounter = 0]
        /\ flight' = [flight EXCEPT !.sync = TRUE]
        /\ immediates' = Tail(immediates)
        /\ UNCHANGED machine
     \/ /\ NetworkHalted
        /\ store.p2pUpdateCounter + 1 <= P2pLimit
        /\ store' = [store EXCEPT !.noBlockCounter = 0,
                                  !.p2pUpdateCounter = store.p2pUpdateCounter + 1]
        /\ Dispatch(Tail(immediates), CheckedEvent("NETWORKHALTED"))
        /\ UNCHANGED flight
     \/ /\ ~NetworkHalted
        /\ TRUE \in DownloadSynced
        /\ store' = [store EXCEPT !.noBlockCounter = 0, !.p2pUpdateCounter = 0]
        /\ Dispatch(Tail(immediates), "SYNCED")
        /\ UNCHANGED flight
     \/ /\ ~NetworkHalted
        /\ FALSE \in DownloadSynced
        /\ Dispatch(Tail(immediates),
                    CheckedEvent(IF Len(queue.jobs) > QueueLimit THEN "PAUSED"
                                                                 ELSE "NOTSYNCED"))
        /\ UNCHANGED <<store, flight>>
  /\ UNCHANGED <<process, timer, queue, work, outside>>

NetworkHealthChecked ==
  /\ Alive /\ flight.sync
  /\ flight' = [flight EXCEPT !.sync = FALSE]
  /\ store' = [store EXCEPT !.p2pUpdateCounter = 0]
  /\ \/ Dispatch(immediates, CheckedEvent("NETWORKHALTED"))
     \/ "unhealthy" \in Faults /\ Dispatch(immediates, CheckedEvent("FORK"))
  /\ UNCHANGED <<process, timer, queue, work, outside>>

\* The download is asked for from what is known of the chain now.
DownloadBlocks ==
  LET from == LastDownloaded(store) IN
  /\ Immediate("downloadBlocks")
  /\ flight.fetches[from] < MaxFetches
  /\ immediates' = Tail(immediates)
  /\ flight' = [flight EXCEPT !.fetches[from] = flight.fetches[from] + 1]
  /\ UNCHANGED <<process, machine, timer, store, queue, work, outside>>

\* Faulty variant: a last downloaded block that was never set differs from any.
OutdatedWhenUnset(from) == process.stopped \/ store.lastDownloaded # from

\* The answer to a download from `from' came too late to be of use.
Outdated(from) ==
  \/ process.stopped
  \/ store.lastDownloaded # NoBlock /\ store.lastDownloaded # from

NothingDownloaded(q) ==
  /\ queue' = q
  /\ store' = IF q.jobs = <<>> THEN CountNoBlock(store) ELSE store
  /\ Dispatch(immediates, "NOBLOCK")
  /\ UNCHANGED work

Downloaded(from) ==
  /\ Alive
  /\ flight.fetches[from] > 0
  /\ flight' = [flight EXCEPT !.fetches[from] = flight.fetches[from] - 1]
  /\ \/ /\ Outdated(from)
        /\ UNCHANGED <<machine, immediates, store, queue, work>>
     \/ /\ ~Outdated(from)
        /\ \E bs \in Segments(from) :
             /\ \E chunks \in Chunkings(bs) : SetQueue(Enqueue(queue, chunks))
             /\ store' = [store EXCEPT !.lastDownloaded = Last(bs)]
             /\ Dispatch(immediates, "DOWNLOADED")
     \/ ~Outdated(from) /\ NothingDownloaded(queue)
     \/ "unchained" \in Faults /\ ~Outdated(from) /\ NothingDownloaded(Clear(queue))
  /\ UNCHANGED <<process, timer, outside>>

DownloadFinished ==
  /\ Immediate("downloadFinished")
  /\ \/ /\ store.networkStart
        /\ store' = [store EXCEPT !.networkStart = FALSE]
        /\ Dispatch(Tail(immediates), "SYNCFINISHED")
     \/ /\ ~store.networkStart /\ ~queue.busy
        /\ Dispatch(Tail(immediates), "PROCESSFINISHED")
        /\ UNCHANGED store
     \/ /\ ~store.networkStart /\ queue.busy
        /\ immediates' = Tail(immediates)
        /\ UNCHANGED <<machine, store>>
  /\ UNCHANGED <<process, timer, queue, work, flight, outside>>

CheckLastBlockSynced ==
  /\ Immediate("checkLastBlockSynced")
  /\ \E synced \in Synced(store.lastBlock) :
       Dispatch(Tail(immediates), IF synced THEN "SYNCED" ELSE "NOTSYNCED")
  /\ UNCHANGED <<process, timer, store, queue, work, flight, outside>>

SyncingComplete ==
  /\ Immediate("syncingComplete")
  /\ Dispatch(Tail(immediates), "SYNCFINISHED")
  /\ UNCHANGED <<process, timer, store, queue, work, flight, outside>>

\* These two actions only log.
LogOnly ==
  /\ Immediate("downloadPaused") \/ Immediate("stopped")
  /\ immediates' = Tail(immediates)
  /\ UNCHANGED <<process, machine, timer, store, queue, work, flight, outside>>

Exit ==
  /\ process' = [process EXCEPT !.exited = TRUE]
  /\ UNCHANGED <<machine, timer, store, queue, work, flight, outside>>

ExitApp ==
  /\ Immediate("exitApp")
  /\ immediates' = Tail(immediates)
  /\ Exit

-----------------------------------------------------------------------------
(* The running job *)

\* Take no further block: go and save what was accepted.  (That others may run
\* first although nothing suspends if there is nothing to save only adds
\* behaviours.)
Break(result) == work' = [work EXCEPT !.phase = "save", !.last = result]

\* What UnchainedHandler makes of block b.
UnchainedResults(b) ==
  LET last == store.lastBlock IN
  CASE Height[b] > Height[last] + 1 -> {"Rejected"}
    [] Height[b] < Height[last]     -> {"Discarded"}
    [] b = last                     -> {"Discarded"}
    [] OTHER -> {"Rejected"} \cup (IF "fork" \in Faults THEN {"Rollback"} ELSE {})

Processing(b) == Phase("next") /\ work.todo # <<>> /\ b = Head(work.todo)

\* A future slot, or an exception: the last result stays what it was.
Interrupted ==
  /\ "interrupt" \in Faults
  /\ Phase("next") /\ work.todo # <<>>
  /\ Break(work.last)
  /\ UNCHANGED <<process, machine, immediates, timer, store, queue, flight, outside>>

\* The block is invalid, or contains a forged transaction.
Refused(b) ==
  /\ Processing(b)
  /\ \/ "reject" \in Faults /\ Break("Rejected")
     \/ "forged" \in Faults /\ Chained(store.lastBlock, b) /\ Break("Discarded")
  /\ store' = ResetLastDownloaded(store)
  /\ UNCHANGED <<process, machine, immediates, timer, queue, flight, outside>>

Unchained(b) ==
  /\ Processing(b)
  /\ ~Chained(store.lastBlock, b)
  /\ \E result \in UnchainedResults(b) :
       /\ work' = [work EXCEPT !.phase = "save", !.last = result,
                               !.fork = IF result = "Rollback" THEN b ELSE NoBlock]
       /\ store' = [store EXCEPT !.lastDownloaded = IF result = "Rollback" THEN b
                                                    ELSE store.lastBlock]
  /\ queue' = Clear(queue)
  /\ UNCHANGED <<process, machine, immediates, timer, flight, outside>>

\* applyBlock succeeds, throws before the block is the last block, or after.
ApplyBlock(b) ==
  LET applied == SetLastBlock(store, b) IN
  /\ Processing(b)
  /\ Chained(store.lastBlock, b)
  /\ \/ /\ work' = [work EXCEPT !.phase = "applied"]
        /\ store' = IF /\ store.forkedBlock # NoBlock
                       /\ Height[store.forkedBlock] = Height[b]
                    THEN [applied EXCEPT !.forkedBlock = NoBlock]
                    ELSE applied
     \/ /\ "apply" \in Faults
        /\ Break("Rejected")
        /\ store' = ResetLastDownloaded(store)
     \/ /\ "apply" \in Faults
        /\ work' = [work EXCEPT !.phase = "undo"]
        /\ store' = ResetLastDownloaded(applied)
  /\ UNCHANGED <<process, machine, immediates, timer, queue, flight, outside>>

\* The pool has dropped the block's transactions: the block is accepted.
FinishAccept ==
  /\ Phase("applied")
  /\ \/ /\ timer' = IF store.started THEN ResetWakeUp(timer) ELSE timer
        /\ store' = CatchUp(store)
        /\ work' = [work EXCEPT !.phase = IF Len(work.todo) = 1 THEN "save" ELSE "next",
                                !.todo = Tail(work.todo),
                                !.accepted = Append(work.accepted, store.lastBlock),
                                !.last = "Accepted"]
     \/ /\ "pool" \in Faults
        /\ work' = [work EXCEPT !.phase = "undo"]
        /\ store' = ResetLastDownloaded(store)
        /\ UNCHANGED timer
  /\ UNCHANGED <<process, machine, immediates, queue, flight, outside>>

\* RevertBlockHandler puts the previous block back; if it fails, the state is
\* corrupted and the process exits.
RevertLastBlock == store' = SetLastBlock(store, Parent[store.lastBlock])

Corrupted ==
  /\ Phase("undo") \/ Phase("revert")
  /\ "corrupt" \in Faults
  /\ Exit
  /\ UNCHANGED immediates

UndoAccept ==
  /\ Phase("undo")
  /\ RevertLastBlock
  /\ Break("Rejected")
  /\ UNCHANGED <<process, machine, immediates, timer, queue, flight, outside>>

\* What handle() does last, by the last block's result; s is the store then.
Conclude(s) ==
  \/ /\ work.last \in {"Accepted", "Discarded"}
     /\ store' = s
     /\ UNCHANGED <<machine, immediates, queue>>
  \/ /\ work.last \notin {"Accepted", "Discarded"}
     /\ work.fork # NoBlock
     /\ store' = ResetLastDownloaded([s EXCEPT !.forkedBlock = work.fork])
     /\ queue' = Clear(Pause(queue))
     /\ Dispatch(immediates, "FORK")
  \/ /\ work.last \notin {"Accepted", "Discarded"}
     /\ work.fork = NoBlock
     /\ store' = ResetLastDownloaded(s)
     /\ queue' = Clear(queue)
     /\ UNCHANGED <<machine, immediates>>

\* Faulty variant: one block too many counts as stored.
StoredOneTooMany(s) == [s EXCEPT !.lastStored = Height[Last(work.accepted)] + 1]

\* saveBlocks succeeded for all of them.
Stored(s) == [s EXCEPT !.lastStored = Height[Last(work.accepted)]]

SaveBlocks ==
  /\ Phase("save")
  /\ \/ /\ work.accepted = <<>>
        /\ Conclude(store)
        /\ work' = [work EXCEPT !.phase = "end"]
     \/ /\ work.accepted # <<>>
        /\ Conclude(Stored(store))
        /\ work' = [work EXCEPT !.phase = "end"]
     \/ /\ work.accepted # <<>> /\ "save" \in Faults
        /\ work' = [work EXCEPT !.phase = "revert"]
        /\ UNCHANGED <<machine, immediates, store, queue>>
  /\ UNCHANGED <<process, timer, flight, outside>>

RevertBlock ==
  /\ Phase("revert")
  /\ work.accepted # <<>>
  /\ RevertLastBlock
  /\ work' = [work EXCEPT !.accepted = Front(work.accepted)]
  /\ UNCHANGED <<process, machine, immediates, timer, queue, flight, outside>>

\* The rounds are restored, or restoring them throws and the job fails.
BlocksReverted ==
  /\ Phase("revert")
  /\ work.accepted = <<>>
  /\ \/ queue' = Clear(queue) /\ store' = ResetLastDownloaded(store)
     \/ "restore" \in Faults /\ UNCHANGED <<queue, store>>
  /\ work' = [work EXCEPT !.phase = "end"]
  /\ UNCHANGED <<process, machine, immediates, timer, flight, outside>>

\* The queue has reported the job and goes on; "drain" means PROCESSFINISHED.
FinishJob ==
  LET q == JobDone(queue) IN
  /\ Phase("end")
  /\ queue' = q
  /\ work' = IF q.busy THEN NewWork(q.current) ELSE NoWork
  /\ IF Drains(q) THEN Dispatch(immediates, "PROCESSFINISHED")
                  ELSE UNCHANGED <<machine, immediates>>
  /\ UNCHANGED <<process, timer, store, flight, outside>>

-----------------------------------------------------------------------------
ServiceStep ==
  \/ Boot \/ BootFinished \/ Dispose \/ Tick
  \/ \E b \in Block : HandleIncomingBlock(b)
  \/ WakeUp \/ ForceWakeup
  \/ CheckMissingBlocks \/ MissingBlocksChecked

ImmediateStep ==
  \/ Initialize \/ CheckLater \/ BlockchainReady
  \/ CheckLastDownloadedBlockSynced \/ DownloadBlocks \/ DownloadFinished
  \/ CheckLastBlockSynced \/ SyncingComplete \/ LogOnly \/ ExitApp

AnswerStep ==
  \/ Initialized \/ NetworkHealthChecked
  \/ \E b \in Block : Downloaded(b)

JobStep ==
  \/ Interrupted
  \/ \E b \in Block : Refused(b) \/ Unchained(b) \/ ApplyBlock(b)
  \/ FinishAccept \/ Corrupted \/ UndoAccept \/ SaveBlocks
  \/ RevertBlock \/ BlocksReverted \/ FinishJob

Next == ServiceStep \/ ImmediateStep \/ AnswerStep \/ JobStep

Spec == Init /\ [][Next]_vars

-----------------------------------------------------------------------------
(* Types *)

Process == [stopped : BOOLEAN, booted : BOOLEAN, exited : BOOLEAN]

\* Whenever the handle is set its timer is the only one that will fire.
Timer == {[handle |-> FALSE, live |-> 0], [handle |-> TRUE, live |-> 1]}

Store == [lastBlock : Block, lastDownloaded : Block \cup {NoBlock},
          forkedBlock : Block \cup {NoBlock}, lastStored : Nat,
          started : BOOLEAN, networkStart : BOOLEAN, noBlockCounter : Nat,
          p2pUpdateCounter : Nat]

Queue == [jobs : Seq(Seq(Block)), started : BOOLEAN, busy : BOOLEAN,
          current : Seq(Block), awaited : BOOLEAN]

Work == [phase : {"none", "next", "applied", "undo", "save", "revert", "end"},
         todo : Seq(Block), accepted : Seq(Block),
         last : {"none", "Accepted", "Discarded", "Rejected", "Rollback"},
         fork : Block \cup {NoBlock}]

Flight == [init : BOOLEAN, sync : BOOLEAN, missing : BOOLEAN,
           fetches : [Block -> Nat]]

\* Every variable has its type; in particular one timer at most is live.
TypeOK ==
  /\ process \in Process
  /\ machine \in State
  /\ immediates \in Seq(ActionName)
  /\ timer \in Timer
  /\ store \in Store
  /\ queue \in Queue
  /\ work \in Work
  /\ flight \in Flight
  /\ horizon \in Nat
  /\ received \in Nat

-----------------------------------------------------------------------------
(* Safety *)

Queued(a) == \E i \in DOMAIN immediates : immediates[i] = a

(* What the inductive invariants add to the types. *)

\* A block is in hand while one is being processed.
BlockInHand == work.phase \in {"next", "applied", "undo"} => work.todo # <<>>

\* A service that was stopped leaves its final state only by exiting.
StoppedForGood == process.stopped => machine \in {"stopped", "exit"}

\* The accepted blocks are a chain that the last block ends or extends.
AcceptedChain ==
  /\ \A i \in 1..Len(work.accepted) :
       Chained(Parent[work.accepted[i]], work.accepted[i])
  /\ \A i \in 2..Len(work.accepted) : Parent[work.accepted[i]] = work.accepted[i - 1]
  /\ work.phase \in {"applied", "undo"} =>
       Chained(Parent[store.lastBlock], store.lastBlock)
  /\ work.accepted # <<>> =>
       /\ work.phase \in {"next", "save", "revert"} =>
            store.lastBlock = Last(work.accepted)
       /\ work.phase \in {"applied", "undo"} =>
            Parent[store.lastBlock] = Last(work.accepted)

\* A block applied and not yet accepted is above what is stored.
AppliedAboveStored ==
  work.phase \in {"applied", "undo"} => Height[store.lastBlock] > store.lastStored

(***************************************************************************)
(* No job is stranded: a queue that may run and holds jobs is running.     *)
(* push(), resume() and the loop itself must each hand over correctly.     *)
(***************************************************************************)
NoJobStranded == queue.started /\ queue.jobs # <<>> => queue.busy

(***************************************************************************)
(* The machine only leaves "newBlock" when the queue drains, so while it   *)
(* is there a job must be running on a queue that goes on to the next one. *)
(***************************************************************************)
NewBlockServed == machine = "newBlock" => queue.busy /\ queue.started

(***************************************************************************)
(* An idle node wakes up: the timer that will dispatch WAKEUP is running,  *)
(* or checkLater is about to set it (check-later.ts, setWakeUp).           *)
(***************************************************************************)
WakeUpArmed == machine = "idle" => timer.live = 1 \/ Queued("checkLater")

(***************************************************************************)
(* Synchronisation is never stuck: in every state of syncWithNetwork the   *)
(* callback that will dispatch an event the state reacts to is pending.  A *)
(* download counts only if its answer will not be dropped as outdated.     *)
(***************************************************************************)
SyncDriven ==
  CASE machine = "sync.syncing" -> Queued("checkLastDownloadedBlockSynced") \/ flight.sync
    [] machine = "sync.downloadBlocks" ->
         \/ Queued("downloadBlocks")
         \/ queue.busy
         \/ \E b \in Block : flight.fetches[b] > 0 /\ ~Outdated(b)
    [] machine = "sync.downloadFinished" -> Queued("downloadFinished") \/ queue.busy
    [] machine = "sync.downloadPaused"   -> queue.busy
    [] machine = "sync.processFinished"  -> Queued("checkLastBlockSynced")
    [] machine = "sync.end"              -> Queued("syncingComplete")
    [] OTHER                             -> machine # "sync.idle"

(***************************************************************************)
(* "Ensure the lastDownloadedBlock is never behind the last accepted       *)
(* block" (accept-block-handler.ts): outside the handler the next download *)
(* starts at the last block or above, whatever order downloads, incoming   *)
(* blocks, reverts and forks come in.                                      *)
(***************************************************************************)
LastDownloadedNotBehind ==
  store.lastDownloaded # NoBlock /\ work.phase # "applied"
  => Height[store.lastDownloaded] >= Height[store.lastBlock]

(***************************************************************************)
(* What holds of it: once the last downloaded block is known and not       *)
(* behind, no step of a job, a download, a fork or a failure leaves it     *)
(* behind again.  (download-blocks.ts can set it behind while it is still  *)
(* unknown, which only a start in genesis mode makes possible.)            *)
(***************************************************************************)
NeverFallsBehind ==
  [][ store.lastDownloaded # NoBlock /\ LastDownloadedNotBehind
      => store'.lastDownloaded # NoBlock /\ LastDownloadedNotBehind' ]_<<store, work>>

(***************************************************************************)
(* The forged-transactions check takes the database for blocks up to       *)
(* lastStoredBlockHeight and memory above it: every block accepted by the  *)
(* running job and not yet in the database must be above, and the stored   *)
(* height never passes the last block.                                     *)
(***************************************************************************)
AcceptedAboveStored ==
  /\ work.phase # "end" =>
       \A i \in DOMAIN work.accepted : Height[work.accepted[i]] > store.lastStored
  /\ store.lastStored <= Height[store.lastBlock]

(***************************************************************************)
(* The last block only moves along the chain, one block at a time: onto a  *)
(* block chained to it, or back to the block it is chained to.             *)
(***************************************************************************)
OneBlockAtATime ==
  [][LET old == store.lastBlock
         new == store'.lastBlock
     IN  \/ new = old
         \/ Parent[new] = old /\ Height[new] = Height[old] + 1
         \/ new = Parent[old] /\ Height[old] = Height[new] + 1]_store

(***************************************************************************)
(* "Discard remaining blocks as it won't go anywhere anyway" (the comment  *)
(* in process-blocks-job.ts): a chunk whose first block is not chained to  *)
(* the last block is dropped before any of its blocks is processed.        *)
(***************************************************************************)
UnchainedChunkDiscarded ==
  [][LET begun == work.phase = "next" /\ work.last = "none" /\ work.accepted = <<>>
     IN  begun /\ ~Chained(store.lastBlock, Head(work.todo)) =>
           work'.phase \in {"next", "end"}]_work

-----------------------------------------------------------------------------
(* Liveness *)

(***************************************************************************)
(* Node.js runs every queued setImmediate, every timer that is not cleared *)
(* and every resolved await; network calls end by their timeouts.          *)
(***************************************************************************)
Fairness ==
  /\ WF_vars(Boot)
  /\ WF_vars(BootFinished)
  /\ WF_vars(WakeUp)
  /\ WF_vars(MissingBlocksChecked)
  /\ WF_vars(ImmediateStep)
  /\ WF_vars(Initialized)
  /\ WF_vars(NetworkHealthChecked)
  /\ \A b \in Block : WF_vars(Downloaded(b))
  /\ WF_vars(JobStep)

FairSpec == Spec /\ Fairness

(***************************************************************************)
(* Synchronisation ends: with peers that only serve valid blocks, a node   *)
(* that starts to sync is idle again some time (or forked or stopped).     *)
(***************************************************************************)
SyncEnds == machine \in SyncState ~> machine \notin SyncState

\* A received block does not hold the machine for ever.
NewBlockEnds == machine = "newBlock" ~> machine # "newBlock"

\* dispose() returns: whoever awaits the end of the queue's loop sees it.
StopReturns == queue.awaited ~> (~queue.awaited \/ process.exited)

\* An idle node synchronises again unless a block comes first.
IdleWakesUp == machine = "idle" ~> machine # "idle"

(***************************************************************************)
(* The machine gives "fork" an entry action, startForkRecovery, and a      *)
(* SUCCESS transition, and AcceptBlockHandler logs "Successfully recovered *)
(* from fork": a fork is recovered from.                                   *)
(***************************************************************************)
ForkRecovers == machine = "fork" ~> machine # "fork"
=============================================================================
