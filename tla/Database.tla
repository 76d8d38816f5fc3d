------------------------------ MODULE Database ------------------------------
(***************************************************************************)
(* The database service (core-database) under the job that fills it.  A    *)
(* block is stored by separate writes: the block by its id, then its       *)
(* height, then each of its transactions.  A write may fail, and the       *)
(* process may stop between any two writes.                                *)
(***************************************************************************)
EXTENDS Naturals, FiniteSets, SequencesExt

CONSTANTS
  Block,         \* the blocks that peers can send
  Genesis,       \* the genesis block
  Previous,      \* the parent of each block
  HeightOf,        \* its height
  Transactions,  \* its transactions, in order
  MaxLastBlocks, \* storage.maxLastBlocks: how many blocks memory keeps
  MaxChunk,      \* bound: the blocks of a job
  MaxCrashes,    \* bound: crashes of the process
  MaxFaults      \* bound: writes and applications that fail

DatabaseAssumption ==
  /\ Genesis \in Block /\ HeightOf \in [Block -> Nat \ {0}] /\ HeightOf[Genesis] = 1
  /\ Previous \in [Block -> Block]
  /\ \A b \in Block \ {Genesis} : HeightOf[b] = HeightOf[Previous[b]] + 1
  /\ \A b \in Block : Transactions[b] \in Seq(ToSet(Transactions[b]))
  /\ MaxLastBlocks \in Nat /\ MaxChunk \in 1..MaxLastBlocks  \* as Blockchain.enqueueBlocks cuts chunks
  /\ MaxCrashes \in Nat /\ MaxFaults \in Nat

VARIABLES
  disk,   \* the three storages: blocks, heights (a set of pairs), transactions
  node,   \* what a restart forgets: up, window (#lastBlocks), stored
  job,    \* the running job: phase, accepted, todo (to save), writes (of one block)
  budget  \* crashes and faults left, and (history) whether one tore a block apart

vars == <<disk, node, job, budget>>

NoJob == [phase |-> "process", accepted |-> <<>>, todo |-> <<>>, writes |-> <<>>]

\* A set of blocks that has the parent of each of them, and a block's chain: the
\* least such set it is in.
Rooted(S) == \A b \in S \ {Genesis} : Previous[b] \in S
Chain == [b \in Block |-> {a \in Block : \A S \in SUBSET Block : b \in S /\ Rooted(S) => a \in S}]

TxsOf(blocks) == UNION {ToSet(Transactions[b]) : b \in blocks}

-----------------------------------------------------------------------------
\* getLastBlock: the block of the greatest indexed height.  Nothing indexed, or
\* a block that is not there, reads as an empty database.
GetLastBlock ==
  LET top == {i \in disk.heights : \A j \in disk.heights : j.height <= i.height}
  IN  {i.block : i \in top} \cap disk.blocks

\* Faulty variant: the height is written before the block.
WritesHeightFirst(b) ==
  IF b \in disk.blocks THEN <<>>
  ELSE <<[to |-> "heights", what |-> b], [to |-> "blocks", what |-> b]>>
       \o [i \in DOMAIN Transactions[b] |-> [to |-> "transactions", what |-> Transactions[b][i]]]

\* The writes of one block, in saveBlocks' order; none if its id is there.
WritesOf(b) ==
  IF b \in disk.blocks THEN <<>>
  ELSE <<[to |-> "blocks", what |-> b], [to |-> "heights", what |-> b]>>
       \o [i \in DOMAIN Transactions[b] |-> [to |-> "transactions", what |-> Transactions[b][i]]]

\* One put of LMDB.  A height is a key: its old id is replaced.
Put(d, w) ==
  CASE w.to = "blocks"       -> [d EXCEPT !.blocks = @ \cup {w.what}]
    [] w.to = "heights"      -> [d EXCEPT !.heights =
         {i \in @ : i.height # HeightOf[w.what]} \cup {[height |-> HeightOf[w.what], block |-> w.what]}]
    [] w.to = "transactions" -> [d EXCEPT !.transactions = @ \cup {w.what}]

-----------------------------------------------------------------------------
\* #lastBlocks is a map by height: its last block is the highest.
LastBlock == CHOOSE b \in node.window : \A c \in node.window : HeightOf[c] <= HeightOf[b]

\* setLastBlock: keeps what is lower, adds, and drops the oldest if too many.
PushLastBlock(window, b) ==
  LET kept == {c \in window : HeightOf[c] < HeightOf[b]} \cup {b}
  IN  IF Cardinality(kept) > MaxLastBlocks THEN {c \in kept : \E d \in kept : HeightOf[d] < HeightOf[c]} ELSE kept

\* getForgedTransactionsIds, and the blocks in memory above the stored height.
ForgedTransactions ==
  disk.transactions \cup
  (IF HeightOf[LastBlock] = node.stored THEN {}
   ELSE TxsOf({b \in node.window : HeightOf[b] > node.stored}))

Running == node.up /\ job.phase = "process" /\ Len(job.accepted) < MaxChunk

\* A chained block without forged transactions is applied.
AcceptBlock(b) ==
  /\ Running
  /\ b # Genesis /\ Previous[b] = LastBlock
  /\ ToSet(Transactions[b]) \cap ForgedTransactions = {}
  /\ node' = [node EXCEPT !.window = PushLastBlock(@, b)]
  /\ job' = [job EXCEPT !.accepted = Append(@, b)]
  /\ UNCHANGED <<disk, budget>>

\* A block that is refused ends the chunk: what was accepted is saved.  A job
\* that accepted nothing saves nothing.
EndOfChunk == IF job.accepted = <<>> THEN NoJob ELSE [job EXCEPT !.phase = "save", !.todo = job.accepted]

SaveBlocks ==
  /\ node.up /\ job.phase = "process" /\ job.accepted # <<>>
  /\ job' = EndOfChunk
  /\ UNCHANGED <<disk, node, budget>>

Saving == node.up /\ job.phase = "save"

SaveNext ==
  /\ Saving /\ job.writes = <<>> /\ job.todo # <<>>
  /\ job' = [job EXCEPT !.todo = Tail(@), !.writes = WritesOf(Head(job.todo))]
  /\ UNCHANGED <<disk, node, budget>>

Write ==
  /\ Saving /\ job.writes # <<>>
  /\ disk' = Put(disk, Head(job.writes))
  /\ job' = [job EXCEPT !.writes = Tail(@)]
  /\ UNCHANGED <<node, budget>>

\* The job sets the last stored height to the last accepted block's.  (The
\* genesis block, saved at start, becomes the last block: configureState.)
Saved ==
  /\ Saving /\ job.writes = <<>> /\ job.todo = <<>>
  /\ node' = [node EXCEPT !.stored = HeightOf[Last(job.accepted)],
                           !.window = IF @ = {} THEN ToSet(job.accepted) ELSE @]
  /\ job' = NoJob
  /\ UNCHANGED <<disk, budget>>

\* A block is half written: stored, but not its height or its transactions.
Torn == job.phase = "save" /\ job.writes # <<>> /\ Head(job.writes).to # "blocks"

\* A write fails: every accepted block is reverted, from the last to the first.
SaveFails ==
  /\ Saving /\ job.writes # <<>> /\ budget.faults > 0
  /\ budget' = [budget EXCEPT !.faults = @ - 1, !.torn = @ \/ Torn]
  /\ job' = [NoJob EXCEPT !.phase = "revert", !.accepted = job.accepted]
  /\ UNCHANGED <<disk, node>>

\* What RevertBlockHandler puts back: the parent's height in memory, or else
\* the last block of the database.
PreviousOf(b) ==
  LET inMemory == {c \in node.window : HeightOf[c] = HeightOf[b] - 1}
  IN  IF inMemory # {} THEN inMemory ELSE GetLastBlock

RevertBlock ==
  /\ node.up /\ job.phase = "revert" /\ job.accepted # <<>>
  /\ \E p \in PreviousOf(Last(job.accepted)) :
       /\ HeightOf[p] + 1 = HeightOf[Last(job.accepted)]
       /\ node' = [node EXCEPT !.window = PushLastBlock(@, p)]
  /\ job' = [job EXCEPT !.accepted = Front(@)]
  /\ UNCHANGED <<disk, budget>>

Reverted ==
  /\ node.up /\ job.phase = "revert" /\ job.accepted = <<>>
  /\ job' = NoJob
  /\ UNCHANGED <<disk, node, budget>>

\* No previous block of the right height: the state is corrupted, exit(1).
Corrupted ==
  /\ node.up /\ job.phase = "revert" /\ job.accepted # <<>>
  /\ \A p \in PreviousOf(Last(job.accepted)) : HeightOf[p] + 1 # HeightOf[Last(job.accepted)]
  /\ node' = [node EXCEPT !.up = FALSE]
  /\ UNCHANGED <<disk, job, budget>>

\* The application of a block fails after it became the last one: it is
\* reverted and rejected, which ends the chunk.
ApplyFails(b) ==
  /\ Running /\ budget.faults > 0
  /\ b # Genesis /\ Previous[b] = LastBlock
  /\ budget' = [budget EXCEPT !.faults = @ - 1]
  /\ node' = [node EXCEPT !.window = PushLastBlock(PushLastBlock(@, b), Previous[b])]
  /\ job' = EndOfChunk
  /\ UNCHANGED disk

Crash ==
  /\ node.up /\ budget.crashes > 0
  /\ budget' = [budget EXCEPT !.crashes = @ - 1, !.torn = @ \/ Torn]
  /\ node' = [node EXCEPT !.up = FALSE]
  /\ UNCHANGED <<disk, job>>

\* Faulty variant: the database is not asked.
RestartAtGenesis ==
  /\ ~node.up
  /\ job' = NoJob
  /\ node' = [up |-> TRUE, window |-> {Genesis}, stored |-> 1]
  /\ UNCHANGED <<disk, budget>>

\* initializeLastBlock: the last block of the database; if there is none, the
\* genesis block, which becomes the last one once it is saved.  The stored
\* height starts at 1.
Restart ==
  /\ ~node.up
  /\ \/ \E b \in GetLastBlock :
          /\ node' = [up |-> TRUE, window |-> {b}, stored |-> 1]
          /\ job' = NoJob
     \/ /\ GetLastBlock = {}
        /\ node' = [up |-> TRUE, window |-> {}, stored |-> 1]
        /\ job' = [NoJob EXCEPT !.phase = "save", !.accepted = <<Genesis>>, !.todo = <<Genesis>>]
  /\ UNCHANGED <<disk, budget>>

-----------------------------------------------------------------------------
Init ==
  /\ disk = [blocks |-> {}, heights |-> {}, transactions |-> {}]
  /\ node = [up |-> FALSE, window |-> {}, stored |-> 1]
  /\ job = NoJob
  /\ budget = [crashes |-> MaxCrashes, faults |-> MaxFaults, torn |-> FALSE]

Next ==
  \/ \E b \in Block : AcceptBlock(b) \/ ApplyFails(b)
  \/ SaveBlocks \/ SaveNext \/ Write \/ Saved \/ SaveFails
  \/ RevertBlock \/ Reverted \/ Corrupted
  \/ Crash \/ Restart

Spec == Init /\ [][Next]_vars

-----------------------------------------------------------------------------
\* Properties.

\* The storages hold blocks and transactions, at most one id by height.
TypeOK ==
  /\ disk.blocks \subseteq Block /\ disk.transactions \subseteq TxsOf(Block)
  /\ disk.heights \subseteq [height : Nat \ {0}, block : Block]
  /\ \A i, j \in disk.heights : i.height = j.height => i = j
  /\ node.up \in BOOLEAN /\ node.window \subseteq Block /\ Cardinality(node.window) <= MaxLastBlocks
  /\ job.phase \in {"process", "save", "revert"}

\* Whatever is interrupted, an indexed id is that of a stored block of that
\* height, and a stored transaction belongs to a stored block: otherwise
\* getLastBlock reads a database that has blocks as empty, and the node starts
\* again from the genesis block.
IndexRefersToBlocks ==
  /\ \A i \in disk.heights : i.block \in disk.blocks /\ HeightOf[i.block] = i.height
  /\ disk.transactions \subseteq TxsOf(disk.blocks)

\* Unless a block was torn apart by a crash or a failed write, every stored
\* block has its height indexed (for it or a block that replaced it) and its
\* transactions stored, the block that is being written aside.
StoredWhole ==
  ~budget.torn =>
    \A b \in disk.blocks :
      \/ node.up /\ job.phase = "save" /\ b \in ToSet(job.accepted)
      \/ (\E i \in disk.heights : i.height = HeightOf[b]) /\ ToSet(Transactions[b]) \subseteq disk.transactions

\* Unless a block was torn apart, no transaction is twice in the chain: the
\* check sees the stored blocks in the database and the others in memory.
NoTransactionTwice ==
  node.up /\ node.window # {} /\ ~budget.torn =>
    \A b, c \in Chain[LastBlock] : b # c => ToSet(Transactions[b]) \cap ToSet(Transactions[c]) = {}

\* A block in memory at or below the stored height is on disk: it is not
\* looked for in memory.
StoredHeightIsOnDisk ==
  node.up => \A b \in node.window : HeightOf[b] <= node.stored => b \in disk.blocks

\* Unless a block was torn apart, a restart loses no block that was stored.
\* (A node that is down has kept its last stored height only for this.)
RestartFindsStored ==
  ~node.up /\ node'.up /\ ~budget.torn /\ node.stored > 1 =>
    node'.window # {} /\ HeightOf[LastBlock'] >= node.stored

\* Whatever is interrupted, the height index refers to stored blocks; a block
\* no crash tore apart is stored whole, none of its transactions is in the chain
\* twice, and one at or below the stored height is on disk.
DatabaseConsistent == IndexRefersToBlocks /\ StoredWhole /\ NoTransactionTwice /\ StoredHeightIsOnDisk

\* RestartFindsStored, of every step.
RestartKeepsStored == [][RestartFindsStored]_vars

\* Does not hold (README, section 5):
\* Says the check of verifyBlockchain that is commented out: outside a job,
\* the last height equals the number of stored blocks.
LastHeightIsCount ==
  node.up /\ job = NoJob =>
    \A b \in GetLastBlock : HeightOf[b] = Cardinality(disk.blocks)
=============================================================================
