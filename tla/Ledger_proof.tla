--------------------------- MODULE Ledger_proof ---------------------------
(***************************************************************************)
(* Whatever crashes and whichever writes fail, the database is consistent  *)
(* and a restart finds what was stored (Database), and what a peer was     *)
(* answered meanwhile is true of it (Server): for any blocks, windows and  *)
(* chunks, and any number of crashes and faults.  Beside it, and with no   *)
(* variable in common, the rounds of validators (RoundState).              *)
(***************************************************************************)
EXTENDS Ledger, FiniteSetTheorems, SequenceTheorems, WellFoundedInduction, TLAPS

-----------------------------------------------------------------------------
\* The inductive invariant. The window: its blocks have different heights, and
\* unless it is the lowest, the parent of each is in it.
OnePerHeight(W) == \A b, c \in W : HeightOf[b] = HeightOf[c] => b = c
Linked(W) == \A b, c \in W : HeightOf[c] < HeightOf[b] => Previous[b] \in W
Windowed(W) ==
  /\ W \subseteq Block /\ IsFiniteSet(W) /\ Cardinality(W) <= MaxLastBlocks
  /\ OnePerHeight(W) /\ Linked(W)
IsTop(t, W) == t \in W /\ \A c \in W : HeightOf[c] <= HeightOf[t]

\* No transaction is twice in the chain of b.
NoneTwice(b) ==
  \A c, d \in Chain[b] : c # d => ToSet(Transactions[c]) \cap ToSet(Transactions[d]) = {}

Accepted == ToSet(job.accepted)
\* The block whose own write is the next one.
BeingWritten ==
  {b \in Block : job.writes # <<>> /\ job.writes[1].to = "blocks" /\ job.writes[1].what = b}

WriteType == [to : {"blocks", "heights"}, what : Block] \cup [to : {"transactions"}, what : TxsOf(Block)]
JobType ==
  [phase : {"process", "save", "revert"}, accepted : Seq(Block), todo : Seq(Block), writes : Seq(WriteType)]
Types ==
  /\ disk \in [blocks : SUBSET Block, heights : SUBSET [height : Nat \ {0}, block : Block],
               transactions : SUBSET TxsOf(Block)]
  /\ node \in [up : BOOLEAN, window : SUBSET Block, stored : Nat \ {0}]
  /\ job \in JobType
  /\ budget \in [crashes : Nat, faults : Nat, torn : BOOLEAN]

\* The index has one block a height, which is stored, and a greatest height.
IndexSound ==
  /\ IndexRefersToBlocks
  /\ \A i, j \in disk.heights : i.height = j.height => i = j
  /\ \E n \in Nat : \A i \in disk.heights : i.height <= n
StoredRooted == Rooted(disk.blocks)

\* The phases of the job: only the genesis block is saved without a window.
JobShape ==
  /\ job.phase # "save" => job.todo = <<>> /\ job.writes = <<>>
  /\ job.phase = "save" => job.accepted # <<>>
  /\ Len(job.accepted) <= MaxChunk
  /\ node.up /\ node.window = {} =>
       job.phase # "process" /\ job.accepted = <<Genesis>> /\ node.stored = 1

\* Every write after the first is of a height or a transaction of a block that
\* is stored, or that the first write stores.
WritesSound ==
  /\ \A i \in DOMAIN job.writes : i > 1 => job.writes[i].to # "blocks"
  /\ \A i \in DOMAIN job.writes :
       /\ job.writes[i].to = "blocks"  => job.writes[i].what \notin disk.blocks
       /\ job.writes[i].to = "heights" => job.writes[i].what \in disk.blocks \cup BeingWritten
       /\ job.writes[i].to = "transactions" =>
            job.writes[i].what \in TxsOf(disk.blocks \cup BeingWritten)

\* What is stored of b, or will be by the writes of the block.
HeightIndexed(b) == \E i \in disk.heights : i.height = HeightOf[b]
Whole(b) == HeightIndexed(b) /\ ToSet(Transactions[b]) \subseteq disk.transactions
Follows(w) == \E i \in DOMAIN job.writes : job.writes[i] = w
WillBeWhole(b) ==
  /\ HeightIndexed(b) \/ Follows([to |-> "heights", what |-> b])
  /\ \A t \in ToSet(Transactions[b]) :
       t \in disk.transactions \/ Follows([to |-> "transactions", what |-> t])
BlocksWhole ==
  /\ ~budget.torn =>
       \A b \in disk.blocks :
         \/ Whole(b)
         \/ node.up /\ job.phase = "save" /\ b \in Accepted /\ Torn /\ WillBeWhole(b)
  /\ \A b \in BeingWritten : b \in Accepted /\ WillBeWhole(b)

\* What is saved goes on from what is stored.
SavesInOrder ==
  /\ \A i \in DOMAIN job.todo :
       \/ job.todo[i] = Genesis
       \/ Previous[job.todo[i]] \in disk.blocks \cup BeingWritten
       \/ \E j \in 1..(i - 1) : job.todo[j] = Previous[job.todo[i]]
  /\ \A b \in BeingWritten : b = Genesis \/ Previous[b] \in disk.blocks
  /\ ToSet(job.todo) \subseteq Accepted
  /\ job.phase = "save" => Accepted \subseteq disk.blocks \cup BeingWritten \cup ToSet(job.todo)

\* The accepted blocks are the last ones of the window, in order, and only they
\* may not be stored.
WindowOfJob ==
  /\ Windowed(node.window)
  /\ node.up =>
    /\ \A b \in node.window \ disk.blocks : b \in Accepted
    /\ \A b \in node.window \ disk.blocks : b # Genesis /\ Previous[b] \in node.window \cup disk.blocks
    /\ node.window # {} =>
         /\ \E t \in node.window : 
               /\ IsTop(t, node.window) /\ node.stored <= HeightOf[t]
               /\ job.accepted # <<>> => t = job.accepted[Len(job.accepted)]
         /\ Accepted \subseteq node.window
         /\ \A b \in node.window \ Accepted, c \in Accepted : HeightOf[b] < HeightOf[c]
         /\ \A b \in Accepted : node.stored < HeightOf[b]
         /\ \A i, j \in DOMAIN job.accepted : i < j => HeightOf[job.accepted[i]] < HeightOf[job.accepted[j]]
         /\ \A i \in DOMAIN job.accepted :
              /\ job.accepted[i] # Genesis
              /\ \/ Previous[job.accepted[i]] \in disk.blocks
                 \/ \E j \in 1..(i - 1) : job.accepted[j] = Previous[job.accepted[i]]

NoneTwiceAnywhere ==
  ~budget.torn =>
    /\ \A b \in disk.blocks : NoneTwice(b)
    /\ node.up => \A b \in node.window \cup Accepted : NoneTwice(b)

StoredIsIndexed ==
  ~budget.torn /\ node.stored > 1 => \E i \in disk.heights : i.height >= node.stored

IInv ==
  /\ Types /\ IndexSound /\ StoredRooted /\ JobShape /\ WritesSound /\ BlocksWhole
  /\ SavesInOrder /\ WindowOfJob /\ NoneTwiceAnywhere /\ StoredIsIndexed
  /\ StoredHeightIsOnDisk

-----------------------------------------------------------------------------
\* Numbers and chains.

\* A set of naturals that is not empty has a least one.
LEMMA NatMin ==
  ASSUME NEW S \in SUBSET Nat, S # {}
  PROVE  \E n \in S : \A m \in S : n <= m
<1> DEFINE R == OpToRel(<, Nat)
<1>1. PICK n \in S : \A m \in S : <<m, n>> \notin R
  <2> HIDE DEF R
  <2>1. IsWellFoundedOn(R, Nat)
    BY NatLessThanWellFounded DEF R
  <2> QED BY <2>1, WFMin
<1>2. \A m, k \in Nat : m < k => <<m, k>> \in R
  BY DEF OpToRel
<1> HIDE DEF R
<1>3. \A m \in S : m \in Nat /\ n \in Nat /\ ~(m < n)
  BY <1>1, <1>2
<1>4. \A m \in S : n <= m
  BY <1>3
<1> QED BY <1>4

\* A block is in its own chain.
LEMMA InOwnChain == \A b \in Block : b \in Chain[b]
  BY DEF Chain

\* A chain is within every set that holds the block and the parents of its own.
LEMMA ChainWithin ==
  ASSUME NEW b \in Block, NEW S \in SUBSET Block, b \in S, Rooted(S)
  PROVE  Chain[b] \subseteq S
  BY DEF Chain

\* The chain of the genesis block is that block.
LEMMA ChainOfGenesis ==
  ASSUME DatabaseAssumption
  PROVE  Chain[Genesis] = {Genesis}
<1>1. Genesis \in Block
  BY DEF DatabaseAssumption
<1>2. Rooted({Genesis})
  BY DEF Rooted
<1>3. Chain[Genesis] \subseteq {Genesis}
  BY <1>1, <1>2, ChainWithin
<1> QED BY <1>1, <1>3, InOwnChain

\* The chain of a block is that block and the chain of its parent.
LEMMA ChainOfChild ==
  ASSUME DatabaseAssumption, NEW b \in Block
  PROVE  Chain[b] \subseteq {b} \cup Chain[Previous[b]]
<1> DEFINE S == {b} \cup Chain[Previous[b]]
<1>1. Previous[b] \in Block /\ Previous \in [Block -> Block]
  BY DEF DatabaseAssumption
<1>2. S \in SUBSET Block
  BY <1>1 DEF Chain
<1>3. ASSUME NEW a \in Chain[Previous[b]], a # Genesis
      PROVE  Previous[a] \in Chain[Previous[b]]
  <2>1. a \in Block /\ Previous[a] \in Block
    BY <1>1 DEF Chain
  <2>2. ASSUME NEW T \in SUBSET Block, Previous[b] \in T, Rooted(T)
        PROVE  Previous[a] \in T
    <3>1. a \in T
      BY <1>1, <1>3, <2>2, ChainWithin
    <3> QED BY <3>1, <1>3, <2>2 DEF Rooted
  <2> QED BY <1>1, <2>1, <2>2 DEF Chain
<1>4. Rooted(S)
  BY <1>1, <1>3, InOwnChain DEF Rooted
<1> HIDE DEF S
<1>5. b \in S
  BY DEF S
<1>6. Chain[b] \subseteq S
  BY <1>2, <1>4, <1>5, ChainWithin
<1> QED BY <1>6 DEF S

-----------------------------------------------------------------------------
\* The window.

\* The last block is the highest of the window.
LEMMA LastIsTop ==
  ASSUME DatabaseAssumption, Windowed(node.window), NEW t, IsTop(t, node.window)
  PROVE  LastBlock = t
<1>1. \A b \in node.window : HeightOf[b] \in Nat
  BY DEF DatabaseAssumption, Windowed
<1>2. \A b \in node.window : (\A c \in node.window : HeightOf[c] <= HeightOf[b]) => b = t
  BY <1>1 DEF Windowed, IsTop, OnePerHeight
<1> QED BY <1>2 DEF LastBlock, IsTop

\* Without its lowest block a window is still linked.
LEMMA AboveLowest ==
  ASSUME DatabaseAssumption, NEW K \in SUBSET Block, OnePerHeight(K), Linked(K),
         NEW m \in K, \A c \in K : HeightOf[m] <= HeightOf[c]
  PROVE  Linked(K \ {m})
<1> SUFFICES ASSUME NEW x \in K \ {m}, NEW y \in K \ {m}, HeightOf[y] < HeightOf[x]
             PROVE  Previous[x] \in K \ {m}
  BY DEF Linked
<1>1. /\ \A c \in Block : HeightOf[c] \in Nat \ {0}
      /\ \A c \in Block \ {Genesis} : HeightOf[c] = HeightOf[Previous[c]] + 1
      /\ HeightOf[Genesis] = 1
  BY DEF DatabaseAssumption
<1>2. x \in K /\ y \in K /\ x \in Block /\ y \in Block /\ y # m /\ m \in Block
  OBVIOUS
<1>3. Previous[x] \in K
  BY <1>2 DEF Linked
<1>4. HeightOf[m] < HeightOf[y]
  BY <1>1, <1>2 DEF OnePerHeight
<1>5. HeightOf[x] = HeightOf[Previous[x]] + 1
  BY <1>1, <1>2
<1> QED BY <1>1, <1>2, <1>3, <1>4, <1>5

\* A block that follows the highest one becomes the highest one; if the window
\* is too long, its lowest block is dropped.
LEMMA PushNext ==
  ASSUME DatabaseAssumption, NEW W, Windowed(W), NEW t, IsTop(t, W),
         NEW b \in Block, b # Genesis, Previous[b] = t
  PROVE  LET P == PushLastBlock(W, b)
         IN  /\ Windowed(P) /\ IsTop(b, P)
             /\ \/ P = W \cup {b}
                \/ \E m \in W : /\ P = (W \cup {b}) \ {m}
                                 /\ \A c \in W : HeightOf[m] <= HeightOf[c]
                                 /\ Cardinality(W \cup {b}) > MaxLastBlocks
<1> DEFINE P == PushLastBlock(W, b)
<1> DEFINE K == W \cup {b}
<1>1. /\ \A c \in Block : HeightOf[c] \in Nat \ {0} /\ Previous[c] \in Block
      /\ \A c \in Block \ {Genesis} : HeightOf[c] = HeightOf[Previous[c]] + 1
      /\ MaxLastBlocks \in Nat \ {0} /\ HeightOf[Genesis] = 1
  BY DEF DatabaseAssumption
<1>2. W \subseteq Block /\ t \in W /\ t \in Block /\ \A c \in W : HeightOf[c] < HeightOf[b]
  BY <1>1 DEF Windowed, IsTop
<1>3. {c \in W : HeightOf[c] < HeightOf[b]} \cup {b} = K
  BY <1>2
<1>4. /\ IsFiniteSet(K) /\ b \notin W /\ Cardinality(K) = Cardinality(W) + 1
      /\ Cardinality(K) \in Nat /\ Cardinality(W) \in Nat
  BY <1>1, <1>2, FS_AddElement, FS_CardinalityType DEF Windowed
<1>5. OnePerHeight(K)
  BY <1>1, <1>2 DEF OnePerHeight, Windowed
<1>6. Linked(K)
  BY <1>1, <1>2 DEF Linked, Windowed
<1>7. CASE Cardinality(K) <= MaxLastBlocks
  <2>1. P = K
    BY <1>3, <1>7, <1>4, <1>1 DEF PushLastBlock
  <2>2. Windowed(K) /\ IsTop(b, K)
    BY <1>1, <1>2, <1>4, <1>5, <1>6, <1>7 DEF Windowed, IsTop
  <2> QED BY <2>1, <2>2
<1>8. CASE Cardinality(K) > MaxLastBlocks
  <2>1. P = {c \in K : \E d \in K : HeightOf[d] < HeightOf[c]}
    BY <1>3, <1>8 DEF PushLastBlock
  <2>2. PICK m \in W : \A c \in W : HeightOf[m] <= HeightOf[c]
    <3> DEFINE H == {HeightOf[c] : c \in W}
    <3>1. H # {} /\ H \in SUBSET Nat
      BY <1>1, <1>2
    <3> HIDE DEF H
    <3>2. PICK h \in H : \A k \in H : h <= k
      BY <3>1, NatMin
    <3> QED BY <3>2 DEF H
  <2>3. \A c \in K : HeightOf[m] <= HeightOf[c]
    BY <1>1, <1>2, <2>2
  <2>4. P = K \ {m}
    BY <1>1, <1>2, <1>5, <2>1, <2>2, <2>3 DEF OnePerHeight
  <2>5. /\ IsFiniteSet(P) /\ Cardinality(P) = Cardinality(K) - 1
    BY <1>4, <2>2, <2>4, FS_RemoveElement
  <2>6. OnePerHeight(P)
    BY <1>5, <2>4 DEF OnePerHeight
  <2>7. Linked(P)
    BY <1>2, <1>5, <1>6, <2>2, <2>3, <2>4, AboveLowest
  <2>8. Windowed(P)
    BY <1>1, <1>2, <1>4, <2>4, <2>5, <2>6, <2>7 DEF Windowed
  <2>9. IsTop(b, P)
    BY <1>1, <1>2, <1>4, <2>2, <2>4 DEF IsTop
  <2> QED BY <1>8, <2>2, <2>4, <2>8, <2>9
<1> QED BY <1>4, <1>1, <1>7, <1>8

\* Going back to the block below the highest one takes the highest one away.
LEMMA PushBelow ==
  ASSUME DatabaseAssumption, NEW W, Windowed(W), NEW t, IsTop(t, W),
         NEW p \in W, HeightOf[p] + 1 = HeightOf[t]
  PROVE  PushLastBlock(W, p) = W \ {t} /\ Windowed(W \ {t}) /\ IsTop(p, W \ {t})
<1>1. /\ W \subseteq Block /\ t \in W /\ IsFiniteSet(W) /\ Cardinality(W) <= MaxLastBlocks
      /\ \A c \in W : HeightOf[c] \in Nat /\ HeightOf[c] <= HeightOf[t]
      /\ MaxLastBlocks \in Nat
  BY DEF DatabaseAssumption, Windowed, IsTop
<1>2. {c \in W : HeightOf[c] < HeightOf[p]} \cup {p} = W \ {t}
  <2>1. ASSUME NEW c \in W, c # t, c # p PROVE HeightOf[c] < HeightOf[p]
    <3>1. HeightOf[c] # HeightOf[t] /\ HeightOf[c] # HeightOf[p]
      BY <1>1, <2>1 DEF Windowed, OnePerHeight
    <3> QED BY <1>1, <3>1
  <2>2. t # p /\ ~(HeightOf[t] < HeightOf[p])
    BY <1>1
  <2> QED BY <1>1, <2>1, <2>2
<1>3. /\ IsFiniteSet(W \ {t}) /\ Cardinality(W \ {t}) = Cardinality(W) - 1
      /\ Cardinality(W) \in Nat /\ Cardinality(W \ {t}) \in Nat
  BY <1>1, FS_RemoveElement, FS_CardinalityType
<1>4. PushLastBlock(W, p) = W \ {t}
  <2>1. ~(Cardinality(W \ {t}) > MaxLastBlocks)
    BY <1>1, <1>3
  <2> QED BY <1>2, <2>1, Zenon DEF PushLastBlock
<1>5. OnePerHeight(W \ {t})
  BY DEF Windowed, OnePerHeight
<1>6. \A c \in W : HeightOf[c] < HeightOf[t] => c # t
  BY <1>1
<1>7. Linked(W \ {t})
  <2> SUFFICES ASSUME NEW x \in W \ {t}, NEW y \in W \ {t}, HeightOf[y] < HeightOf[x]
               PROVE  Previous[x] \in W \ {t}
    BY DEF Linked
  <2>1. Previous[x] \in W
    BY DEF Windowed, Linked
  <2>2. x # Genesis /\ HeightOf[x] = HeightOf[Previous[x]] + 1
    BY <1>1 DEF DatabaseAssumption
  <2> QED BY <1>1, <2>1, <2>2
<1>8. IsTop(p, W \ {t})
  BY <1>1, <1>2 DEF IsTop
<1> QED BY <1>1, <1>3, <1>4, <1>5, <1>7, <1>8 DEF Windowed

\* A window of one block.
LEMMA OneBlockWindow ==
  ASSUME DatabaseAssumption, NEW p \in Block
  PROVE  Windowed({p}) /\ IsTop(p, {p}) /\ Cardinality({p}) <= MaxLastBlocks
<1>1. IsFiniteSet({p}) /\ Cardinality({p}) = 1
  BY FS_Singleton
<1>2. HeightOf[p] \in Nat /\ MaxLastBlocks \in Nat \ {0}
  BY DEF DatabaseAssumption
<1> QED BY <1>1, <1>2 DEF Windowed, IsTop, OnePerHeight, Linked

\* A block below all of the window becomes the only one.
LEMMA PushAlone ==
  ASSUME DatabaseAssumption, NEW W, NEW p \in Block, \A c \in W : ~(HeightOf[c] < HeightOf[p])
  PROVE  PushLastBlock(W, p) = {p}
<1>1. {c \in W : HeightOf[c] < HeightOf[p]} \cup {p} = {p}
  OBVIOUS
<1>2. Cardinality({p}) <= MaxLastBlocks /\ Cardinality({p}) = 1 /\ MaxLastBlocks \in Nat
  BY OneBlockWindow, FS_Singleton DEF DatabaseAssumption
<1> QED BY <1>1, <1>2 DEF PushLastBlock

\* A block that is pushed and taken back leaves the window, unless the lowest
\* block had to go.
LEMMA PushAndBack ==
  ASSUME DatabaseAssumption, NEW W, Windowed(W), NEW t, IsTop(t, W),
         NEW b \in Block, b # Genesis, Previous[b] = t
  PROVE  LET Q == PushLastBlock(PushLastBlock(W, b), t)
         IN  /\ Windowed(Q) /\ IsTop(t, Q)
             /\ \/ Q = W
                \/ \E m \in W : /\ Q = W \ {m}
                                 /\ \A c \in W : HeightOf[m] <= HeightOf[c]
                                 /\ Cardinality(W \cup {b}) > MaxLastBlocks
<1> DEFINE P == PushLastBlock(W, b)
<1> DEFINE Q == PushLastBlock(P, t)
<1> DEFINE K == {c \in P : HeightOf[c] < HeightOf[t]} \cup {t}
<1>1. /\ W \subseteq Block /\ t \in W /\ IsFiniteSet(W) /\ Cardinality(W) <= MaxLastBlocks
      /\ \A c \in W : HeightOf[c] \in Nat /\ HeightOf[c] <= HeightOf[t]
      /\ HeightOf[b] = HeightOf[t] + 1
      /\ MaxLastBlocks \in Nat /\ Cardinality(W) \in Nat
      /\ \A c \in W : HeightOf[c] = HeightOf[t] => c = t
  BY FS_CardinalityType DEF DatabaseAssumption, Windowed, IsTop, OnePerHeight
<1>2. \/ P = W \cup {b}
      \/ \E m \in W : /\ P = (W \cup {b}) \ {m}
                       /\ \A c \in W : HeightOf[m] <= HeightOf[c]
                       /\ Cardinality(W \cup {b}) > MaxLastBlocks
  BY PushNext
<1>3. \/ K = W
      \/ \E m \in W : /\ K = W \ {m} /\ m # t
                       /\ \A c \in W : HeightOf[m] <= HeightOf[c]
                       /\ Cardinality(W \cup {b}) > MaxLastBlocks
  <2>1. CASE P = W \cup {b}
    BY <1>1, <2>1
  <2>2. ASSUME NEW m \in W, P = (W \cup {b}) \ {m}, \A c \in W : HeightOf[m] <= HeightOf[c],
               Cardinality(W \cup {b}) > MaxLastBlocks
        PROVE  \/ K = W
               \/ m # t /\ K = W \ {m}
    <3>1. CASE m = t
      <4>1. \A c \in W : c = t
        BY <1>1, <2>2, <3>1
      <4> QED BY <1>1, <4>1, <2>2, <3>1
    <3>2. CASE m # t
      BY <1>1, <2>2, <3>2
    <3> QED BY <3>1, <3>2
  <2> QED BY <1>2, <2>1, <2>2
<1>4. /\ K \subseteq W /\ t \in K /\ IsFiniteSet(K) /\ Cardinality(K) <= MaxLastBlocks
      /\ Cardinality(K) \in Nat
  <2>1. K \subseteq W /\ t \in K
    BY <1>3, <1>1
  <2> HIDE DEF K
  <2>2. IsFiniteSet(K) /\ Cardinality(K) <= Cardinality(W) /\ Cardinality(K) \in Nat
    BY <1>1, <2>1, FS_Subset, FS_CardinalityType
  <2> QED BY <1>1, <2>1, <2>2
<1>5. Q = K
  <2>1. Q = IF Cardinality(K) > MaxLastBlocks
            THEN {c \in K : \E d \in K : HeightOf[d] < HeightOf[c]} ELSE K
    BY DEF PushLastBlock
  <2> HIDE DEF K, Q
  <2> QED BY <2>1, <1>1, <1>4
<1> HIDE DEF Q, K
<1>6. OnePerHeight(K)
  BY <1>4 DEF Windowed, OnePerHeight
<1>7. Linked(K)
  BY <1>1, <1>3, AboveLowest DEF Windowed
<1>8. Windowed(Q) /\ IsTop(t, Q)
  BY <1>1, <1>4, <1>5, <1>6, <1>7 DEF Windowed, IsTop
<1> QED BY <1>3, <1>5, <1>8 DEF Q, P

\* A job that goes on has room in the window for all it accepted.
LEMMA AcceptedFit ==
  ASSUME DatabaseAssumption, NEW s \in Seq(Block), Len(s) < MaxChunk,
         NEW b, NEW K \in SUBSET (ToSet(s) \cup {b})
  PROVE  ~(Cardinality(K) > MaxLastBlocks)
<1>1. IsFiniteSet(1..Len(s)) /\ Cardinality(1..Len(s)) = Len(s) /\ Len(s) \in Nat
  BY FS_Interval
<1>2. s \in Surjection(1..Len(s), ToSet(s))
  BY DEF Surjection, ToSet
<1>3. IsFiniteSet(ToSet(s)) /\ Cardinality(ToSet(s)) <= Len(s) /\ Cardinality(ToSet(s)) \in Nat
  <2>1. IsFiniteSet(ToSet(s)) /\ Cardinality(ToSet(s)) <= Cardinality(1..Len(s))
    BY <1>1, <1>2, FS_Surjection
  <2> QED BY <1>1, <2>1, FS_CardinalityType
<1>4. /\ IsFiniteSet(ToSet(s) \cup {b}) /\ Cardinality(ToSet(s) \cup {b}) <= Len(s) + 1
      /\ Cardinality(ToSet(s) \cup {b}) \in Nat
  <2>1. /\ IsFiniteSet(ToSet(s) \cup {b})
        /\ \/ Cardinality(ToSet(s) \cup {b}) = Cardinality(ToSet(s))
           \/ Cardinality(ToSet(s) \cup {b}) = Cardinality(ToSet(s)) + 1
    BY <1>3, FS_AddElement
  <2> QED BY <1>1, <1>3, <2>1
<1>5. Cardinality(K) <= Cardinality(ToSet(s) \cup {b}) /\ Cardinality(K) \in Nat
  BY <1>4, FS_Subset, FS_CardinalityType
<1>6. MaxChunk \in Nat /\ MaxLastBlocks \in Nat /\ MaxChunk <= MaxLastBlocks
  BY DEF DatabaseAssumption
<1> QED BY <1>1, <1>4, <1>5, <1>6

-----------------------------------------------------------------------------
\* The invariant holds at first, and every action keeps it.

\* A database that is empty is sound.
LEMMA InitSound ==
  ASSUME DatabaseAssumption, Init
  PROVE  IInv
<1>1. Types
  BY DEF DatabaseAssumption, Init, Types, JobType, NoJob
<1>2. IndexSound /\ StoredRooted
  <2>1. \A i \in disk.heights : i.height <= 0
    BY DEF Init
  <2> QED BY <2>1 DEF Init, IndexSound, IndexRefersToBlocks, StoredRooted, Rooted
<1>3. JobShape /\ WritesSound /\ BlocksWhole /\ SavesInOrder
  BY DEF DatabaseAssumption, Init, NoJob, JobShape, WritesSound, BlocksWhole, SavesInOrder, BeingWritten, ToSet
<1>4. WindowOfJob /\ NoneTwiceAnywhere /\ StoredIsIndexed /\ StoredHeightIsOnDisk
  <2>1. Windowed({})
    BY FS_EmptySet DEF DatabaseAssumption, Windowed, OnePerHeight, Linked
  <2> QED BY <2>1 DEF Init, WindowOfJob, NoneTwiceAnywhere, StoredIsIndexed, StoredHeightIsOnDisk
<1> QED BY <1>1, <1>2, <1>3, <1>4 DEF IInv

\* A node that stops leaves what is stored.
LEMMA CrashKeeps ==
  ASSUME DatabaseAssumption, IInv, Crash
  PROVE  IInv'
<1>1. /\ node' = [node EXCEPT !.up = FALSE] /\ node.up
      /\ budget' = [budget EXCEPT !.crashes = @ - 1, !.torn = @ \/ Torn] /\ budget.crashes > 0
      /\ disk' = disk /\ job' = job
  BY DEF Crash
<1>2. Types /\ node'.up = FALSE /\ node'.window = node.window /\ node'.stored = node.stored
      /\ budget'.torn = (budget.torn \/ Torn)
  BY <1>1 DEF IInv, Types, JobType
<1>3. Types'
  <2>1. PICK x \in BOOLEAN : budget' = [budget EXCEPT !.crashes = @ - 1, !.torn = x]
    BY <1>1
  <2>2. Types /\ budget.crashes > 0 /\ disk' = disk /\ job' = job /\ node' = [node EXCEPT !.up = FALSE]
    BY <1>1, <1>2
  <2>3. budget \in [crashes : Nat, faults : Nat, torn : BOOLEAN]
    BY <2>2 DEF Types, JobType
  <2>4. budget.crashes - 1 \in Nat
    BY <2>2, <2>3
  <2>5. budget' \in [crashes : Nat, faults : Nat, torn : BOOLEAN]
    BY <2>1, <2>3, <2>4
  <2>6. node' \in [up : BOOLEAN, window : SUBSET Block, stored : Nat \ {0}]
    BY <2>2 DEF Types, JobType
  <2> QED BY <2>2, <2>5, <2>6 DEF Types, JobType
<1>4. IndexSound' /\ StoredRooted'
  BY <1>1, <1>2 DEF IInv, IndexSound, IndexRefersToBlocks, StoredRooted, Rooted
<1>5. JobShape' /\ WritesSound' /\ SavesInOrder'
  BY <1>1, <1>2 DEF IInv, JobShape, WritesSound, SavesInOrder, BeingWritten, Accepted
<1>6. BlocksWhole'
  BY <1>1, <1>2 DEF IInv, BlocksWhole, Whole, WillBeWhole, HeightIndexed, Follows, BeingWritten, Accepted
<1>7. WindowOfJob' /\ NoneTwiceAnywhere' /\ StoredIsIndexed' /\ StoredHeightIsOnDisk'
  BY <1>1, <1>2 DEF IInv, WindowOfJob, NoneTwiceAnywhere, StoredIsIndexed, StoredHeightIsOnDisk
<1> QED BY <1>3, <1>4, <1>6, <1>7, <1>5 DEF IInv

\* A node that exits because of what it cannot revert leaves what is stored, too.
LEMMA CorruptedKeeps ==
  ASSUME DatabaseAssumption, IInv, Corrupted
  PROVE  IInv'
<1>1. /\ node' = [node EXCEPT !.up = FALSE] /\ job.phase = "revert"
      /\ disk' = disk /\ job' = job /\ budget' = budget
  BY DEF Corrupted
<1>2. Types /\ node'.up = FALSE /\ node'.window = node.window /\ node'.stored = node.stored
  BY <1>1 DEF IInv, Types, JobType
<1>3. Types'
  BY <1>1, <1>2 DEF Types, JobType
<1>4. IndexSound' /\ StoredRooted'
  BY <1>1, <1>2 DEF IInv, IndexSound, IndexRefersToBlocks, StoredRooted, Rooted
<1>5. JobShape' /\ WritesSound' /\ SavesInOrder'
  BY <1>1, <1>2 DEF IInv, JobShape, WritesSound, SavesInOrder, BeingWritten, Accepted
<1>6. BlocksWhole'
  BY <1>1, <1>2 DEF IInv, BlocksWhole, Whole, WillBeWhole, HeightIndexed, Follows, BeingWritten, Accepted
<1>7. WindowOfJob' /\ NoneTwiceAnywhere' /\ StoredIsIndexed' /\ StoredHeightIsOnDisk'
  BY <1>1, <1>2 DEF IInv, WindowOfJob, NoneTwiceAnywhere, StoredIsIndexed, StoredHeightIsOnDisk
<1> QED BY <1>3, <1>4, <1>6, <1>7, <1>5 DEF IInv

\* A job that ends without a save accepted nothing that is not stored.
LEMMA RevertedKeeps ==
  ASSUME DatabaseAssumption, IInv, Reverted
  PROVE  IInv'
<1>1. /\ job' = NoJob /\ job.phase = "revert" /\ job.accepted = <<>> /\ node.up
      /\ disk' = disk /\ node' = node /\ budget' = budget
  BY DEF Reverted
<1>2. Types /\ Accepted = {} /\ Accepted' = {} /\ BeingWritten' = {} /\ node.window # {}
  BY <1>1 DEF IInv, Types, JobType, Accepted, ToSet, NoJob, BeingWritten, JobShape
<1>3. Types'
  BY <1>1, <1>2 DEF Types, JobType, NoJob
<1>4. IndexSound' /\ StoredRooted' /\ StoredHeightIsOnDisk' /\ StoredIsIndexed'
  BY <1>1 DEF IInv, IndexSound, IndexRefersToBlocks, StoredRooted, Rooted, StoredHeightIsOnDisk, StoredIsIndexed
<1>5. JobShape' /\ WritesSound' /\ SavesInOrder'
  BY <1>1, <1>2 DEF IInv, DatabaseAssumption, JobShape, WritesSound, SavesInOrder, NoJob, ToSet
<1>6. BlocksWhole'
  BY <1>1, <1>2 DEF IInv, BlocksWhole, Whole, HeightIndexed
<1>7. WindowOfJob'
  BY <1>1, <1>2 DEF IInv, WindowOfJob, NoJob
<1>8. NoneTwiceAnywhere'
  BY <1>1, <1>2 DEF IInv, NoneTwiceAnywhere
<1> QED BY <1>3, <1>4, <1>5, <1>6, <1>7, <1>8 DEF IInv

\* A write that fails leaves what is stored, torn apart or not.
LEMMA SaveFailsKeeps ==
  ASSUME DatabaseAssumption, IInv, SaveFails
  PROVE  IInv'
<1>1. /\ budget' = [budget EXCEPT !.faults = @ - 1, !.torn = @ \/ Torn] /\ budget.faults > 0
      /\ job' = [NoJob EXCEPT !.phase = "revert", !.accepted = job.accepted]
      /\ disk' = disk /\ node' = node /\ node.up /\ job.phase = "save"
  BY DEF SaveFails, Saving
<1>2. /\ Types /\ budget'.torn = (budget.torn \/ Torn)
      /\ job'.phase = "revert" /\ job'.accepted = job.accepted /\ job'.todo = <<>> /\ job'.writes = <<>>
  BY <1>1 DEF IInv, Types, JobType, NoJob
<1>3. Types'
  <2>1. PICK x \in BOOLEAN : budget' = [budget EXCEPT !.faults = @ - 1, !.torn = x]
    BY <1>1
  <2>2. /\ Types /\ budget.faults > 0 /\ disk' = disk /\ node' = node
        /\ job' = [NoJob EXCEPT !.phase = "revert", !.accepted = job.accepted]
    BY <1>1, <1>2
  <2>3. budget \in [crashes : Nat, faults : Nat, torn : BOOLEAN]
    BY <2>2 DEF Types, JobType
  <2>4. budget.faults - 1 \in Nat
    BY <2>2, <2>3
  <2>5. budget' \in [crashes : Nat, faults : Nat, torn : BOOLEAN]
    BY <2>1, <2>3, <2>4
  <2>6. job.accepted \in Seq(Block)
    BY <1>2 DEF Types, JobType
  <2>7. job' = [phase |-> "revert", accepted |-> job.accepted, todo |-> <<>>, writes |-> <<>>]
    BY <2>2 DEF NoJob
  <2>8. job' \in JobType
    BY <2>6, <2>7 DEF JobType
  <2> QED BY <2>2, <2>5, <2>8, <1>2 DEF Types, JobType
<1>4. Accepted' = Accepted /\ BeingWritten' = {}
  BY <1>2 DEF Accepted, BeingWritten
<1>5. IndexSound' /\ StoredRooted' /\ StoredHeightIsOnDisk' /\ StoredIsIndexed'
  BY <1>1, <1>2 DEF IInv, IndexSound, IndexRefersToBlocks, StoredRooted, Rooted, StoredHeightIsOnDisk, StoredIsIndexed
<1>6. JobShape' /\ WritesSound'
  BY <1>1, <1>2, <1>4 DEF IInv, JobShape, WritesSound
<1>7. SavesInOrder'
  BY <1>1, <1>2, <1>4 DEF SavesInOrder, ToSet
<1>8. BlocksWhole'
  BY <1>1, <1>2, <1>4 DEF IInv, BlocksWhole, Whole, HeightIndexed
<1>9. WindowOfJob'
  BY <1>1, <1>2, <1>4 DEF IInv, WindowOfJob
<1>10. NoneTwiceAnywhere'
  BY <1>1, <1>2, <1>4 DEF IInv, NoneTwiceAnywhere
<1> QED BY <1>3, <1>5, <1>6, <1>8, <1>9, <1>10, <1>7 DEF IInv

\* A restart takes the highest indexed block, which is stored, or else saves the
\* genesis block.
LEMMA RestartKeeps ==
  ASSUME DatabaseAssumption, IInv, Restart
  PROVE  IInv'
<1>1. ~node.up /\ disk' = disk /\ budget' = budget
  BY DEF Restart
<1>2. Types /\ Genesis \in Block
  BY DEF IInv, DatabaseAssumption
<1>3. IndexSound' /\ StoredRooted'
  BY <1>1 DEF IInv, IndexSound, IndexRefersToBlocks, StoredRooted, Rooted
<1>4. ~budget.torn => \A b \in disk.blocks : Whole(b)
  BY <1>1 DEF IInv, BlocksWhole
<1>5. CASE \E b \in GetLastBlock : /\ node' = [up |-> TRUE, window |-> {b}, stored |-> 1]
                                   /\ job' = NoJob
  <2>1. PICK b \in GetLastBlock : node' = [up |-> TRUE, window |-> {b}, stored |-> 1]
    BY <1>5
  <2>2. /\ b \in disk.blocks /\ b \in Block /\ node'.up /\ node'.window = {b} /\ node'.stored = 1
        /\ job' = NoJob /\ Accepted' = {} /\ BeingWritten' = {} /\ job'.accepted = <<>>
        /\ job'.todo = <<>> /\ job'.writes = <<>> /\ job'.phase = "process"
    <3>1. b \in disk.blocks /\ b \in Block
      BY <1>2, <2>1 DEF GetLastBlock, Types
    <3>2. job' = NoJob
      BY <1>5
    <3> QED BY <2>1, <3>1, <3>2 DEF NoJob, Accepted, ToSet, BeingWritten
  <2>3. Types'
    BY <1>1, <1>2, <2>1, <2>2 DEF Types, JobType, NoJob
  <2>4. JobShape' /\ WritesSound' /\ SavesInOrder'
    BY <2>2 DEF DatabaseAssumption, JobShape, WritesSound, SavesInOrder, ToSet
  <2>5. BlocksWhole'
    BY <1>1, <1>4, <2>2 DEF BlocksWhole, Whole, HeightIndexed
  <2>6. WindowOfJob'
    <3>1. Windowed({b}) /\ IsTop(b, {b})
      BY <2>2, OneBlockWindow
    <3>2. HeightOf[b] \in Nat \ {0}
      BY <2>2 DEF DatabaseAssumption
    <3> QED BY <1>1, <2>2, <3>1, <3>2 DEF WindowOfJob
  <2>7. NoneTwiceAnywhere' /\ StoredIsIndexed' /\ StoredHeightIsOnDisk'
    BY <1>1, <2>2 DEF IInv, NoneTwiceAnywhere, StoredIsIndexed, StoredHeightIsOnDisk
  <2> QED BY <1>3, <2>3, <2>4, <2>5, <2>6, <2>7 DEF IInv
<1>6. CASE /\ node' = [up |-> TRUE, window |-> {}, stored |-> 1]
           /\ job' = [NoJob EXCEPT !.phase = "save", !.accepted = <<Genesis>>, !.todo = <<Genesis>>]
  <2>1. /\ node'.up /\ node'.window = {} /\ node'.stored = 1
        /\ job' = [phase |-> "save", accepted |-> <<Genesis>>, todo |-> <<Genesis>>, writes |-> <<>>]
    BY <1>6 DEF NoJob
  <2>2. /\ Accepted' = {Genesis} /\ BeingWritten' = {} /\ job'.accepted = <<Genesis>> /\ ToSet(job'.todo) = {Genesis}
        /\ job'.todo = <<Genesis>> /\ job'.writes = <<>> /\ job'.phase = "save"
    BY <2>1 DEF Accepted, ToSet, BeingWritten
  <2>3. Types'
    <3>1. <<Genesis>> \in Seq(Block)
      BY <1>2
    <3>2. job' \in JobType
      BY <2>1, <3>1 DEF JobType
    <3> QED BY <1>1, <1>2, <1>6, <3>2 DEF Types
  <2>4. JobShape'
    BY <2>1, <2>2 DEF DatabaseAssumption, JobShape
  <2>5. WritesSound' /\ SavesInOrder'
    BY <2>2 DEF WritesSound, SavesInOrder
  <2>6. BlocksWhole'
    BY <1>1, <1>4, <2>2 DEF BlocksWhole, Whole, HeightIndexed
  <2>7. WindowOfJob'
    <3>1. Windowed({})
      BY FS_EmptySet DEF DatabaseAssumption, Windowed, OnePerHeight, Linked
    <3> QED BY <2>1, <3>1 DEF WindowOfJob
  <2>8. NoneTwice(Genesis)
    BY ChainOfGenesis DEF NoneTwice
  <2>9. NoneTwiceAnywhere' /\ StoredIsIndexed' /\ StoredHeightIsOnDisk'
    BY <1>1, <2>1, <2>2, <2>8 DEF IInv, NoneTwiceAnywhere, StoredIsIndexed, StoredHeightIsOnDisk
  <2> QED BY <1>3, <2>3, <2>4, <2>6, <2>7, <2>9, <2>5 DEF IInv
<1> QED BY <1>5, <1>6 DEF Restart

\* The accepted blocks go to be saved in the order in which they were accepted.
LEMMA SaveBlocksKeeps ==
  ASSUME DatabaseAssumption, IInv, SaveBlocks
  PROVE  IInv'
<1>1. /\ node.up /\ job.phase = "process" /\ job.accepted # <<>>
      /\ job' = [job EXCEPT !.phase = "save", !.todo = job.accepted]
      /\ disk' = disk /\ node' = node /\ budget' = budget
  BY DEF SaveBlocks, EndOfChunk
<1>2. Types /\ JobShape /\ job.writes = <<>> /\ node.window # {}
  BY <1>1 DEF IInv, JobShape
<1>3. /\ job'.phase = "save" /\ job'.accepted = job.accepted /\ job'.todo = job.accepted /\ job'.writes = <<>>
      /\ Accepted' = Accepted /\ BeingWritten' = {} /\ ToSet(job'.todo) = Accepted /\ BeingWritten = {}
  BY <1>1, <1>2 DEF Types, JobType, Accepted, BeingWritten
<1>4. Types'
  BY <1>1, <1>2 DEF Types, JobType
<1>5. IndexSound' /\ StoredRooted' /\ StoredHeightIsOnDisk' /\ StoredIsIndexed'
  BY <1>1 DEF IInv, IndexSound, IndexRefersToBlocks, StoredRooted, Rooted, StoredHeightIsOnDisk, StoredIsIndexed
<1>6. JobShape' /\ WritesSound'
  BY <1>1, <1>2, <1>3 DEF JobShape, WritesSound
<1>7. BlocksWhole'
  BY <1>1, <1>3 DEF IInv, BlocksWhole, Whole, HeightIndexed
<1>8. SavesInOrder'
  BY <1>1, <1>2, <1>3 DEF IInv, SavesInOrder, WindowOfJob
<1>9. WindowOfJob' /\ NoneTwiceAnywhere'
  BY <1>1, <1>3 DEF IInv, WindowOfJob, NoneTwiceAnywhere
<1> QED BY <1>4, <1>5, <1>6, <1>7, <1>8, <1>9 DEF IInv

\* Once all is written, what was accepted is stored, and the last of it is the
\* last block.
LEMMA SavedKeeps ==
  ASSUME DatabaseAssumption, IInv, Saved
  PROVE  IInv'
<1>1. /\ node.up /\ job.phase = "save" /\ job.writes = <<>> /\ job.todo = <<>>
      /\ node' = [node EXCEPT !.stored = HeightOf[Last(job.accepted)],
                              !.window = IF @ = {} THEN ToSet(job.accepted) ELSE @]
      /\ job' = NoJob /\ disk' = disk /\ budget' = budget
  BY DEF Saved, Saving
<1>2. Types /\ JobShape /\ job.accepted # <<>> /\ job.accepted \in Seq(Block)
  BY <1>1 DEF IInv, JobShape, Types, JobType
<1> DEFINE l == job.accepted[Len(job.accepted)]
<1>3. l \in Accepted /\ l \in Block /\ Last(job.accepted) = l /\ HeightOf[l] \in Nat \ {0}
  BY <1>2 DEF Accepted, ToSet, Last, DatabaseAssumption
<1>4. Accepted \subseteq disk.blocks /\ BeingWritten = {}
  <2>1. BeingWritten = {}
    BY <1>1 DEF BeingWritten
  <2>2. ToSet(job.todo) = {}
    BY <1>1 DEF ToSet
  <2> QED BY <1>1, <2>1, <2>2 DEF IInv, SavesInOrder
<1>5. /\ job'.phase = "process" /\ job'.accepted = <<>> /\ job'.todo = <<>> /\ job'.writes = <<>>
      /\ Accepted' = {} /\ BeingWritten' = {}
  BY <1>1 DEF NoJob, Accepted, BeingWritten, ToSet
<1> DEFINE W == IF node.window = {} THEN Accepted ELSE node.window
<1>6. node'.up /\ node'.stored = HeightOf[l] /\ node'.window = W
  BY <1>1, <1>2, <1>3 DEF Types, JobType, Accepted
<1> HIDE DEF l
<1>7. Accepted \subseteq Block /\ W \subseteq Block
  BY <1>2 DEF Types, JobType, Accepted, ToSet
<1>8. Types'
  BY <1>1, <1>2, <1>3, <1>6, <1>7 DEF Types, JobType, NoJob
<1>9. IndexSound' /\ StoredRooted'
  BY <1>1 DEF IInv, IndexSound, IndexRefersToBlocks, StoredRooted, Rooted
<1>10. Windowed(W) /\ IsTop(l, W) /\ W # {}
  <2>1. CASE node.window = {}
    <3>1. job.accepted = <<Genesis>> /\ l = Genesis
      BY <1>1, <1>2, <2>1 DEF JobShape, l
    <3>2. W = {Genesis} /\ Genesis \in Block
      BY <2>1, <3>1 DEF Accepted, ToSet, DatabaseAssumption
    <3> QED BY <3>1, <3>2, OneBlockWindow
  <2>2. CASE node.window # {}
    BY <1>1, <1>2, <2>2 DEF IInv, WindowOfJob, l
  <2> QED BY <2>1, <2>2
<1>11. W \subseteq disk.blocks
  BY <1>1, <1>4 DEF IInv, WindowOfJob
<1> HIDE DEF W
<1>12. JobShape' /\ WritesSound' /\ SavesInOrder'
  BY <1>5, <1>6, <1>10 DEF DatabaseAssumption, JobShape, WritesSound, SavesInOrder, ToSet
<1>13. ~budget.torn => \A b \in disk.blocks : Whole(b)
  BY <1>1 DEF IInv, BlocksWhole, Torn
<1>14. BlocksWhole'
  BY <1>1, <1>5, <1>13 DEF BlocksWhole, Whole, HeightIndexed
<1>15. WindowOfJob'
  <2>1. /\ Windowed(W) /\ l \in W /\ IsTop(l, W) /\ HeightOf[l] <= HeightOf[l]
        /\ W \ disk.blocks = {}
    BY <1>3, <1>10, <1>11 DEF IsTop
  <2> QED BY <1>1, <1>5, <1>6, <2>1 DEF WindowOfJob
<1>16. NoneTwiceAnywhere' /\ StoredHeightIsOnDisk'
  BY <1>1, <1>5, <1>6, <1>11 DEF IInv, NoneTwiceAnywhere, StoredHeightIsOnDisk
<1>17. StoredIsIndexed'
  <2>1. ~budget.torn => \E i \in disk.heights : i.height = HeightOf[l]
    BY <1>3, <1>4, <1>13 DEF Whole, HeightIndexed
  <2> QED BY <1>1, <1>3, <1>6, <2>1 DEF StoredIsIndexed
<1> QED BY <1>8, <1>9, <1>12, <1>14, <1>15, <1>16, <1>17 DEF IInv

\* The writes of a block that is not stored: the block itself first, then its
\* height and each of its transactions.
LEMMA WritesOfBlock ==
  ASSUME DatabaseAssumption, NEW b \in Block, b \notin disk.blocks
  PROVE  LET w == WritesOf(b)
         IN  /\ w \in Seq(WriteType) /\ w # <<>> /\ w[1].to = "blocks" /\ w[1].what = b
             /\ \A i \in DOMAIN w : /\ i > 1 => w[i].to # "blocks"
                                    /\ w[i].to = "blocks" => w[i].what = b
                                    /\ w[i].to = "heights" => w[i].what = b
                                    /\ w[i].to = "transactions" => w[i].what \in ToSet(Transactions[b])
             /\ \E i \in DOMAIN w : w[i] = [to |-> "heights", what |-> b]
             /\ \A t \in ToSet(Transactions[b]) :
                  \E i \in DOMAIN w : w[i] = [to |-> "transactions", what |-> t]
<1> DEFINE T == Transactions[b]
<1> DEFINE first == <<[to |-> "blocks", what |-> b], [to |-> "heights", what |-> b]>>
<1> DEFINE rest == [i \in DOMAIN T |-> [to |-> "transactions", what |-> T[i]]]
<1> DEFINE w == WritesOf(b)
<1>1. w = first \o rest
  BY DEF WritesOf
<1>2. T \in Seq(ToSet(T)) /\ DOMAIN T = 1..Len(T) /\ Len(T) \in Nat
      /\ \A i \in 1..Len(T) : T[i] \in ToSet(T)
  BY DEF DatabaseAssumption
<1>3. ToSet(T) = {T[i] : i \in 1..Len(T)}
  BY <1>2 DEF ToSet
<1>4. ToSet(T) \subseteq TxsOf(Block)
  BY DEF TxsOf
<1> HIDE DEF T
<1>5. \A i \in 1..Len(T) : [to |-> "transactions", what |-> T[i]] \in WriteType
  BY <1>2, <1>4 DEF WriteType
<1>6. rest \in Seq(WriteType) /\ Len(rest) = Len(T) /\ \A i \in 1..Len(T) : rest[i] = [to |-> "transactions", what |-> T[i]]
  BY <1>2, <1>5
<1>7. [to |-> "blocks", what |-> b] \in WriteType /\ [to |-> "heights", what |-> b] \in WriteType
  BY DEF WriteType
<1>8. first \in Seq(WriteType) /\ Len(first) = 2
      /\ first[1] = [to |-> "blocks", what |-> b] /\ first[2] = [to |-> "heights", what |-> b]
  BY <1>7
<1> HIDE DEF first, rest, w
<1>9. /\ w \in Seq(WriteType) /\ Len(w) = Len(T) + 2 /\ DOMAIN w = 1..(Len(T) + 2)
      /\ \A i \in 1..(Len(T) + 2) : w[i] = IF i <= 2 THEN first[i] ELSE rest[i - 2]
  <2>1. /\ w \in Seq(WriteType) /\ Len(w) = Len(first) + Len(rest)
        /\ \A i \in 1..(Len(first) + Len(rest)) :
             w[i] = IF i <= Len(first) THEN first[i] ELSE rest[i - Len(first)]
    BY <1>1, <1>6, <1>8, ConcatProperties
  <2>2. Len(first) = 2 /\ Len(rest) = Len(T) /\ Len(first) + Len(rest) = Len(T) + 2
    BY <1>2, <1>6, <1>8
  <2>3. DOMAIN w = 1..Len(w)
    BY <2>1, LenProperties
  <2>4. \A i \in 1..(Len(T) + 2) : w[i] = IF i <= 2 THEN first[i] ELSE rest[i - 2]
    BY <2>1, <2>2
  <2> QED BY <2>1, <2>2, <2>3, <2>4
<1>10. w[1] = [to |-> "blocks", what |-> b] /\ w[2] = [to |-> "heights", what |-> b]
  BY <1>2, <1>8, <1>9
<1>11. \A i \in DOMAIN w : i > 2 => w[i] = [to |-> "transactions", what |-> T[i - 2]] /\ T[i - 2] \in ToSet(T)
  <2> SUFFICES ASSUME NEW i \in DOMAIN w, i > 2
               PROVE  w[i] = [to |-> "transactions", what |-> T[i - 2]] /\ T[i - 2] \in ToSet(T)
    OBVIOUS
  <2>1. i \in 1..(Len(T) + 2) /\ i - 2 \in 1..Len(T) /\ ~(i <= 2)
    BY <1>2, <1>9
  <2>2. w[i] = rest[i - 2]
    BY <1>9, <2>1
  <2> QED BY <1>2, <1>6, <2>1, <2>2
<1>12. \A i \in DOMAIN w : i = 1 \/ i = 2 \/ i > 2
  BY <1>2, <1>9
<1>13. \A t \in ToSet(T) : \E i \in DOMAIN w : w[i] = [to |-> "transactions", what |-> t]
  <2> TAKE t \in ToSet(T)
  <2>1. PICK i \in 1..Len(T) : T[i] = t
    BY <1>3
  <2>2. i + 2 \in DOMAIN w /\ i + 2 > 2 /\ (i + 2) - 2 = i
    BY <1>2, <1>9
  <2> QED BY <1>11, <2>1, <2>2
<1>14. w # <<>> /\ 2 \in DOMAIN w
  BY <1>2, <1>9
<1>15. \A i \in DOMAIN w : /\ i > 1 => w[i].to # "blocks"
                           /\ w[i].to = "blocks" => w[i].what = b
                           /\ w[i].to = "heights" => w[i].what = b
                           /\ w[i].to = "transactions" => w[i].what \in ToSet(T)
  BY <1>10, <1>11, <1>12
<1> QED BY <1>9, <1>10, <1>13, <1>14, <1>15 DEF w, T

\* The next block to save is skipped or becomes the one that is written.
LEMMA SaveNextKeeps ==
  ASSUME DatabaseAssumption, IInv, SaveNext
  PROVE  IInv'
<1>1. job.todo \in Seq(Block) /\ job.todo # <<>>
  BY DEF SaveNext, IInv, Types, JobType
<1>2. PICK b \in Block : b = job.todo[1]
  BY <1>1
<1>3. /\ node.up /\ job.phase = "save" /\ job.writes = <<>> /\ job.todo # <<>>
      /\ job' = [job EXCEPT !.todo = Tail(job.todo), !.writes = WritesOf(b)]
      /\ disk' = disk /\ node' = node /\ budget' = budget
  BY <1>2 DEF SaveNext, Saving
<1>4. Types /\ job.todo \in Seq(Block) /\ BeingWritten = {} /\ JobShape
  BY <1>3 DEF IInv, Types, JobType, BeingWritten
<1>5. /\ b \in Block /\ b \in ToSet(job.todo) /\ 1 \in DOMAIN job.todo /\ Len(job.todo) \in Nat
      /\ Tail(job.todo) \in Seq(Block) /\ DOMAIN job.todo = 1..Len(job.todo)
      /\ DOMAIN Tail(job.todo) = 1..(Len(job.todo) - 1)
      /\ \A i \in 1..(Len(job.todo) - 1) : Tail(job.todo)[i] = job.todo[i + 1]
  BY <1>3, <1>4, <1>2 DEF ToSet
<1>6. /\ job'.todo = Tail(job.todo) /\ job'.writes = WritesOf(b)
      /\ job'.phase = "save" /\ job'.accepted = job.accepted /\ Accepted' = Accepted
  BY <1>3, <1>4 DEF Types, JobType, Accepted
<1>7. /\ WritesOf(b) \in Seq(WriteType)
      /\ b \in disk.blocks => WritesOf(b) = <<>> /\ BeingWritten' = {}
      /\ b \notin disk.blocks => BeingWritten' = {b}
  <2>1. CASE b \in disk.blocks
    BY <2>1, <1>6 DEF WritesOf, BeingWritten
  <2>2. CASE b \notin disk.blocks
    BY <2>2, <1>5, <1>6, WritesOfBlock DEF BeingWritten
  <2> QED BY <2>1, <2>2
<1>8. Types'
  <2>1. job' \in JobType
    BY <1>3, <1>4, <1>5, <1>7 DEF Types, JobType
  <2> QED BY <1>3, <1>4, <2>1 DEF Types
<1>9. IndexSound' /\ StoredRooted' /\ StoredHeightIsOnDisk' /\ StoredIsIndexed'
  BY <1>3 DEF IInv, IndexSound, IndexRefersToBlocks, StoredRooted, Rooted, StoredHeightIsOnDisk, StoredIsIndexed
<1>10. JobShape'
  BY <1>3, <1>4, <1>6 DEF JobShape
<1>11. b \in Accepted /\ BeingWritten' \subseteq {b} /\ {b} \subseteq disk.blocks \cup BeingWritten'
  BY <1>3, <1>5, <1>7 DEF IInv, SavesInOrder
<1>12. WritesSound'
  <2>1. CASE b \in disk.blocks
    BY <1>6, <1>7, <2>1 DEF WritesSound
  <2>2. CASE b \notin disk.blocks
    <3>1. ToSet(Transactions[b]) \subseteq TxsOf(disk.blocks \cup {b})
      BY DEF TxsOf
    <3>2. BeingWritten' = {b} /\ disk' = disk /\ job'.writes = WritesOf(b)
      BY <1>3, <1>6, <1>7, <2>2
    <3>3. \A i \in DOMAIN WritesOf(b) :
            /\ i > 1 => WritesOf(b)[i].to # "blocks"
            /\ WritesOf(b)[i].to = "blocks" => WritesOf(b)[i].what = b
            /\ WritesOf(b)[i].to = "heights" => WritesOf(b)[i].what = b
            /\ WritesOf(b)[i].to = "transactions" => WritesOf(b)[i].what \in ToSet(Transactions[b])
      BY <1>5, <2>2, WritesOfBlock
    <3>4. (TxsOf(disk.blocks \cup BeingWritten))' = TxsOf(disk.blocks \cup {b})
      BY <3>2 DEF TxsOf
    <3> QED BY <2>2, <3>1, <3>2, <3>3, <3>4 DEF WritesSound
  <2> QED BY <2>1, <2>2
<1>13. BlocksWhole'
  <2>1. ~budget.torn => \A c \in disk.blocks : Whole(c)
    BY <1>3 DEF IInv, BlocksWhole, Torn
  <2>2. \A c \in disk.blocks : Whole(c)' <=> Whole(c)
    BY <1>3 DEF Whole, HeightIndexed
  <2>3. ASSUME b \notin disk.blocks
        PROVE  WillBeWhole(b)'
    <3>1. /\ \E i \in DOMAIN WritesOf(b) : WritesOf(b)[i] = [to |-> "heights", what |-> b]
          /\ \A t \in ToSet(Transactions[b]) :
               \E i \in DOMAIN WritesOf(b) : WritesOf(b)[i] = [to |-> "transactions", what |-> t]
      BY <1>5, <2>3, WritesOfBlock
    <3>2. /\ Follows([to |-> "heights", what |-> b])'
          /\ \A t \in ToSet(Transactions[b]) : Follows([to |-> "transactions", what |-> t])'
      BY <1>6, <3>1 DEF Follows
    <3> QED BY <3>2 DEF WillBeWhole
  <2>4. ~budget'.torn => \A c \in disk'.blocks : Whole(c)'
    BY <1>3, <2>1, <2>2
  <2>5. \A c \in BeingWritten' : c \in Accepted' /\ WillBeWhole(c)'
    BY <1>6, <1>7, <1>11, <2>3
  <2> QED BY <2>4, <2>5 DEF BlocksWhole
<1>14. SavesInOrder'
  <2>1. ASSUME NEW i \in DOMAIN Tail(job.todo)
        PROVE  \/ Tail(job.todo)[i] = Genesis
               \/ Previous[Tail(job.todo)[i]] \in disk.blocks \cup BeingWritten'
               \/ \E j \in 1..(i - 1) : Tail(job.todo)[j] = Previous[Tail(job.todo)[i]]
    <3>1. i + 1 \in DOMAIN job.todo /\ Tail(job.todo)[i] = job.todo[i + 1] /\ i \in Nat \ {0} /\ i <= Len(job.todo) - 1
      BY <1>5, <2>1
    <3>2. \/ job.todo[i + 1] = Genesis
          \/ Previous[job.todo[i + 1]] \in disk.blocks
          \/ \E j \in 1..i : job.todo[j] = Previous[job.todo[i + 1]]
      BY <1>4, <3>1 DEF IInv, SavesInOrder
    <3>3. ASSUME NEW j \in 1..i, job.todo[j] = Previous[job.todo[i + 1]]
          PROVE  \/ Previous[job.todo[i + 1]] \in disk.blocks \cup BeingWritten'
                 \/ \E k \in 1..(i - 1) : Tail(job.todo)[k] = Previous[job.todo[i + 1]]
      <4>1. CASE j = 1
        BY <1>11, <3>3, <4>1, <1>2
      <4>2. CASE j # 1
        <5>1. j - 1 \in 1..(i - 1) /\ Tail(job.todo)[j - 1] = job.todo[j]
          BY <1>5, <3>1, <4>2
        <5> QED BY <3>3, <5>1
      <4> QED BY <4>1, <4>2
    <3> QED BY <3>1, <3>2, <3>3
  <2>2. \A c \in BeingWritten' : c = Genesis \/ Previous[c] \in disk.blocks
    <3>1. b = Genesis \/ Previous[b] \in disk.blocks
      BY <1>4, <1>5, <1>2 DEF IInv, SavesInOrder
    <3> QED BY <1>11, <3>1
  <2>3. ToSet(job.todo) \subseteq {b} \cup ToSet(Tail(job.todo)) /\ ToSet(Tail(job.todo)) \subseteq ToSet(job.todo)
    <3>1. ASSUME NEW c \in ToSet(job.todo), c # b
          PROVE  c \in ToSet(Tail(job.todo))
      <4>1. PICK i \in DOMAIN job.todo : job.todo[i] = c
        BY DEF ToSet
      <4>2. i - 1 \in DOMAIN Tail(job.todo) /\ Tail(job.todo)[i - 1] = c
        BY <1>5, <3>1, <4>1, <1>2
      <4> QED BY <4>2 DEF ToSet
    <3>2. ASSUME NEW c \in ToSet(Tail(job.todo))
          PROVE  c \in ToSet(job.todo)
      <4>1. PICK i \in DOMAIN Tail(job.todo) : Tail(job.todo)[i] = c
        BY DEF ToSet
      <4>2. i + 1 \in DOMAIN job.todo /\ job.todo[i + 1] = c
        BY <1>5, <4>1
      <4> QED BY <4>2 DEF ToSet
    <3> QED BY <3>1, <3>2
  <2>4. ToSet(job.todo) \subseteq Accepted /\ Accepted \subseteq disk.blocks \cup ToSet(job.todo)
    BY <1>3, <1>4 DEF IInv, SavesInOrder
  <2>5. /\ ToSet(Tail(job.todo)) \subseteq Accepted
        /\ Accepted \subseteq disk.blocks \cup BeingWritten' \cup ToSet(Tail(job.todo))
    BY <1>11, <2>3, <2>4
  <2> QED BY <1>3, <1>6, <2>1, <2>2, <2>5 DEF SavesInOrder
<1>15. WindowOfJob' /\ NoneTwiceAnywhere'
  BY <1>3, <1>6 DEF IInv, WindowOfJob, NoneTwiceAnywhere
<1> QED BY <1>8, <1>9, <1>10, <1>12, <1>13, <1>14, <1>15 DEF IInv

\* Each write leaves an index of stored blocks, and all that is missing of the
\* block it is for still to come.
LEMMA WriteKeeps ==
  ASSUME DatabaseAssumption, IInv, Write
  PROVE  IInv'
<1>1. /\ node.up /\ job.phase = "save" /\ job.writes # <<>>
      /\ disk' = Put(disk, job.writes[1])
      /\ job' = [job EXCEPT !.writes = Tail(job.writes)]
      /\ node' = node /\ budget' = budget
  BY DEF Write, Saving
<1>2. Types /\ job.writes \in Seq(WriteType) /\ JobShape /\ WritesSound
  BY DEF IInv, Types, JobType
<1>3. PICK w \in WriteType : w = job.writes[1]
  BY <1>1, <1>2
<1>4. /\ 1 \in DOMAIN job.writes /\ Len(job.writes) \in Nat
      /\ Tail(job.writes) \in Seq(WriteType) /\ DOMAIN job.writes = 1..Len(job.writes)
      /\ DOMAIN Tail(job.writes) = 1..(Len(job.writes) - 1)
      /\ \A i \in 1..(Len(job.writes) - 1) : Tail(job.writes)[i] = job.writes[i + 1]
  BY <1>1, <1>2
<1>5. /\ job'.todo = job.todo /\ job'.writes = Tail(job.writes)
      /\ job'.phase = "save" /\ job'.accepted = job.accepted /\ Accepted' = Accepted
  BY <1>1, <1>2 DEF Types, JobType, Accepted
<1>6. \A i \in DOMAIN job'.writes : job'.writes[i].to # "blocks"
  BY <1>2, <1>4, <1>5 DEF WritesSound
<1>7. BeingWritten' = {}
  <2>1. job'.writes # <<>> => 1 \in DOMAIN job'.writes
    BY <1>4, <1>5
  <2> QED BY <1>6, <2>1 DEF BeingWritten
<1>8. w.to = "blocks" \/ w.to = "heights" \/ w.to = "transactions"
  BY DEF WriteType
<1>9. /\ w.to = "blocks" => w.what \in Block /\ BeingWritten = {w.what}
      /\ w.to # "blocks" => BeingWritten = {}
  BY <1>1, <1>3 DEF BeingWritten, WriteType
<1>10. /\ disk' \in [blocks : SUBSET Block, heights : SUBSET [height : Nat \ {0}, block : Block],
                    transactions : SUBSET TxsOf(Block)]
       /\ disk'.blocks = disk.blocks \cup BeingWritten
       /\ disk'.transactions = IF w.to = "transactions" THEN disk.transactions \cup {w.what} ELSE disk.transactions
       /\ w.to = "heights" => w.what \in Block
       /\ disk'.heights = IF w.to = "heights"
                          THEN {i \in disk.heights : i.height # HeightOf[w.what]}
                               \cup {[height |-> HeightOf[w.what], block |-> w.what]}
                          ELSE disk.heights
  <2>1. disk \in [blocks : SUBSET Block, heights : SUBSET [height : Nat \ {0}, block : Block],
                  transactions : SUBSET TxsOf(Block)]
    BY <1>2 DEF Types
  <2>2. CASE w.to = "blocks"
    <3>1. disk' = [disk EXCEPT !.blocks = @ \cup {w.what}]
      BY <1>1, <1>3, <2>2 DEF Put
    <3> QED BY <1>9, <2>1, <2>2, <3>1
  <2>3. CASE w.to = "heights"
    <3>1. disk' = [disk EXCEPT !.heights = {i \in disk.heights : i.height # HeightOf[w.what]}
                                           \cup {[height |-> HeightOf[w.what], block |-> w.what]}]
      BY <1>1, <1>3, <2>3 DEF Put
    <3>2. w.what \in Block /\ HeightOf[w.what] \in Nat \ {0}
      BY <2>3 DEF WriteType, DatabaseAssumption
    <3> QED BY <1>9, <2>1, <2>3, <3>1, <3>2
  <2>4. CASE w.to = "transactions"
    <3>1. disk' = [disk EXCEPT !.transactions = @ \cup {w.what}]
      BY <1>1, <1>3, <2>4 DEF Put
    <3>2. w.what \in TxsOf(Block)
      BY <2>4 DEF WriteType
    <3> QED BY <1>9, <2>1, <2>4, <3>1, <3>2
  <2> QED BY <1>8, <2>2, <2>3, <2>4
<1>11. \A b \in Block : HeightOf[b] \in Nat \ {0}
  BY DEF DatabaseAssumption
<1>12. Types'
  <2>1. job' \in JobType
    BY <1>1, <1>2, <1>4 DEF Types, JobType
  <2> QED BY <1>1, <1>2, <1>10, <2>1 DEF Types
<1>13. /\ w.to = "heights" => w.what \in disk.blocks
       /\ w.to = "transactions" => w.what \in TxsOf(disk.blocks)
  BY <1>2, <1>3, <1>4, <1>9 DEF WritesSound
<1>14. IndexSound'
  <2>1. IndexSound
    BY DEF IInv
  <2>2. TxsOf(disk.blocks) \subseteq TxsOf(disk'.blocks)
    BY <1>10 DEF TxsOf
  <2>3. \A i \in disk'.heights : i.block \in disk'.blocks /\ HeightOf[i.block] = i.height
    BY <1>10, <1>13, <2>1 DEF IndexSound, IndexRefersToBlocks
  <2>4. disk'.transactions \subseteq TxsOf(disk'.blocks)
    BY <1>10, <1>13, <2>1, <2>2 DEF IndexSound, IndexRefersToBlocks
  <2>5. \A i, j \in disk'.heights : i.height = j.height => i = j
    BY <1>10, <2>1 DEF IndexSound
  <2>6. \E n \in Nat : \A i \in disk'.heights : i.height <= n
    <3>1. PICK n \in Nat : \A i \in disk.heights : i.height <= n
      BY <2>1 DEF IndexSound
    <3>2. \A i \in disk.heights : i.height \in Nat
      BY <1>2 DEF Types
    <3>3. CASE w.to = "heights"
      <4>1. HeightOf[w.what] \in Nat /\ n + HeightOf[w.what] \in Nat
        BY <1>10, <1>11, <3>3
      <4>2. \A i \in disk'.heights : i.height <= n + HeightOf[w.what]
        BY <1>10, <3>1, <3>2, <3>3, <4>1
      <4> QED BY <4>1, <4>2
    <3>4. CASE w.to # "heights"
      BY <1>10, <3>1, <3>4
    <3> QED BY <3>3, <3>4
  <2> QED BY <2>3, <2>4, <2>5, <2>6 DEF IndexSound, IndexRefersToBlocks
<1>15. StoredRooted'
  BY <1>9, <1>10 DEF IInv, StoredRooted, Rooted, SavesInOrder
<1>16. JobShape'
  BY <1>1, <1>2, <1>5 DEF JobShape
<1>17. WritesSound'
  <2>1. (TxsOf(disk.blocks \cup BeingWritten))' = TxsOf(disk.blocks \cup BeingWritten)
    BY <1>7, <1>10 DEF TxsOf
  <2>2. ASSUME NEW i \in DOMAIN job'.writes
        PROVE  /\ job'.writes[i].to = "heights" => job'.writes[i].what \in disk.blocks \cup BeingWritten
               /\ job'.writes[i].to = "transactions" => job'.writes[i].what \in TxsOf(disk.blocks \cup BeingWritten)
    <3>1. i + 1 \in DOMAIN job.writes /\ job'.writes[i] = job.writes[i + 1]
      BY <1>4, <1>5, <2>2
    <3> QED BY <1>2, <3>1 DEF WritesSound
  <2> QED BY <1>6, <1>7, <1>10, <2>1, <2>2 DEF WritesSound
<1>18. ASSUME NEW i \in disk.heights
       PROVE  \E j \in disk'.heights : j.height = i.height
  <2>1. CASE w.to = "heights" /\ i.height = HeightOf[w.what]
    <3>1. [height |-> HeightOf[w.what], block |-> w.what] \in disk'.heights
      BY <1>10, <2>1
    <3> QED BY <2>1, <3>1
  <2>2. CASE ~(w.to = "heights" /\ i.height = HeightOf[w.what])
    BY <1>10, <2>2
  <2> QED BY <2>1, <2>2
<1>19. BlocksWhole'
  <2>1. \A x : Follows(x) => x = w \/ Follows(x)'
    <3> SUFFICES ASSUME NEW x, Follows(x), x # w
                 PROVE  Follows(x)'
      OBVIOUS
    <3>1. PICK i \in DOMAIN job.writes : job.writes[i] = x
      BY DEF Follows
    <3>2. i - 1 \in DOMAIN job'.writes /\ job'.writes[i - 1] = x
      BY <1>3, <1>4, <1>5, <3>1
    <3> QED BY <3>2 DEF Follows
  <2>2. \A b \in Block : HeightIndexed(b) => HeightIndexed(b)'
    <3> SUFFICES ASSUME NEW b \in Block, NEW i \in disk.heights, i.height = HeightOf[b]
                 PROVE  \E j \in disk'.heights : j.height = HeightOf[b]
      BY DEF HeightIndexed
    <3> QED BY <1>18
  <2>3. disk.transactions \subseteq disk'.transactions
    BY <1>10
  <2>4. \A b \in Block : Whole(b) => Whole(b)'
    BY <2>2, <2>3 DEF Whole
  <2>5. ASSUME NEW b \in Block, WillBeWhole(b)
        PROVE  WillBeWhole(b)'
    <3>1. HeightIndexed(b)' \/ Follows([to |-> "heights", what |-> b])'
      <4>1. CASE w = [to |-> "heights", what |-> b]
        <5>1. [height |-> HeightOf[b], block |-> b] \in disk'.heights
          BY <1>10, <4>1
        <5> QED BY <5>1 DEF HeightIndexed
      <4>2. CASE w # [to |-> "heights", what |-> b]
        BY <2>1, <2>2, <2>5, <4>2 DEF WillBeWhole
      <4> QED BY <4>1, <4>2
    <3>2. ASSUME NEW t \in ToSet(Transactions[b])
          PROVE  t \in disk'.transactions \/ Follows([to |-> "transactions", what |-> t])'
      <4>1. CASE w = [to |-> "transactions", what |-> t]
        BY <1>10, <4>1
      <4>2. CASE w # [to |-> "transactions", what |-> t]
        BY <2>1, <2>3, <2>5, <3>2, <4>2 DEF WillBeWhole
      <4> QED BY <4>1, <4>2
    <3> QED BY <3>1, <3>2 DEF WillBeWhole
  <2>6. CASE job'.writes = <<>>
    <3>1. \A x : ~Follows(x)'
      BY <2>6 DEF Follows
    <3>2. \A b \in Block : WillBeWhole(b)' => Whole(b)'
      BY <3>1 DEF WillBeWhole, Whole
    <3>3. ~budget.torn => \A b \in disk'.blocks : Whole(b)'
      BY <1>2, <1>7, <1>10, <2>4, <2>5, <3>2 DEF IInv, BlocksWhole, Types
    <3> QED BY <1>1, <1>7, <3>3 DEF BlocksWhole
  <2>7. CASE job'.writes # <<>>
    <3>1. Torn'
      <4>1. 1 \in DOMAIN job'.writes /\ Head(job'.writes) = job'.writes[1]
        BY <1>4, <1>5, <2>7
      <4> QED BY <1>5, <1>6, <2>7, <4>1 DEF Torn
    <3>2. ~budget.torn => \A b \in disk'.blocks : Whole(b)' \/ (b \in Accepted /\ WillBeWhole(b)')
      BY <1>2, <1>10, <2>4, <2>5 DEF IInv, BlocksWhole, Types
    <3> QED BY <1>1, <1>5, <1>7, <3>1, <3>2 DEF BlocksWhole
  <2> QED BY <2>6, <2>7
<1>20. SavesInOrder'
  BY <1>1, <1>5, <1>7, <1>10 DEF IInv, SavesInOrder
<1>21. WindowOfJob'
  BY <1>1, <1>5, <1>10 DEF IInv, WindowOfJob
<1>22. NoneTwiceAnywhere'
  BY <1>1, <1>5, <1>10 DEF IInv, NoneTwiceAnywhere, BlocksWhole
<1>23. StoredHeightIsOnDisk' /\ StoredIsIndexed'
  <2> QED BY <1>1, <1>10, <1>18 DEF IInv, StoredHeightIsOnDisk, StoredIsIndexed
<1> QED BY <1>12, <1>14, <1>15, <1>16, <1>17, <1>19, <1>20, <1>21, <1>22, <1>23 DEF IInv

\* While blocks are processed, what the last block's chain holds is stored or in
\* the window, and the check for forged transactions sees all its transactions.
LEMMA ForgedAreSeen ==
  ASSUME DatabaseAssumption, IInv, node.up, job.phase = "process", ~budget.torn,
         NEW t \in node.window, IsTop(t, node.window), NEW c \in Chain[t]
  PROVE  ToSet(Transactions[c]) \subseteq ForgedTransactions
<1>1. Types /\ Windowed(node.window) /\ LastBlock = t
  BY LastIsTop DEF IInv, WindowOfJob
<1>2. disk.blocks \subseteq Block /\ node.window \subseteq Block
  BY <1>1 DEF Types
<1>3. Rooted(node.window \cup disk.blocks)
  BY DEF IInv, WindowOfJob, StoredRooted, Rooted
<1>4. c \in node.window \cup disk.blocks /\ c \in Block
  BY <1>2, <1>3, ChainWithin
<1>5. CASE c \in disk.blocks
  BY <1>5 DEF IInv, BlocksWhole, Whole, ForgedTransactions
<1>6. CASE c \notin disk.blocks
  <2>1. c \in node.window /\ ~(HeightOf[c] <= node.stored)
    BY <1>4, <1>6 DEF IInv, StoredHeightIsOnDisk
  <2>2. HeightOf[c] \in Nat /\ node.stored \in Nat /\ HeightOf[t] \in Nat /\ HeightOf[c] <= HeightOf[t]
    BY <1>1, <1>2, <1>4, <2>1 DEF Types, DatabaseAssumption, IsTop
  <2>3. HeightOf[c] > node.stored /\ HeightOf[LastBlock] # node.stored
    BY <1>1, <2>1, <2>2
  <2> QED BY <2>1, <2>3 DEF ForgedTransactions, TxsOf
<1> QED BY <1>5, <1>6

\* What an application of the next block takes out of the window is stored, and
\* is not of this job.
LEMMA OnlyStoredLeaves ==
  ASSUME DatabaseAssumption, IInv, Running, NEW b, NEW m \in node.window,
         \A c \in node.window : HeightOf[m] <= HeightOf[c],
         Cardinality(node.window \cup {b}) > MaxLastBlocks
  PROVE  m \notin Accepted /\ m \in disk.blocks
<1>1. /\ node.up /\ job.phase = "process" /\ job.accepted \in Seq(Block) /\ Len(job.accepted) < MaxChunk
      /\ node.window \subseteq Block
  BY DEF Running, IInv, Types, JobType
<1>2. \A c \in Block : HeightOf[c] \in Nat
  BY DEF DatabaseAssumption
<1>3. ASSUME m \in Accepted
      PROVE  FALSE
  <2>1. \A c \in node.window : c \in Accepted
    BY <1>1, <1>2, <1>3 DEF IInv, WindowOfJob
  <2>2. node.window \cup {b} \in SUBSET (ToSet(job.accepted) \cup {b})
    BY <2>1 DEF Accepted
  <2> QED BY <1>1, <2>2, AcceptedFit
<1> QED BY <1>1, <1>3 DEF IInv, WindowOfJob

\* An accepted block goes on from the last one, and no transaction of it is in
\* the chain of that.
LEMMA AcceptKeeps ==
  ASSUME DatabaseAssumption, IInv, NEW b \in Block, AcceptBlock(b)
  PROVE  IInv'
<1>1. /\ Running /\ node.up /\ job.phase = "process" /\ b # Genesis
      /\ ToSet(Transactions[b]) \cap ForgedTransactions = {}
      /\ node' = [node EXCEPT !.window = PushLastBlock(node.window, b)]
      /\ job' = [job EXCEPT !.accepted = Append(job.accepted, b)]
      /\ disk' = disk /\ budget' = budget
  BY DEF AcceptBlock, Running
<1>2. Types /\ JobShape /\ job.todo = <<>> /\ job.writes = <<>> /\ node.window # {}
  BY <1>1 DEF IInv, JobShape
<1>3. PICK W : W = node.window
  OBVIOUS
<1>4. PICK P : P = PushLastBlock(W, b)
  OBVIOUS
<1>5. PICK t \in W : /\ IsTop(t, W) /\ node.stored <= HeightOf[t]
                     /\ job.accepted # <<>> => t = job.accepted[Len(job.accepted)]
  BY <1>1, <1>2, <1>3 DEF IInv, WindowOfJob
<1>6. Windowed(W) /\ LastBlock = t /\ Previous[b] = t
  BY <1>3, <1>5, LastIsTop DEF IInv, WindowOfJob, AcceptBlock
<1>7. /\ \A c \in Block : HeightOf[c] \in Nat \ {0}
      /\ HeightOf[b] = HeightOf[t] + 1 /\ W \subseteq Block /\ t \in Block
      /\ node.stored \in Nat
  BY <1>1, <1>2, <1>6, <1>5 DEF DatabaseAssumption, Windowed, Types
<1>8. /\ Windowed(P) /\ IsTop(b, P)
      /\ \/ P = W \cup {b}
         \/ \E m \in W : /\ P = (W \cup {b}) \ {m}
                         /\ \A c \in W : HeightOf[m] <= HeightOf[c]
                         /\ Cardinality(W \cup {b}) > MaxLastBlocks
  <2>1. b # Genesis /\ Previous[b] = t /\ Windowed(W) /\ IsTop(t, W)
    BY <1>1, <1>5, <1>6
  <2>2. LET R == PushLastBlock(W, b)
        IN  /\ Windowed(R) /\ IsTop(b, R)
            /\ \/ R = W \cup {b}
               \/ \E m \in W : /\ R = (W \cup {b}) \ {m}
                               /\ \A c \in W : HeightOf[m] <= HeightOf[c]
                               /\ Cardinality(W \cup {b}) > MaxLastBlocks
    BY <2>1, PushNext
  <2> QED BY <1>4, <2>2
<1>9. P \subseteq W \cup {b} /\ b \in P /\ \A c \in W : c \in P \/ (c \in disk.blocks /\ c \notin Accepted)
  BY <1>1, <1>3, <1>8, OnlyStoredLeaves DEF IsTop
<1>10. /\ node'.up /\ node'.window = P /\ node'.stored = node.stored
       /\ node' = [node EXCEPT !.window = P]
  BY <1>1, <1>2, <1>3, <1>4 DEF Types
<1>11. /\ job.accepted \in Seq(Block) /\ Len(job.accepted) \in Nat
       /\ job'.accepted = Append(job.accepted, b) /\ job'.accepted \in Seq(Block)
       /\ Len(job'.accepted) = Len(job.accepted) + 1
       /\ DOMAIN job.accepted = 1..Len(job.accepted) /\ DOMAIN job'.accepted = 1..(Len(job.accepted) + 1)
       /\ \A i \in 1..Len(job.accepted) : job'.accepted[i] = job.accepted[i]
       /\ job'.accepted[Len(job.accepted) + 1] = b
       /\ job'.phase = "process" /\ job'.todo = <<>> /\ job'.writes = <<>>
  BY <1>1, <1>2 DEF Types, JobType
<1>12. Accepted' = Accepted \cup {b} /\ BeingWritten = {} /\ BeingWritten' = {}
  <2>1. Accepted' \subseteq Accepted \cup {b}
    BY <1>11 DEF Accepted, ToSet
  <2>2. Accepted \subseteq Accepted' /\ b \in Accepted'
    BY <1>11 DEF Accepted, ToSet
  <2> QED BY <1>2, <1>11, <2>1, <2>2 DEF BeingWritten
<1>13. Types'
  <2>1. job' \in JobType
    BY <1>1, <1>2, <1>11 DEF Types, JobType
  <2>2. P \in SUBSET Block
    BY <1>8 DEF Windowed
  <2> QED BY <1>1, <1>2, <1>10, <2>1, <2>2 DEF Types
<1>14. IndexSound' /\ StoredRooted' /\ StoredIsIndexed'
  BY <1>1, <1>10 DEF IInv, IndexSound, IndexRefersToBlocks, StoredRooted, Rooted, StoredIsIndexed
<1>15. JobShape' /\ WritesSound' /\ SavesInOrder'
  <2>1. Len(job'.accepted) <= MaxChunk
    BY <1>1, <1>11 DEF Running, DatabaseAssumption
  <2> QED BY <1>9, <1>10, <1>11, <1>12, <2>1 DEF JobShape, WritesSound, SavesInOrder, ToSet
<1>16. BlocksWhole'
  BY <1>1, <1>12 DEF IInv, BlocksWhole, Whole, HeightIndexed
<1>17. WindowOfJob'
  <2>1. Accepted \subseteq W /\ b \notin W /\ \A c \in W : HeightOf[c] < HeightOf[b]
    BY <1>1, <1>2, <1>3, <1>5, <1>7 DEF IInv, WindowOfJob, IsTop
  <2>2. \A c \in P \ disk.blocks : c \in Accepted'
    BY <1>1, <1>3, <1>9, <1>12 DEF IInv, WindowOfJob
  <2>3. \A c \in P \ disk.blocks : c # Genesis /\ Previous[c] \in P \cup disk.blocks
    BY <1>1, <1>3, <1>5, <1>6, <1>9 DEF IInv, WindowOfJob
  <2>4. b \in P /\ node.stored <= HeightOf[b] /\ b = job'.accepted[Len(job'.accepted)]
    BY <1>5, <1>7, <1>9, <1>11
  <2>5. Accepted' \subseteq P
    BY <1>9, <1>12, <2>1
  <2>6. \A c \in P \ Accepted', d \in Accepted' : HeightOf[c] < HeightOf[d]
    BY <1>1, <1>2, <1>3, <1>9, <1>12, <2>1 DEF IInv, WindowOfJob
  <2>7. \A c \in Accepted' : node.stored < HeightOf[c]
    BY <1>1, <1>2, <1>5, <1>7, <1>12 DEF IInv, WindowOfJob
  <2>8. \A i, j \in DOMAIN job'.accepted : i < j => HeightOf[job'.accepted[i]] < HeightOf[job'.accepted[j]]
    <3> SUFFICES ASSUME NEW i \in DOMAIN job'.accepted, NEW j \in DOMAIN job'.accepted, i < j
                 PROVE  HeightOf[job'.accepted[i]] < HeightOf[job'.accepted[j]]
      OBVIOUS
    <3>1. i \in 1..Len(job.accepted) /\ job'.accepted[i] = job.accepted[i]
      BY <1>11
    <3>2. CASE j \in 1..Len(job.accepted)
      BY <1>1, <1>2, <1>11, <3>1, <3>2 DEF IInv, WindowOfJob
    <3>3. CASE j = Len(job.accepted) + 1
      <4>1. job.accepted[i] \in Accepted
        BY <1>11, <3>1 DEF Accepted, ToSet
      <4> QED BY <1>11, <2>1, <3>1, <3>3, <4>1
    <3> QED BY <1>11, <3>2, <3>3
  <2>9. ASSUME NEW i \in DOMAIN job'.accepted
        PROVE  /\ job'.accepted[i] # Genesis
               /\ \/ Previous[job'.accepted[i]] \in disk.blocks
                  \/ \E j \in 1..(i - 1) : job'.accepted[j] = Previous[job'.accepted[i]]
    <3>1. CASE i \in 1..Len(job.accepted)
      <4>1. /\ job.accepted[i] # Genesis
            /\ \/ Previous[job.accepted[i]] \in disk.blocks
               \/ \E j \in 1..(i - 1) : job.accepted[j] = Previous[job.accepted[i]]
        BY <1>1, <1>2, <1>11, <3>1 DEF IInv, WindowOfJob
      <4>2. \A j \in 1..(i - 1) : job'.accepted[j] = job.accepted[j]
        BY <1>11, <3>1
      <4> QED BY <1>11, <3>1, <4>1, <4>2
    <3>2. CASE i = Len(job.accepted) + 1
      <4>1. job'.accepted[i] = b
        BY <1>11, <3>2
      <4>2. CASE job.accepted = <<>>
        <5>1. Accepted = {}
          BY <4>2 DEF Accepted, ToSet
        <5>2. t \in disk.blocks
          BY <1>1, <1>3, <1>5, <5>1 DEF IInv, WindowOfJob
        <5> QED BY <1>1, <1>6, <4>1, <5>2
      <4>3. CASE job.accepted # <<>>
        <5>1. Len(job.accepted) \in 1..(i - 1) /\ job'.accepted[Len(job.accepted)] = t
          BY <1>5, <1>11, <3>2, <4>3
        <5> QED BY <1>1, <1>6, <4>1, <5>1
      <4> QED BY <4>2, <4>3
    <3> QED BY <1>11, <3>1, <3>2
  <2> QED BY <1>1, <1>8, <1>10, <2>2, <2>3, <2>4, <2>5, <2>6, <2>7, <2>8, <2>9 DEF WindowOfJob
<1>18. NoneTwiceAnywhere'
  <2> SUFFICES ASSUME ~budget.torn
               PROVE  NoneTwice(b)
    BY <1>1, <1>3, <1>9, <1>10, <1>12 DEF IInv, NoneTwiceAnywhere
  <2>1. NoneTwice(t)
    BY <1>1, <1>3 DEF IInv, NoneTwiceAnywhere
  <2>2. Chain[b] \subseteq {b} \cup Chain[t]
    BY <1>6, ChainOfChild
  <2>3. \A c \in Chain[t] : ToSet(Transactions[c]) \subseteq ForgedTransactions
    BY <1>1, <1>3, <1>5, ForgedAreSeen
  <2> QED BY <1>1, <2>1, <2>2, <2>3 DEF NoneTwice
<1>19. StoredHeightIsOnDisk'
  BY <1>1, <1>3, <1>5, <1>7, <1>9, <1>10 DEF IInv, StoredHeightIsOnDisk
<1> QED BY <1>13, <1>14, <1>15, <1>16, <1>17, <1>18, <1>19 DEF IInv

\* A block whose application fails is taken back; what was accepted is saved.
LEMMA ApplyFailsKeeps ==
  ASSUME DatabaseAssumption, IInv, NEW b \in Block, ApplyFails(b)
  PROVE  IInv'
<1>1. /\ Running /\ node.up /\ job.phase = "process" /\ b # Genesis /\ budget.faults > 0
      /\ budget' = [budget EXCEPT !.faults = @ - 1]
      /\ node' = [node EXCEPT !.window = PushLastBlock(PushLastBlock(node.window, b), Previous[b])]
      /\ job' = EndOfChunk
      /\ disk' = disk
  BY DEF ApplyFails, Running
<1>2. Types /\ JobShape /\ job.todo = <<>> /\ job.writes = <<>> /\ node.window # {}
  BY <1>1 DEF IInv, JobShape
<1>3. PICK W : W = node.window
  OBVIOUS
<1>4. PICK t \in W : /\ IsTop(t, W) /\ node.stored <= HeightOf[t]
                     /\ job.accepted # <<>> => t = job.accepted[Len(job.accepted)]
  BY <1>1, <1>2, <1>3 DEF IInv, WindowOfJob
<1>5. Windowed(W) /\ LastBlock = t /\ Previous[b] = t
  BY <1>3, <1>4, LastIsTop DEF IInv, WindowOfJob, ApplyFails
<1>6. PICK Q : Q = PushLastBlock(PushLastBlock(W, b), t)
  OBVIOUS
<1>7. /\ Windowed(Q) /\ IsTop(t, Q)
      /\ \/ Q = W
         \/ \E m \in W : /\ Q = W \ {m}
                         /\ \A c \in W : HeightOf[m] <= HeightOf[c]
                         /\ Cardinality(W \cup {b}) > MaxLastBlocks
  <2>1. b # Genesis /\ Previous[b] = t /\ Windowed(W) /\ IsTop(t, W)
    BY <1>1, <1>4, <1>5
  <2>2. LET R == PushLastBlock(PushLastBlock(W, b), t)
        IN  /\ Windowed(R) /\ IsTop(t, R)
            /\ \/ R = W
               \/ \E m \in W : /\ R = W \ {m}
                               /\ \A c \in W : HeightOf[m] <= HeightOf[c]
                               /\ Cardinality(W \cup {b}) > MaxLastBlocks
    BY <2>1, PushAndBack
  <2> QED BY <1>6, <2>2
<1>8. Q \subseteq W /\ t \in Q /\ \A c \in W : c \in Q \/ (c \in disk.blocks /\ c \notin Accepted)
  BY <1>1, <1>3, <1>7, OnlyStoredLeaves DEF IsTop
<1>9. /\ node'.up /\ node'.window = Q /\ node'.stored = node.stored
      /\ node' = [node EXCEPT !.window = Q]
  BY <1>1, <1>2, <1>3, <1>5, <1>6 DEF Types
<1>10. /\ job'.accepted = job.accepted /\ job'.writes = <<>> /\ job'.todo = job.accepted /\ job' \in JobType
       /\ job'.phase = IF job.accepted = <<>> THEN "process" ELSE "save"
  <2>1. CASE job.accepted = <<>>
    BY <1>1, <2>1 DEF EndOfChunk, NoJob, JobType
  <2>2. CASE job.accepted # <<>>
    BY <1>1, <1>2, <2>2 DEF EndOfChunk, Types, JobType
  <2> QED BY <2>1, <2>2
<1>11. Accepted' = Accepted /\ ToSet(job'.todo) = Accepted /\ BeingWritten = {} /\ BeingWritten' = {}
  BY <1>2, <1>10 DEF Accepted, BeingWritten
<1>12. budget'.torn = budget.torn /\ budget' \in [crashes : Nat, faults : Nat, torn : BOOLEAN]
  BY <1>1, <1>2 DEF Types
<1>13. Types'
  <2>1. Q \in SUBSET Block
    BY <1>7 DEF Windowed
  <2> QED BY <1>1, <1>2, <1>9, <1>10, <1>12, <2>1 DEF Types
<1>14. IndexSound' /\ StoredRooted' /\ StoredIsIndexed'
  BY <1>1, <1>9, <1>12 DEF IInv, IndexSound, IndexRefersToBlocks, StoredRooted, Rooted, StoredIsIndexed
<1>15. JobShape' /\ WritesSound'
  BY <1>2, <1>8, <1>9, <1>10 DEF JobShape, WritesSound
<1>16. BlocksWhole'
  BY <1>1, <1>11, <1>12 DEF IInv, BlocksWhole, Whole, HeightIndexed
<1>17. SavesInOrder'
  BY <1>1, <1>2, <1>10, <1>11 DEF IInv, SavesInOrder, WindowOfJob
<1>18. WindowOfJob'
  <2>1. \A c \in Q \ disk.blocks : c \in Accepted
    BY <1>1, <1>3, <1>8 DEF IInv, WindowOfJob
  <2>2. \A c \in Q \ disk.blocks : c # Genesis /\ Previous[c] \in Q \cup disk.blocks
    BY <1>1, <1>3, <1>8 DEF IInv, WindowOfJob
  <2>3. Accepted \subseteq Q
    BY <1>1, <1>2, <1>3, <1>8 DEF IInv, WindowOfJob
  <2>4. \A c \in Q \ Accepted, d \in Accepted : HeightOf[c] < HeightOf[d]
    BY <1>1, <1>2, <1>3, <1>8 DEF IInv, WindowOfJob
  <2>5. /\ \A c \in Accepted : node.stored < HeightOf[c]
        /\ \A i, j \in DOMAIN job.accepted : i < j => HeightOf[job.accepted[i]] < HeightOf[job.accepted[j]]
        /\ \A i \in DOMAIN job.accepted :
             /\ job.accepted[i] # Genesis
             /\ \/ Previous[job.accepted[i]] \in disk.blocks
                \/ \E j \in 1..(i - 1) : job.accepted[j] = Previous[job.accepted[i]]
    BY <1>1, <1>2 DEF IInv, WindowOfJob
  <2> QED BY <1>1, <1>4, <1>7, <1>8, <1>9, <1>10, <1>11, <2>1, <2>2, <2>3, <2>4, <2>5 DEF WindowOfJob
<1>19. NoneTwiceAnywhere' /\ StoredHeightIsOnDisk'
  BY <1>1, <1>3, <1>8, <1>9, <1>11, <1>12 DEF IInv, NoneTwiceAnywhere, StoredHeightIsOnDisk
<1> QED BY <1>13, <1>14, <1>15, <1>16, <1>17, <1>18, <1>19 DEF IInv

\* A block that is reverted gives way to its parent, in memory or in the database.
LEMMA RevertBlockKeeps ==
  ASSUME DatabaseAssumption, IInv, RevertBlock
  PROVE  IInv'
<1>1. /\ node.up /\ job.phase = "revert" /\ job.accepted # <<>>
      /\ job' = [job EXCEPT !.accepted = Front(job.accepted)]
      /\ disk' = disk /\ budget' = budget
  BY DEF RevertBlock
<1>2. Types /\ JobShape /\ job.todo = <<>> /\ job.writes = <<>> /\ job.accepted \in Seq(Block)
  BY <1>1 DEF IInv, JobShape, Types, JobType
<1>3. PICK n \in Nat : n = Len(job.accepted)
  BY <1>2
<1>4. PICK t \in Block : t = job.accepted[n]
  BY <1>1, <1>2, <1>3
<1>5. /\ n > 0 /\ DOMAIN job.accepted = 1..n /\ t \in Accepted /\ Last(job.accepted) = t
      /\ \A c \in Block : HeightOf[c] \in Nat \ {0}
      /\ HeightOf[Genesis] = 1 /\ Genesis \in Block
  BY <1>1, <1>2, <1>3, <1>4 DEF Accepted, ToSet, Last, DatabaseAssumption
<1>6. PICK p \in PreviousOf(t) : /\ HeightOf[p] + 1 = HeightOf[t]
                                 /\ node' = [node EXCEPT !.window = PushLastBlock(node.window, p)]
  BY <1>5 DEF RevertBlock
<1>7. p \in Block /\ (p \in node.window \/ p \in disk.blocks)
  BY <1>2, <1>6 DEF PreviousOf, GetLastBlock, Types
<1>8. node.window # {}
  BY <1>1, <1>2, <1>3, <1>4, <1>5, <1>6, <1>7 DEF JobShape
<1>9. PICK W : W = node.window
  OBVIOUS
<1>10. IsTop(t, W) /\ Windowed(W) /\ t \in W /\ W \subseteq Block
  BY <1>1, <1>3, <1>4, <1>8, <1>9 DEF IInv, WindowOfJob, IsTop, Windowed
<1>11. PICK P : P = PushLastBlock(W, p)
  OBVIOUS
<1>12. /\ \A c \in Accepted : c \in W /\ node.stored < HeightOf[c]
       /\ \A c \in W \ Accepted, d \in Accepted : HeightOf[c] < HeightOf[d]
       /\ \A c \in W \ disk.blocks : c \in Accepted /\ c # Genesis /\ Previous[c] \in W \cup disk.blocks
       /\ \A i, j \in 1..n : i < j => HeightOf[job.accepted[i]] < HeightOf[job.accepted[j]]
       /\ \A i \in 1..n : /\ job.accepted[i] # Genesis
                          /\ \/ Previous[job.accepted[i]] \in disk.blocks
                             \/ \E j \in 1..(i - 1) : job.accepted[j] = Previous[job.accepted[i]]
  BY <1>1, <1>5, <1>8, <1>9 DEF IInv, WindowOfJob
<1>13. /\ job'.accepted = Front(job.accepted) /\ job'.accepted \in Seq(Block) /\ Len(job'.accepted) = n - 1
       /\ DOMAIN job'.accepted = 1..(n - 1)
       /\ \A i \in 1..(n - 1) : job'.accepted[i] = job.accepted[i]
       /\ job'.phase = "revert" /\ job'.todo = <<>> /\ job'.writes = <<>>
  <2>1. /\ Front(job.accepted) \in Seq(Block) /\ Len(Front(job.accepted)) = n - 1
        /\ \A i \in 1..(n - 1) : Front(job.accepted)[i] = job.accepted[i]
    BY <1>1, <1>2, <1>3, <1>5 DEF Front
  <2> QED BY <1>1, <1>2, <1>3, <1>5, <2>1 DEF Types, JobType
<1>14. Accepted' = Accepted \ {t} /\ BeingWritten = {} /\ BeingWritten' = {}
  <2>1. \A i \in 1..(n - 1) : job.accepted[i] \in Accepted /\ job.accepted[i] # t
    <3> SUFFICES ASSUME NEW i \in 1..(n - 1)
                 PROVE  job.accepted[i] \in Accepted /\ job.accepted[i] # t
      OBVIOUS
    <3>1. i \in 1..n /\ n \in 1..n /\ i < n
      BY <1>5
    <3>2. job.accepted[i] \in Accepted
      BY <1>5, <3>1 DEF Accepted, ToSet
    <3>3. HeightOf[job.accepted[i]] < HeightOf[t] /\ HeightOf[t] \in Nat
      BY <1>4, <1>5, <1>12, <3>1
    <3> QED BY <3>2, <3>3
  <2>2. Accepted' \subseteq Accepted \ {t}
    BY <1>13, <2>1 DEF Accepted, ToSet
  <2>3. ASSUME NEW c \in Accepted, c # t
        PROVE  c \in Accepted'
    <3>1. PICK i \in 1..n : job.accepted[i] = c
      BY <1>5 DEF Accepted, ToSet
    <3>2. i # n
      BY <1>4, <2>3, <3>1
    <3>3. i \in 1..(n - 1)
      BY <1>5, <3>1, <3>2
    <3>4. job'.accepted[i] = c
      BY <1>13, <3>1, <3>3
    <3> QED BY <1>13, <3>3, <3>4 DEF Accepted, ToSet
  <2> QED BY <1>2, <1>13, <2>2, <2>3 DEF BeingWritten
<1>15. /\ Windowed(P) /\ IsTop(p, P) /\ P \ disk.blocks \subseteq W \ {t} /\ Accepted \ {t} \subseteq P
       /\ P \ (Accepted \ {t}) \subseteq (W \ Accepted) \cup {p}
       /\ \/ P = W \ {t}
          \/ P = {p} /\ p \in disk.blocks /\ Accepted = {t}
  <2>1. CASE p \in W
    <3>1. P = W \ {t} /\ Windowed(P) /\ IsTop(p, P)
      <4>1. PushLastBlock(W, p) = W \ {t} /\ Windowed(W \ {t}) /\ IsTop(p, W \ {t})
        BY <1>6, <1>10, <2>1, PushBelow
      <4> QED BY <1>11, <4>1
    <3>2. Accepted \ {t} \subseteq P
      BY <1>12, <3>1
    <3> QED BY <3>1, <3>2
  <2>2. CASE p \notin W
    <3>1. \A c \in W : HeightOf[c] # HeightOf[t] - 1
      BY <1>6, <1>9, <2>2 DEF PreviousOf
    <3>2. p \in disk.blocks
      BY <1>7, <1>9, <2>2
    <3>3. \A c \in W : c = t
      <4> SUFFICES ASSUME NEW c \in W, c # t
                   PROVE  FALSE
        OBVIOUS
      <4>1. HeightOf[c] < HeightOf[t] /\ HeightOf[c] \in Nat \ {0} /\ HeightOf[t] \in Nat
        BY <1>5, <1>10 DEF IsTop, Windowed, OnePerHeight
      <4>2. Previous[t] \in W
        BY <1>10, <4>1 DEF Windowed, Linked
      <4>3. t # Genesis /\ HeightOf[t] = HeightOf[Previous[t]] + 1 /\ HeightOf[Previous[t]] \in Nat
        BY <1>5, <1>10, <4>1, <4>2 DEF DatabaseAssumption
      <4> QED BY <3>1, <4>1, <4>2, <4>3
    <3>4. \A c \in W : ~(HeightOf[c] < HeightOf[p])
      BY <1>5, <1>6, <1>7, <3>3
    <3>5. P = {p} /\ Windowed({p}) /\ IsTop(p, {p})
      BY <1>7, <1>11, <3>4, PushAlone, OneBlockWindow
    <3>6. Accepted = {t}
      BY <1>5, <1>12, <3>3
    <3> QED BY <3>2, <3>5, <3>6
  <2> QED BY <2>1, <2>2
<1>16. /\ node'.up /\ node'.window = P /\ node'.stored = node.stored /\ p \in P
       /\ node' = [node EXCEPT !.window = P]
  BY <1>1, <1>2, <1>6, <1>9, <1>11, <1>15 DEF Types, IsTop
<1>17. Types'
  <2>1. job' \in JobType
    BY <1>1, <1>2, <1>13 DEF Types, JobType
  <2>2. P \in SUBSET Block
    BY <1>15 DEF Windowed
  <2> QED BY <1>1, <1>2, <1>16, <2>1, <2>2 DEF Types
<1>18. IndexSound' /\ StoredRooted' /\ StoredIsIndexed'
  BY <1>1, <1>16 DEF IInv, IndexSound, IndexRefersToBlocks, StoredRooted, Rooted, StoredIsIndexed
<1>19. JobShape' /\ WritesSound' /\ SavesInOrder'
  <2>1. MaxChunk \in Nat /\ Len(job'.accepted) <= MaxChunk
    BY <1>2, <1>3, <1>13 DEF JobShape, DatabaseAssumption
  <2> QED BY <1>13, <1>14, <1>16, <2>1 DEF JobShape, WritesSound, SavesInOrder, ToSet
<1>20. BlocksWhole'
  BY <1>1, <1>14 DEF IInv, BlocksWhole, Whole, HeightIndexed
<1>21. WindowOfJob'
  <2>1. \A c \in P \ disk.blocks : c \in Accepted'
    BY <1>12, <1>14, <1>15
  <2>2. \A c \in P \ disk.blocks : c # Genesis /\ Previous[c] \in P \cup disk.blocks
    <3> SUFFICES ASSUME NEW c \in P \ disk.blocks
                 PROVE  c # Genesis /\ Previous[c] \in P \cup disk.blocks
      OBVIOUS
    <3>1. P = W \ {t} /\ c \in W \ disk.blocks /\ c \in Block
      BY <1>10, <1>15
    <3>2. c # Genesis /\ Previous[c] \in W \cup disk.blocks
      BY <1>12, <3>1
    <3>3. Previous[c] # t
      <4>1. HeightOf[c] = HeightOf[Previous[c]] + 1 /\ HeightOf[c] <= HeightOf[t]
        BY <1>10, <3>1, <3>2 DEF DatabaseAssumption, IsTop
      <4> QED BY <1>5, <4>1
    <3> QED BY <3>1, <3>2, <3>3
  <2>3. node.stored <= HeightOf[p]
    <3>1. node.stored < HeightOf[t] /\ node.stored \in Nat /\ HeightOf[p] \in Nat
      BY <1>2, <1>5, <1>7, <1>12 DEF Types
    <3> QED BY <1>6, <3>1
  <2>4. ASSUME job'.accepted # <<>>
        PROVE  p = job'.accepted[Len(job'.accepted)]
    <3>1. n - 1 \in 1..n /\ n \in 1..n /\ n - 1 < n /\ n - 1 \in 1..(n - 1)
      BY <1>5, <1>13, <2>4
    <3>2. PICK q \in Block : q = job.accepted[n - 1]
      BY <1>2, <1>5, <3>1
    <3>3. q \in Accepted /\ HeightOf[q] < HeightOf[t]
      BY <1>4, <1>5, <1>12, <3>1, <3>2 DEF Accepted, ToSet
    <3>4. q # t
      BY <1>5, <3>3
    <3>5. P = W \ {t} /\ p \in W /\ p # t
      BY <1>15, <1>16, <3>3, <3>4
    <3>6. p \in Accepted
      <4>1. ASSUME p \notin Accepted
            PROVE  FALSE
        <5>1. HeightOf[p] < HeightOf[q]
          BY <1>12, <3>3, <3>5, <4>1
        <5> QED BY <1>5, <1>6, <1>7, <3>3, <5>1
      <4> QED BY <4>1
    <3>7. PICK j \in 1..n : job.accepted[j] = p
      BY <1>5, <3>6 DEF Accepted, ToSet
    <3>8. j = n - 1
      <4>1. j # n
        BY <1>4, <3>5, <3>7
      <4>2. ASSUME j < n - 1
            PROVE  FALSE
        <5>1. HeightOf[p] < HeightOf[q]
          BY <1>12, <3>1, <3>2, <3>7, <4>2
        <5> QED BY <1>5, <1>6, <1>7, <3>3, <5>1
      <4> QED BY <4>1, <4>2
    <3> QED BY <1>13, <3>1, <3>7, <3>8
  <2>5. Accepted' \subseteq P
    BY <1>14, <1>15
  <2>6. \A c \in P \ Accepted', d \in Accepted' : HeightOf[c] < HeightOf[d]
    <3> SUFFICES ASSUME NEW c \in P \ Accepted', NEW d \in Accepted'
                 PROVE  HeightOf[c] < HeightOf[d]
      OBVIOUS
    <3>1. P = W \ {t} /\ d \in Accepted /\ c \in W /\ c # t
      BY <1>14, <1>15
    <3> QED BY <1>12, <1>14, <3>1
  <2>7. \A c \in Accepted' : node.stored < HeightOf[c]
    BY <1>12, <1>14
  <2>8. \A i, j \in DOMAIN job'.accepted : i < j => HeightOf[job'.accepted[i]] < HeightOf[job'.accepted[j]]
    BY <1>12, <1>13
  <2>9. ASSUME NEW i \in DOMAIN job'.accepted
        PROVE  /\ job'.accepted[i] # Genesis
               /\ \/ Previous[job'.accepted[i]] \in disk.blocks
                  \/ \E j \in 1..(i - 1) : job'.accepted[j] = Previous[job'.accepted[i]]
    <3>1. i \in 1..n /\ i \in 1..(n - 1) /\ job'.accepted[i] = job.accepted[i]
      BY <1>13
    <3>2. \A j \in 1..(i - 1) : job'.accepted[j] = job.accepted[j]
      BY <1>13, <3>1
    <3> QED BY <1>12, <3>1, <3>2
  <2> QED BY <1>1, <1>15, <1>16, <2>1, <2>2, <2>3, <2>4, <2>5, <2>6, <2>7, <2>8, <2>9 DEF WindowOfJob
<1>22. NoneTwiceAnywhere'
  <2>1. ~budget.torn => \A c \in P \cup Accepted' : NoneTwice(c)
    BY <1>1, <1>9, <1>14, <1>15 DEF IInv, NoneTwiceAnywhere
  <2> QED BY <1>1, <1>16, <2>1 DEF IInv, NoneTwiceAnywhere
<1>23. StoredHeightIsOnDisk'
  <2>1. \A c \in P : HeightOf[c] <= node.stored => c \in disk.blocks
    BY <1>1, <1>9, <1>15 DEF IInv, StoredHeightIsOnDisk
  <2> QED BY <1>1, <1>16, <2>1 DEF StoredHeightIsOnDisk
<1> QED BY <1>17, <1>18, <1>19, <1>20, <1>21, <1>22, <1>23 DEF IInv

-----------------------------------------------------------------------------
\* The theorems.

\* Every step keeps the invariant.
LEMMA StepKeeps ==
  ASSUME DatabaseAssumption, IInv, [Next]_vars
  PROVE  IInv'
<1>1. ASSUME NEW b \in Block, AcceptBlock(b)
      PROVE  IInv'
  BY <1>1, AcceptKeeps
<1>2. ASSUME NEW b \in Block, ApplyFails(b)
      PROVE  IInv'
  BY <1>2, ApplyFailsKeeps
<1>3. CASE SaveBlocks
  BY <1>3, SaveBlocksKeeps
<1>4. CASE SaveNext
  BY <1>4, SaveNextKeeps
<1>5. CASE Write
  BY <1>5, WriteKeeps
<1>6. CASE Saved
  BY <1>6, SavedKeeps
<1>7. CASE SaveFails
  BY <1>7, SaveFailsKeeps
<1>8. CASE RevertBlock
  BY <1>8, RevertBlockKeeps
<1>9. CASE Reverted
  BY <1>9, RevertedKeeps
<1>10. CASE Corrupted
  BY <1>10, CorruptedKeeps
<1>11. CASE Crash
  BY <1>11, CrashKeeps
<1>12. CASE Restart
  BY <1>12, RestartKeeps
<1>13. CASE UNCHANGED vars
  <2>1. disk' = disk /\ node' = node /\ job' = job /\ budget' = budget
    BY <1>13 DEF vars
  <2>2. Types' /\ IndexSound' /\ StoredRooted' /\ JobShape'
    BY <2>1 DEF IInv, Types, JobType, WriteType, IndexSound, IndexRefersToBlocks, StoredRooted, Rooted, JobShape
  <2>3. WritesSound' /\ BlocksWhole' /\ SavesInOrder'
    BY <2>1 DEF IInv, WritesSound, BlocksWhole, Whole, WillBeWhole, HeightIndexed, Follows, Torn,
      SavesInOrder, BeingWritten, Accepted
  <2>4. WindowOfJob' /\ NoneTwiceAnywhere' /\ StoredIsIndexed' /\ StoredHeightIsOnDisk'
    BY <2>1 DEF IInv, WindowOfJob, NoneTwiceAnywhere, StoredIsIndexed, StoredHeightIsOnDisk, Accepted
  <2> QED BY <2>2, <2>3, <2>4 DEF IInv
<1> QED BY <1>1, <1>2, <1>3, <1>4, <1>5, <1>6, <1>7, <1>8, <1>9, <1>10, <1>11, <1>12, <1>13 DEF Next

\* The invariant holds in every state.
THEOREM InvariantHolds == ASSUME DatabaseAssumption PROVE Spec => []IInv
<1>1. Init => IInv
  BY InitSound
<1>2. IInv /\ [Next]_vars => IInv'
  BY StepKeeps
<1> QED BY <1>1, <1>2, PTL DEF Spec

\* Every variable keeps its type; in particular the window never grows beyond
\* its maximum.
THEOREM DatabaseTypes == ASSUME DatabaseAssumption PROVE Spec => []TypeOK
<1>1. IInv => TypeOK
  BY DEF IInv, Types, JobType, IndexSound, WindowOfJob, Windowed, TypeOK
<1> QED BY <1>1, InvariantHolds, PTL

\* Whatever crashes and whichever writes fail, the height index refers to stored
\* blocks; a block that was not torn apart is stored whole, no transaction is
\* twice in the chain, and what the stored height covers is on disk.
THEOREM StaysConsistent == ASSUME DatabaseAssumption PROVE Spec => []DatabaseConsistent
<1>1. IInv => IndexRefersToBlocks /\ StoredHeightIsOnDisk
  BY DEF IInv, IndexSound
<1>2. IInv => StoredWhole
  BY DEF IInv, BlocksWhole, Whole, HeightIndexed, Accepted, StoredWhole
<1>3. ASSUME IInv, node.up, node.window # {}, ~budget.torn
      PROVE  NoneTwice(LastBlock)
  <2>1. PICK t \in node.window : IsTop(t, node.window)
    BY <1>3 DEF IInv, WindowOfJob
  <2>2. LastBlock = t
    BY <1>3, <2>1, LastIsTop DEF IInv, WindowOfJob
  <2> QED BY <1>3, <2>2 DEF IInv, NoneTwiceAnywhere
<1>4. IInv => NoTransactionTwice
  BY <1>3 DEF NoTransactionTwice, NoneTwice
<1>5. IInv => DatabaseConsistent
  BY <1>1, <1>2, <1>4 DEF DatabaseConsistent
<1> QED BY <1>5, InvariantHolds, PTL

\* The highest indexed block is found, and is one that is stored.
LEMMA TopIsFound ==
  ASSUME IInv, disk.heights # {}
  PROVE  /\ GetLastBlock # {}
         /\ \A b \in GetLastBlock : \A i \in disk.heights : i.height <= HeightOf[b]
<1>1. /\ disk.heights \subseteq [height : Nat \ {0}, block : Block]
      /\ \A i \in disk.heights : i.block \in disk.blocks /\ HeightOf[i.block] = i.height
  BY DEF IInv, Types, IndexSound, IndexRefersToBlocks
<1> DEFINE B == {n \in Nat : \A i \in disk.heights : i.height <= n}
<1>2. B # {} /\ B \in SUBSET Nat
  BY DEF IInv, IndexSound
<1>3. PICK n \in B : \A m \in B : n <= m
  <2> HIDE DEF B
  <2> QED BY <1>2, NatMin
<1>4. \E i \in disk.heights : i.height = n
  <2> SUFFICES ASSUME \A i \in disk.heights : i.height # n
               PROVE  FALSE
    OBVIOUS
  <2>1. PICK i \in disk.heights : i.height \in Nat \ {0}
    BY <1>1
  <2>2. n \in Nat /\ n - 1 \in Nat
    BY <1>3, <2>1
  <2>3. \A j \in disk.heights : j.height \in Nat /\ j.height <= n /\ j.height # n
    BY <1>1, <1>3
  <2>4. n - 1 \in B
    BY <2>2, <2>3
  <2> QED BY <1>3, <2>2, <2>4
<1>5. PICK i \in disk.heights : i.height = n /\ \A j \in disk.heights : j.height <= i.height
  BY <1>3, <1>4
<1>6. i.block \in GetLastBlock
  BY <1>1, <1>5 DEF GetLastBlock
<1>7. \A b \in GetLastBlock : \A j \in disk.heights : j.height <= HeightOf[b]
  BY <1>1 DEF GetLastBlock
<1> QED BY <1>6, <1>7

\* A restart finds a block at least as high as the last stored one, unless one
\* was torn apart.
THEOREM NoRestartLosesBlocks == ASSUME DatabaseAssumption PROVE Spec => RestartKeepsStored
<1>1. ASSUME IInv, IInv', [Next]_vars
      PROVE  [RestartFindsStored]_vars
  <2> SUFFICES ASSUME Next, ~node.up, node'.up, ~budget.torn, node.stored > 1
               PROVE  node'.window # {} /\ HeightOf[LastBlock'] >= node.stored
    BY <1>1 DEF RestartFindsStored
  <2>1. Restart
    BY DEF Next, AcceptBlock, ApplyFails, Running, SaveBlocks, SaveNext, Write, Saved, SaveFails, Saving,
      RevertBlock, Reverted, Corrupted, Crash
  <2>2. PICK i \in disk.heights : i.height >= node.stored
    BY <1>1 DEF IInv, StoredIsIndexed
  <2>3. GetLastBlock # {} /\ \A b \in GetLastBlock : i.height <= HeightOf[b]
    BY <1>1, <2>2, TopIsFound
  <2>4. PICK b \in GetLastBlock : node' = [up |-> TRUE, window |-> {b}, stored |-> 1]
    BY <2>1, <2>3 DEF Restart
  <2>5. /\ b \in Block /\ HeightOf[b] \in Nat /\ i.height \in Nat /\ node.stored \in Nat
    BY <1>1, <2>2, <2>4 DEF IInv, Types, GetLastBlock, DatabaseAssumption
  <2>6. node'.window = {b} /\ LastBlock' = b
    BY <2>4 DEF LastBlock
  <2> QED BY <2>2, <2>3, <2>4, <2>5, <2>6
<1> QED BY <1>1, InvariantHolds, PTL DEF Spec, RestartKeepsStored

-----------------------------------------------------------------------------
(* What a peer is answered *)

\* The chain of a block of a chain is part of it.
LEMMA ChainIsRooted ==
  ASSUME DatabaseAssumption, NEW b \in Block
  PROVE  /\ Rooted(Chain[b])
         /\ \A a \in Chain[b] : a \in Block /\ Chain[a] \subseteq Chain[b]
<1>1. Previous \in [Block -> Block]
  BY DEF DatabaseAssumption
<1>2. Chain[b] \subseteq Block
  BY DEF Chain
<1>3. ASSUME NEW a \in Chain[b], a # Genesis
      PROVE  Previous[a] \in Chain[b]
  <2>1. a \in Block /\ Previous[a] \in Block
    BY <1>1, <1>2, <1>3
  <2>2. ASSUME NEW T \in SUBSET Block, b \in T, Rooted(T)
        PROVE  Previous[a] \in T
    <3>1. a \in T
      BY <2>2, <1>3, ChainWithin
    <3> QED BY <3>1, <1>3, <2>2 DEF Rooted
  <2> QED BY <2>1, <2>2 DEF Chain
<1>4. Rooted(Chain[b])
  BY <1>3 DEF Rooted
<1>5. ASSUME NEW a \in Chain[b] PROVE Chain[a] \subseteq Chain[b]
  BY <1>2, <1>4, <1>5, ChainWithin
<1> QED BY <1>2, <1>4, <1>5

\* The chain of a block has the chain of its parent.
LEMMA ParentChain ==
  ASSUME DatabaseAssumption, NEW b \in Block, b # Genesis
  PROVE  Chain[Previous[b]] \subseteq Chain[b]
<1>1. Previous[b] \in Chain[b]
  BY ChainIsRooted, InOwnChain DEF Rooted
<1> QED BY <1>1, ChainIsRooted

\* A block is the highest of its chain.
LEMMA ChainIsBelow ==
  ASSUME DatabaseAssumption, NEW b \in Block, NEW a \in Chain[b]
  PROVE  HeightOf[a] <= HeightOf[b] /\ (HeightOf[a] = HeightOf[b] => a = b)
<1> DEFINE S == {c \in Block : c = b \/ HeightOf[c] < HeightOf[b]}
<1>1. /\ \A c \in Block : HeightOf[c] \in Nat /\ Previous[c] \in Block
      /\ \A c \in Block \ {Genesis} : HeightOf[c] = HeightOf[Previous[c]] + 1
  BY DEF DatabaseAssumption
<1>2. ASSUME NEW c \in S, c # Genesis PROVE Previous[c] \in S
  <2>1. c \in Block /\ Previous[c] \in Block /\ HeightOf[c] <= HeightOf[b]
    BY <1>1
  <2>2. HeightOf[Previous[c]] < HeightOf[c] /\ HeightOf[Previous[c]] \in Nat
    BY <1>1, <1>2, <2>1
  <2>3. HeightOf[Previous[c]] < HeightOf[b]
    BY <1>1, <2>1, <2>2
  <2> QED BY <2>1, <2>3
<1>3. S \in SUBSET Block /\ b \in S /\ Rooted(S)
  BY <1>2 DEF Rooted
<1>4. a \in S
  <2> HIDE DEF S
  <2> QED BY <1>3, ChainWithin
<1> QED BY <1>1, <1>4

\* Of two blocks of a chain, one is in the other's chain; with the same height
\* they are the same.
LEMMA ChainIsTotal ==
  ASSUME DatabaseAssumption, NEW l \in Block, NEW a \in Chain[l], NEW b \in Chain[l]
  PROVE  /\ a \in Chain[b] \/ b \in Chain[a]
         /\ HeightOf[a] <= HeightOf[b] => a \in Chain[b]
         /\ HeightOf[a] = HeightOf[b] => a = b
<1> DEFINE S == {c \in Block : b \in Chain[c] \/ c \in Chain[b]}
<1>1. a \in Block /\ b \in Block /\ Previous \in [Block -> Block]
  BY ChainIsRooted DEF DatabaseAssumption
<1>2. ASSUME NEW c \in S, c # Genesis PROVE Previous[c] \in S
  <2>1. c \in Block /\ Previous[c] \in Block
    BY <1>1
  <2>2. CASE c \in Chain[b]
    <3>1. Previous[c] \in Chain[b]
      BY <1>1, <1>2, <2>2, ChainIsRooted DEF Rooted
    <3> QED BY <2>1, <3>1
  <2>3. CASE c \notin Chain[b]
    <3>1. b \in Chain[c] /\ c # b
      BY <1>1, <2>3, InOwnChain
    <3>2. b \in Chain[Previous[c]]
      BY <2>1, <3>1, ChainOfChild
    <3> QED BY <2>1, <3>2
  <2> QED BY <2>2, <2>3
<1>3. S \in SUBSET Block /\ l \in S /\ Rooted(S)
  BY <1>2 DEF Rooted
<1>4. a \in S
  <2> HIDE DEF S
  <2> QED BY <1>3, ChainWithin
<1>5. HeightOf[a] \in Nat /\ HeightOf[b] \in Nat
  BY <1>1 DEF DatabaseAssumption
<1>6. b \in Chain[a] => HeightOf[b] <= HeightOf[a] /\ (HeightOf[a] = HeightOf[b] => a = b)
  BY <1>1, ChainIsBelow
<1>7. a \in Chain[b] => HeightOf[a] <= HeightOf[b] /\ (HeightOf[a] = HeightOf[b] => a = b)
  BY <1>1, ChainIsBelow
<1>8. a \in Chain[b] \/ b \in Chain[a]
  BY <1>4
<1>9. HeightOf[a] <= HeightOf[b] => a \in Chain[b]
  BY <1>1, <1>5, <1>6, <1>8, InOwnChain
<1> QED BY <1>6, <1>7, <1>8, <1>9

\* What is written of one block is one height.
OneHeightWritten ==
  \A i, j \in DOMAIN job.writes :
    job.writes[i].to = "heights" /\ job.writes[j].to = "heights" =>
      job.writes[i].what = job.writes[j].what

\* All that is stored or in memory is in the chain of the last block.
TopOf(W) == IF W = {} THEN Genesis ELSE CHOOSE b \in W : \A c \in W : HeightOf[c] <= HeightOf[b]
OneChain ==
  IF node.up THEN disk.blocks \cup node.window \subseteq Chain[TopOf(node.window)]
  ELSE \E l \in Block : disk.blocks \subseteq Chain[l]

\* Every height up to the highest indexed one is indexed.
NoGaps == \A i \in disk.heights : i.height > 1 => \E j \in disk.heights : j.height = i.height - 1

\* Nothing was reverted.
NeverHarmed == job.phase # "revert" /\ OneChain /\ NoGaps

LEMMA TopIsLast ==
  ASSUME DatabaseAssumption, NEW W, Windowed(W), NEW t, IsTop(t, W)
  PROVE  TopOf(W) = t
<1>1. \A b \in W : HeightOf[b] \in Nat
  BY DEF DatabaseAssumption, Windowed
<1>2. \A b \in W : (\A c \in W : HeightOf[c] <= HeightOf[b]) => b = t
  BY <1>1 DEF Windowed, IsTop, OnePerHeight
<1> QED BY <1>2 DEF TopOf, IsTop

\* The last block while there is a window.
LEMMA TopOfWindow ==
  ASSUME DatabaseAssumption, IInv, node.up, node.window # {}
  PROVE  /\ IsTop(TopOf(node.window), node.window) /\ Windowed(node.window)
         /\ TopOf(node.window) \in Block /\ TopOf(node.window) = LastBlock
         /\ HeightOf[LastBlock] \in Nat
<1>1. PICK t \in node.window : IsTop(t, node.window)
  BY DEF IInv, WindowOfJob
<1>2. Windowed(node.window)
  BY DEF IInv, WindowOfJob
<1>3. TopOf(node.window) = t
  BY <1>1, <1>2, TopIsLast
<1>4. t \in Block
  BY <1>2 DEF Windowed
<1>5. TopOf(node.window) = LastBlock
  BY DEF TopOf, LastBlock
<1> QED BY <1>1, <1>2, <1>3, <1>4, <1>5 DEF DatabaseAssumption

LEMMA OneHeightKeeps ==
  ASSUME DatabaseAssumption, IInv, OneHeightWritten, [Next]_vars
  PROVE  OneHeightWritten'
<1>1. job.writes \in Seq(WriteType) /\ job \in JobType
  BY DEF IInv, Types, JobType
<1>2. CASE job'.writes = job.writes \/ job'.writes = <<>>
  BY <1>2 DEF OneHeightWritten
<1>3. CASE Write
  <2>1. job.writes # <<>> /\ job' = [job EXCEPT !.writes = Tail(job.writes)]
    BY <1>3 DEF Write
  <2>2. job'.writes = Tail(job.writes)
    BY <1>1, <2>1 DEF JobType
  <2>3. /\ Len(job.writes) \in Nat /\ DOMAIN job.writes = 1..Len(job.writes)
        /\ DOMAIN Tail(job.writes) = 1..(Len(job.writes) - 1)
        /\ \A i \in 1..(Len(job.writes) - 1) : Tail(job.writes)[i] = job.writes[i + 1]
    BY <1>1, <2>1
  <2>4. \A i \in DOMAIN Tail(job.writes) :
          i + 1 \in DOMAIN job.writes /\ Tail(job.writes)[i] = job.writes[i + 1]
    BY <2>3
  <2> QED BY <2>2, <2>4 DEF OneHeightWritten
<1>4. CASE SaveNext
  <2>1. job.todo \in Seq(Block) /\ job.todo # <<>>
    BY <1>4 DEF SaveNext, IInv, Types, JobType
  <2>2. PICK b \in Block : b = job.todo[1]
    BY <2>1
  <2>3. job' = [job EXCEPT !.todo = Tail(job.todo), !.writes = WritesOf(b)]
    BY <1>4, <2>2 DEF SaveNext
  <2>4. job'.writes = WritesOf(b)
    BY <1>1, <2>3 DEF JobType
  <2>5. \A i \in DOMAIN WritesOf(b) :
          WritesOf(b)[i].to = "heights" => WritesOf(b)[i].what = b
    <3>1. CASE b \in disk.blocks
      BY <3>1 DEF WritesOf
    <3>2. CASE b \notin disk.blocks
      BY <3>2, WritesOfBlock
    <3> QED BY <3>1, <3>2
  <2> QED BY <2>4, <2>5 DEF OneHeightWritten
<1>5. CASE \E b \in Block : AcceptBlock(b)
  <2>1. job'.writes = job.writes
    BY <1>1, <1>5 DEF AcceptBlock, JobType
  <2> QED BY <1>2, <2>1
<1>6. CASE SaveBlocks \/ \E b \in Block : ApplyFails(b)
  <2>1. job' = EndOfChunk
    BY <1>6 DEF SaveBlocks, ApplyFails
  <2>2. job'.writes = job.writes \/ job'.writes = <<>>
    BY <1>1, <2>1 DEF EndOfChunk, NoJob, JobType
  <2> QED BY <1>2, <2>2
<1>7. CASE Saved \/ SaveFails \/ Reverted \/ Restart
  <2>1. NoJob = [phase |-> "process", accepted |-> <<>>, todo |-> <<>>, writes |-> <<>>]
    BY DEF NoJob
  <2>2. CASE Saved \/ Reverted
    BY <1>2, <2>1, <2>2 DEF Saved, Reverted
  <2>3. CASE SaveFails
    <3>1. job' = [NoJob EXCEPT !.phase = "revert", !.accepted = job.accepted]
      BY <2>3 DEF SaveFails
    <3> QED BY <1>2, <2>1, <3>1
  <2>4. CASE Restart
    <3>1. \/ job' = NoJob
          \/ job' = [phase |-> "save", accepted |-> <<Genesis>>, todo |-> <<Genesis>>, writes |-> <<>>]
      BY <2>4 DEF Restart, NoJob
    <3>2. job'.writes = <<>>
      BY <2>1, <3>1
    <3> QED BY <1>2, <3>2
  <2> QED BY <1>7, <2>2, <2>3, <2>4
<1>8. CASE RevertBlock
  <2>1. job'.writes = job.writes
    BY <1>1, <1>8 DEF RevertBlock, JobType
  <2> QED BY <1>2, <2>1
<1>9. CASE Corrupted \/ Crash \/ UNCHANGED vars
  <2>1. job' = job
    BY <1>9 DEF Corrupted, Crash, vars
  <2> QED BY <1>2, <2>1
<1> QED BY <1>3, <1>4, <1>5, <1>6, <1>7, <1>8, <1>9 DEF Next

\* Faults are only spent, and a block that is torn apart stays so.
LEMMA HarmStays ==
  ASSUME IInv, budget.faults <= MaxFaults, MaxFaults \in Nat, [Next]_vars
  PROVE  /\ budget'.faults <= MaxFaults
         /\ Unharmed' => Unharmed /\ ~SaveFails /\ \A b \in Block : ~ApplyFails(b)
<1>1. budget \in [crashes : Nat, faults : Nat, torn : BOOLEAN] /\ budget.faults \in Nat
  BY DEF IInv, Types
<1> DEFINE Fails == SaveFails \/ \E b \in Block : ApplyFails(b)
<1>5. Fails => budget'.faults = budget.faults - 1
  BY <1>1 DEF SaveFails, ApplyFails
<1> HIDE DEF Fails
<1>2. CASE Fails
  BY <1>1, <1>2, <1>5 DEF Unharmed
<1>3. CASE Crash
  <2>1. budget'.faults = budget.faults /\ budget'.torn = (budget.torn \/ Torn)
    BY <1>1, <1>3 DEF Crash
  <2>2. ~Fails
    BY <1>1, <1>5, <2>1
  <2> QED BY <2>1, <2>2 DEF Unharmed, Fails
<1>4. CASE ~Fails /\ ~Crash
  <2>1. budget' = budget
    BY <1>4 DEF Next, AcceptBlock, SaveBlocks, SaveNext, Write, Saved, RevertBlock, Reverted,
       Corrupted, Restart, vars, Fails
  <2> QED BY <1>4, <2>1 DEF Unharmed, Fails
<1> QED BY <1>2, <1>3, <1>4

\* Accepting goes up the chain.
LEMMA AcceptGoesUp ==
  ASSUME DatabaseAssumption, IInv, NeverHarmed, NEW b \in Block, AcceptBlock(b)
  PROVE  /\ NeverHarmed' /\ disk' = disk /\ node'.up /\ node'.window # {}
         /\ HeightOf[LastBlock] <= HeightOf[TopOf(node'.window)]
<1> DEFINE t == LastBlock
           P == PushLastBlock(node.window, b)
<1>1. /\ node.up /\ job.phase = "process" /\ b # Genesis /\ Previous[b] = t
      /\ node' = [node EXCEPT !.window = P] /\ disk' = disk
      /\ job' = [job EXCEPT !.accepted = Append(job.accepted, b)]
  BY DEF AcceptBlock, Running
<1>2. Types /\ node.window # {}
  BY <1>1 DEF IInv, JobShape
<1>3. /\ node'.up /\ node'.window = P /\ job'.phase = "process"
  BY <1>1, <1>2 DEF Types, JobType
<1>4. /\ Windowed(node.window) /\ IsTop(t, node.window) /\ t \in Block /\ TopOf(node.window) = t
  BY <1>1, <1>2, TopOfWindow
<1> HIDE DEF t
<1>5. Windowed(P) /\ IsTop(b, P) /\ P \subseteq node.window \cup {b} /\ b \in P
  <2>1. /\ Windowed(P) /\ IsTop(b, P)
        /\ \/ P = node.window \cup {b}
           \/ \E m \in node.window :
                 /\ P = (node.window \cup {b}) \ {m}
                 /\ \A c \in node.window : HeightOf[m] <= HeightOf[c]
                 /\ Cardinality(node.window \cup {b}) > MaxLastBlocks
    <3> \A W : /\ Windowed(W) /\ IsTop(t, W)
               => LET R == PushLastBlock(W, b)
                  IN  /\ Windowed(R) /\ IsTop(b, R)
                      /\ \/ R = W \cup {b}
                         \/ \E m \in W : /\ R = (W \cup {b}) \ {m}
                                         /\ \A c \in W : HeightOf[m] <= HeightOf[c]
                                         /\ Cardinality(W \cup {b}) > MaxLastBlocks
      BY <1>1, PushNext
    <3> QED BY <1>4
  <2> HIDE DEF P
  <2> QED BY <2>1 DEF IsTop
<1> HIDE DEF P
<1>6. TopOf(P) = b
  BY <1>5, TopIsLast
<1>7. disk.blocks \cup node.window \subseteq Chain[t]
  BY <1>1, <1>4 DEF NeverHarmed, OneChain
<1>8. Chain[t] \subseteq Chain[b] /\ b \in Chain[b]
  BY <1>1, ParentChain, InOwnChain
<1>9. OneChain'
  <2>1. disk'.blocks \cup node'.window \subseteq Chain[TopOf(node'.window)]
    BY <1>1, <1>3, <1>5, <1>6, <1>7, <1>8
  <2> QED BY <1>3, <2>1 DEF OneChain
<1>10. NoGaps'
  BY <1>1 DEF NeverHarmed, NoGaps
<1>11. HeightOf[t] <= HeightOf[b]
  BY <1>1, <1>4 DEF DatabaseAssumption
<1> QED BY <1>1, <1>3, <1>5, <1>6, <1>9, <1>10, <1>11 DEF NeverHarmed, t

\* A height is written when that of the block's parent is indexed.
LEMMA WriteLeavesNoGap ==
  ASSUME DatabaseAssumption, IInv, OneHeightWritten, NoGaps, ~budget.torn, Write
  PROVE  NoGaps' /\ disk.blocks \subseteq disk'.blocks
         /\ disk'.blocks \subseteq disk.blocks \cup BeingWritten
<1> DEFINE w == job.writes[1]
<1>1. /\ job.writes # <<>> /\ disk' = Put(disk, w) /\ job.writes \in Seq(WriteType)
      /\ 1 \in DOMAIN job.writes /\ w \in WriteType
  <2>1. job.writes # <<>> /\ disk' = Put(disk, Head(job.writes)) /\ job.writes \in Seq(WriteType)
    BY DEF Write, IInv, Types, JobType
  <2> QED BY <2>1
<1>2. disk \in [blocks : SUBSET Block, heights : SUBSET [height : Nat \ {0}, block : Block],
                transactions : SUBSET TxsOf(Block)]
  BY DEF IInv, Types
<1>3. CASE w.to = "blocks"
  <2>1. disk' = [disk EXCEPT !.blocks = @ \cup {w.what}]
    BY <1>1, <1>3 DEF Put
  <2>2. disk'.blocks = disk.blocks \cup {w.what} /\ disk'.heights = disk.heights
    BY <1>2, <2>1
  <2>3. w.what \in BeingWritten
    BY <1>1, <1>3 DEF BeingWritten, WriteType
  <2> QED BY <2>2, <2>3 DEF NoGaps
<1>4. CASE w.to = "transactions"
  <2>1. disk' = [disk EXCEPT !.transactions = @ \cup {w.what}]
    BY <1>1, <1>4 DEF Put
  <2>2. disk'.blocks = disk.blocks /\ disk'.heights = disk.heights
    BY <1>2, <2>1
  <2> QED BY <2>2 DEF NoGaps
<1>5. CASE w.to = "heights"
  <2> DEFINE b == w.what
             h == HeightOf[b]
  <2>1. disk' = [disk EXCEPT !.heights = {i \in @ : i.height # h} \cup {[height |-> h, block |-> b]}]
    BY <1>1, <1>5 DEF Put
  <2>2. /\ disk'.blocks = disk.blocks
        /\ disk'.heights = {i \in disk.heights : i.height # h} \cup {[height |-> h, block |-> b]}
    BY <1>2, <2>1
  <2>3. b \in disk.blocks /\ b \in Block
    <3>1. b \in disk.blocks \cup BeingWritten
      BY <1>1, <1>5 DEF IInv, WritesSound
    <3>2. BeingWritten = {}
      BY <1>5 DEF BeingWritten
    <3> QED BY <1>2, <3>1, <3>2
  <2> HIDE DEF w, b, h
  <2>4. \A i \in disk.heights : \E j \in disk'.heights : j.height = i.height
    BY <2>2
  <2>5. ASSUME h > 1 PROVE \E i \in disk.heights : i.height = h - 1
    <3>1. /\ b # Genesis /\ Previous[b] \in Block /\ h = HeightOf[Previous[b]] + 1
          /\ HeightOf[Previous[b]] \in Nat /\ HeightOf[b] = h
      BY <2>3, <2>5 DEF DatabaseAssumption, h
    <3>2. Previous[b] \in disk.blocks
      BY <2>3, <3>1 DEF IInv, StoredRooted, Rooted
    <3>3. Whole(Previous[b]) \/ WillBeWhole(Previous[b])
      BY <3>2 DEF IInv, BlocksWhole
    <3>4. ~Follows([to |-> "heights", what |-> Previous[b]])
      <4> SUFFICES ASSUME NEW i \in DOMAIN job.writes,
                          job.writes[i] = [to |-> "heights", what |-> Previous[b]]
                   PROVE  FALSE
        BY DEF Follows
      <4>1. Previous[b] = b
        BY <1>1, <1>5 DEF OneHeightWritten, w, b
      <4> QED BY <3>1, <4>1
    <3>5. HeightIndexed(Previous[b])
      BY <3>3, <3>4 DEF Whole, WillBeWhole
    <3>6. HeightOf[Previous[b]] = h - 1
      BY <3>1
    <3> QED BY <3>5, <3>6 DEF HeightIndexed
  <2>6. ASSUME NEW i \in disk'.heights, i.height > 1
        PROVE  \E j \in disk'.heights : j.height = i.height - 1
    <3>1. \E j \in disk.heights : j.height = i.height - 1
      <4>1. CASE i \in disk.heights
        BY <2>6, <4>1 DEF NoGaps
      <4>2. CASE i \notin disk.heights
        <5>1. i.height = h
          BY <2>2, <4>2
        <5> QED BY <2>5, <2>6, <5>1
      <4> QED BY <4>1, <4>2
    <3> QED BY <2>4, <3>1
  <2> QED BY <2>2, <2>6 DEF NoGaps
<1>6. w.to \in {"blocks", "heights", "transactions"}
  BY <1>1 DEF WriteType
<1> HIDE DEF w
<1> QED BY <1>3, <1>4, <1>5, <1>6

\* The last block goes from one to another that is at least as high.
GoesUp ==
  node.up /\ node.window # {} /\ node'.up =>
    node'.window # {} /\ HeightOf[LastBlock] <= HeightOf[TopOf(node'.window)]

\* Saving a block of the window (or the genesis block) keeps one chain.
LEMMA WriteStaysUnharmed ==
  ASSUME DatabaseAssumption, IInv, OneHeightWritten, NeverHarmed, ~budget.torn, Write
  PROVE  NeverHarmed' /\ disk.blocks \subseteq disk'.blocks /\ GoesUp
<1>1. Types /\ node.up /\ node' = node /\ job.writes # <<>> /\ job' = [job EXCEPT !.writes = Tail(job.writes)]
  BY DEF Write, Saving, IInv
<1>2. job'.phase = job.phase
  BY <1>1 DEF Types, JobType
<1>3. NoGaps' /\ disk.blocks \subseteq disk'.blocks /\ disk'.blocks \subseteq disk.blocks \cup BeingWritten
  BY WriteLeavesNoGap DEF NeverHarmed
<1>4. BeingWritten \subseteq Chain[TopOf(node.window)]
  <2>1. BeingWritten \subseteq Accepted
    BY DEF IInv, BlocksWhole
  <2>2. CASE node.window = {}
    <3>1. Accepted = {Genesis}
      BY <1>1, <2>2 DEF IInv, JobShape, Accepted, ToSet
    <3>2. TopOf(node.window) = Genesis
      BY <2>2 DEF TopOf
    <3> QED BY <2>1, <3>1, <3>2, ChainOfGenesis
  <2>3. CASE node.window # {}
    <3>1. Accepted \subseteq node.window
      BY <1>1, <2>3 DEF IInv, WindowOfJob
    <3>2. node.window \subseteq Chain[TopOf(node.window)]
      BY <1>1 DEF NeverHarmed, OneChain
    <3> QED BY <2>1, <3>1, <3>2
  <2> QED BY <2>2, <2>3
<1>5. OneChain'
  <2>1. disk'.blocks \cup node.window \subseteq Chain[TopOf(node.window)]
    BY <1>1, <1>3, <1>4 DEF NeverHarmed, OneChain
  <2> QED BY <1>1, <2>1 DEF OneChain
<1>6. GoesUp
  <2> SUFFICES ASSUME node.window # {}
               PROVE  HeightOf[LastBlock] <= HeightOf[TopOf(node.window)]
    BY <1>1 DEF GoesUp
  <2> QED BY <1>1, TopOfWindow
<1> QED BY <1>2, <1>3, <1>5, <1>6 DEF NeverHarmed

\* A node that starts again has its whole chain, unless a block was torn apart.
LEMMA RestartStaysUnharmed ==
  ASSUME DatabaseAssumption, IInv, NeverHarmed, ~budget.torn, Restart
  PROVE  NeverHarmed' /\ disk' = disk /\ GoesUp
<1>1. ~node.up /\ disk' = disk /\ Types /\ node'.up
  BY DEF Restart, IInv
<1>2. \A a \in disk.blocks : HeightIndexed(a)
  BY <1>1 DEF IInv, BlocksWhole, Whole
<1>3. job'.phase # "revert"
  <2>1. \/ job' = NoJob
        \/ job' = [phase |-> "save", accepted |-> <<Genesis>>, todo |-> <<Genesis>>, writes |-> <<>>]
    BY DEF Restart, NoJob
  <2> QED BY <2>1 DEF NoJob
<1>4. PICK l \in Block : disk.blocks \subseteq Chain[l]
  BY <1>1 DEF NeverHarmed, OneChain
<1>5. OneChain'
  <2>1. CASE GetLastBlock = {}
    <3>1. disk.heights = {}
      BY <2>1, TopIsFound
    <3>2. disk.blocks = {}
      BY <1>2, <3>1 DEF HeightIndexed
    <3>3. node'.window = {}
      BY <2>1 DEF Restart
    <3> QED BY <1>1, <3>2, <3>3 DEF OneChain
  <2>2. CASE GetLastBlock # {}
    <3>1. PICK b \in GetLastBlock : node' = [up |-> TRUE, window |-> {b}, stored |-> 1]
      BY <2>2 DEF Restart
    <3>2. disk.heights # {} /\ b \in disk.blocks
      BY <3>1 DEF GetLastBlock
    <3>3. \A i \in disk.heights : i.height <= HeightOf[b]
      BY <3>2, TopIsFound
    <3>4. ASSUME NEW a \in disk.blocks PROVE a \in Chain[b]
      <4>1. HeightOf[a] <= HeightOf[b]
        BY <1>2, <3>3 DEF HeightIndexed
      <4>2. a \in Chain[l] /\ b \in Chain[l]
        BY <1>4, <3>2
      <4> QED BY <4>1, <4>2, ChainIsTotal
    <3>5. TopOf({b}) = b
      <4>1. b \in Block /\ HeightOf[b] \in Nat
        BY <1>1, <3>2 DEF Types, DatabaseAssumption
      <4> QED BY <4>1 DEF TopOf
    <3>6. node'.window = {b}
      BY <3>1
    <3> QED BY <1>1, <3>2, <3>4, <3>5, <3>6 DEF OneChain
  <2> QED BY <2>1, <2>2
<1>6. NoGaps'
  BY <1>1 DEF NeverHarmed, NoGaps
<1> QED BY <1>1, <1>3, <1>5, <1>6 DEF NeverHarmed, GoesUp

\* The genesis block becomes the last one; otherwise saving changes no block.
LEMMA SavedStaysUnharmed ==
  ASSUME DatabaseAssumption, IInv, NeverHarmed, Saved
  PROVE  NeverHarmed' /\ disk' = disk /\ GoesUp
<1> DEFINE W == IF node.window = {} THEN ToSet(job.accepted) ELSE node.window
<1>1. /\ Types /\ node.up /\ disk' = disk /\ job' = NoJob
      /\ node' = [node EXCEPT !.stored = HeightOf[Last(job.accepted)], !.window = W]
  BY DEF Saved, Saving, IInv
<1>2. node'.up /\ node'.window = W
  BY <1>1 DEF Types
<1>3. /\ disk.blocks \cup W \subseteq Chain[TopOf(W)]
      /\ node.window # {} => W # {} /\ HeightOf[LastBlock] <= HeightOf[TopOf(W)]
  <2>1. CASE node.window = {}
    <3>1. W = {Genesis}
      BY <1>1, <2>1 DEF IInv, JobShape, ToSet
    <3>2. HeightOf[Genesis] \in Nat /\ Genesis \in Block
      BY DEF DatabaseAssumption
    <3>3. TopOf(node.window) = Genesis /\ TopOf({Genesis}) = Genesis
      BY <2>1, <3>2 DEF TopOf
    <3>4. disk.blocks \subseteq Chain[Genesis]
      BY <1>1, <3>3 DEF NeverHarmed, OneChain
    <3>5. Genesis \in Chain[Genesis]
      BY <3>2, InOwnChain
    <3> QED BY <2>1, <3>1, <3>3, <3>4, <3>5
  <2>2. CASE node.window # {}
    <3>1. W = node.window
      BY <2>2
    <3>2. disk.blocks \cup node.window \subseteq Chain[TopOf(node.window)]
      BY <1>1 DEF NeverHarmed, OneChain
    <3>3. HeightOf[LastBlock] <= HeightOf[TopOf(node.window)]
      BY <1>1, <2>2, TopOfWindow
    <3> QED BY <2>2, <3>1, <3>2, <3>3
  <2> QED BY <2>1, <2>2
<1> HIDE DEF W
<1>4. OneChain' /\ GoesUp
  BY <1>1, <1>2, <1>3 DEF OneChain, GoesUp
<1>5. job'.phase # "revert" /\ NoGaps'
  BY <1>1 DEF NoJob, NeverHarmed, NoGaps
<1> QED BY <1>1, <1>4, <1>5 DEF NeverHarmed

\* Unless a save fails or is torn apart, all that is stored stays in one chain,
\* without a gap, and grows with it.
LEMMA StaysUnharmed ==
  ASSUME DatabaseAssumption, IInv, OneHeightWritten, NeverHarmed, ~budget.torn,
         ~SaveFails, \A b \in Block : ~ApplyFails(b), [Next]_vars
  PROVE  NeverHarmed' /\ disk.blocks \subseteq disk'.blocks /\ GoesUp
<1>1. CASE \E b \in Block : AcceptBlock(b)
  <2>1. PICK b \in Block : AcceptBlock(b)
    BY <1>1
  <2>2. /\ NeverHarmed' /\ disk' = disk /\ node'.up /\ node'.window # {}
        /\ HeightOf[LastBlock] <= HeightOf[TopOf(node'.window)]
    BY <2>1, AcceptGoesUp
  <2> QED BY <2>2 DEF GoesUp
<1>2. CASE Write
  BY <1>2, WriteStaysUnharmed
<1>3. CASE Restart
  BY <1>3, RestartStaysUnharmed
<1>4. CASE Saved
  BY <1>4, SavedStaysUnharmed
<1>5. CASE Crash
  <2>1. /\ Types /\ node.up /\ disk' = disk /\ job' = job /\ node' = [node EXCEPT !.up = FALSE]
    BY <1>5 DEF Crash, IInv
  <2>2. ~node'.up
    BY <2>1 DEF Types
  <2>3. \E l \in Block : disk.blocks \subseteq Chain[l]
    <3>1. disk.blocks \subseteq Chain[TopOf(node.window)]
      BY <2>1 DEF NeverHarmed, OneChain
    <3>2. CASE node.window = {}
      BY <3>1, <3>2 DEF TopOf, DatabaseAssumption
    <3>3. CASE node.window # {}
      BY <2>1, <3>1, <3>3, TopOfWindow
    <3> QED BY <3>2, <3>3
  <2>4. OneChain' /\ NoGaps' /\ job'.phase # "revert"
    BY <2>1, <2>2, <2>3 DEF NeverHarmed, OneChain, NoGaps
  <2> QED BY <2>1, <2>2, <2>4 DEF NeverHarmed, GoesUp
<1>6. CASE SaveBlocks \/ SaveNext \/ UNCHANGED vars
  <2>1. disk' = disk /\ node' = node
    BY <1>6 DEF SaveBlocks, SaveNext, vars
  <2>2. job'.phase # "revert"
    <3>1. job \in JobType
      BY DEF IInv, Types
    <3>2. CASE SaveBlocks
      BY <3>1, <3>2 DEF SaveBlocks, EndOfChunk, JobType
    <3>3. CASE SaveNext
      BY <3>1, <3>3 DEF SaveNext, Saving, JobType
    <3>4. CASE UNCHANGED vars
      BY <3>4 DEF vars, NeverHarmed
    <3> QED BY <1>6, <3>2, <3>3, <3>4
  <2>3. OneChain' /\ NoGaps'
    BY <2>1 DEF NeverHarmed, OneChain, NoGaps
  <2>4. GoesUp
    <3> SUFFICES ASSUME node.up, node.window # {}
                 PROVE  HeightOf[LastBlock] <= HeightOf[TopOf(node.window)]
      BY <2>1 DEF GoesUp
    <3> QED BY TopOfWindow
  <2> QED BY <2>1, <2>2, <2>3, <2>4 DEF NeverHarmed
<1>7. ~RevertBlock /\ ~Reverted /\ ~Corrupted
  BY DEF NeverHarmed, RevertBlock, Reverted, Corrupted
<1> QED BY <1>1, <1>2, <1>3, <1>4, <1>5, <1>6, <1>7 DEF Next

\* A set of numbers that has the one below each, down to n, is an interval.
LEMMA NoHoles ==
  ASSUME NEW n \in Nat, NEW u \in Nat, NEW S \in SUBSET (n..u), \A h \in S : h > n => h - 1 \in S
  PROVE  \E m \in Int : m >= n - 1 /\ S = n..m
<1>1. CASE S = {}
  <2>1. n..(n - 1) = {} /\ n - 1 \in Int
    OBVIOUS
  <2> QED BY <1>1, <2>1
<1>2. CASE S # {}
  <2> DEFINE D == {u - h : h \in S}
  <2>1. D \in SUBSET Nat /\ D # {}
    <3>1. \A h \in S : h \in Nat /\ u - h \in Nat
      OBVIOUS
    <3> QED BY <1>2, <3>1
  <2> HIDE DEF D
  <2>2. PICK d \in D : \A e \in D : d <= e
    BY <2>1, NatMin
  <2>3. PICK m \in S : d = u - m
    BY <2>2 DEF D
  <2>4. \A h \in S : u - h \in D
    BY DEF D
  <2>5. \A h \in S : h <= m
    <3> SUFFICES ASSUME NEW h \in S PROVE h <= m
      OBVIOUS
    <3>1. u - m <= u - h /\ h \in Nat /\ m \in Nat
      BY <2>2, <2>3, <2>4
    <3> QED BY <3>1
  <2>6. m \in Nat /\ n <= m /\ S \subseteq n..m
    BY <2>5
  <2> DEFINE B == {k \in n..m : k..m \subseteq S}
  <2>7. B \in SUBSET Nat /\ B # {}
    <3>1. m \in B
      BY <2>6
    <3> QED BY <2>6, <3>1
  <2>8. PICK k \in B : \A j \in B : k <= j
    <3> HIDE DEF B
    <3> QED BY <2>7, NatMin
  <2>9. k = n
    <3> SUFFICES ASSUME k # n PROVE FALSE
      OBVIOUS
    <3>1. k \in n..m /\ k..m \subseteq S /\ k \in S /\ k > n
      BY <2>6, <2>8
    <3>2. k - 1 \in S /\ k - 1 \in n..m
      BY <2>6, <3>1
    <3>3. (k - 1)..m \subseteq S
      BY <2>6, <3>1, <3>2
    <3>4. k - 1 \in B
      BY <3>2, <3>3
    <3>5. k <= k - 1
      BY <2>8, <3>4
    <3> QED BY <3>1, <3>5
  <2>10. S = n..m
    BY <2>6, <2>8, <2>9
  <2> QED BY <2>6, <2>10
<1> QED BY <1>1, <1>2

\* Blocks that follow one another from a height.
InChain(blocks, from) ==
  \A k \in 1..Len(blocks) :
    /\ HeightOf[blocks[k]] = from + k - 1
    /\ k > 1 => Previous[blocks[k]] = blocks[k - 1]

\* The heights a request asks for of which a block is there.
FoundHeights(from, limit) == {h \in from..from + limit - 1 : Stored(h) # {}}

\* The heights that are found are those that are indexed, without a gap, and
\* every block found has one.
LEMMA FoundIsInterval ==
  ASSUME DatabaseAssumption, IInv, NoGaps, NEW from \in Nat \ {0}, NEW limit \in Nat \ {0},
         NEW hs, hs = FoundHeights(from, limit)
  PROVE  /\ \E m \in Int : m >= from - 1 /\ hs = from..m
         /\ \A h \in hs : Stored(h) # {} /\ \A b \in Stored(h) : b \in disk.blocks /\ HeightOf[b] = h
<1>1. \A i \in disk.heights : i.block \in disk.blocks /\ HeightOf[i.block] = i.height
  BY DEF IInv, IndexSound, IndexRefersToBlocks
<1>2. \A h : Stored(h) # {} <=> \E i \in disk.heights : i.height = h
  BY <1>1 DEF Stored
<1>0. \A h : h \in hs <=> h \in from..from + limit - 1 /\ Stored(h) # {}
  BY DEF FoundHeights
<1>3. from + limit - 1 \in Nat /\ hs \in SUBSET (from..from + limit - 1)
  BY <1>0
<1>4. ASSUME NEW h \in hs, h > from PROVE h - 1 \in hs
  <2>1. h \in from..from + limit - 1 /\ h > 1 /\ Stored(h) # {}
    BY <1>0, <1>4
  <2>2. PICK j \in disk.heights : j.height = h - 1
    BY <1>2, <2>1 DEF NoGaps
  <2>3. Stored(h - 1) # {}
    BY <1>2, <2>2
  <2>4. h - 1 \in from..from + limit - 1
    BY <1>4, <2>1
  <2> QED BY <1>0, <2>3, <2>4
<1>5. \E m \in Int : m >= from - 1 /\ hs = from..m
  <2>1. from \in Nat
    OBVIOUS
  <2> QED BY <1>3, <1>4, <2>1, NoHoles
<1>6. ASSUME NEW h \in hs, NEW b \in Stored(h)
      PROVE  b \in disk.blocks /\ HeightOf[b] = h
  BY <1>1, <1>6 DEF Stored
<1> QED BY <1>0, <1>5, <1>6

\* What is read of the height index follows one another from the first height.
LEMMA FoundInChain ==
  ASSUME DatabaseAssumption, IInv, NeverHarmed, node.up,
         NEW from \in Nat \ {0}, NEW limit \in Nat \ {0}
  PROVE  /\ BlocksForDownload(from, limit) \in Seq(Block)
         /\ InChain(BlocksForDownload(from, limit), from)
<1> DEFINE hs == FoundHeights(from, limit)
           Upto(h) == Cardinality({k \in hs : k <= h})
           U == UNION {Stored(h) : h \in hs}
           G == BlocksForDownload(from, limit)
           n == Cardinality(hs)
<1>1. PICK m \in Int : m >= from - 1 /\ hs = from..m
  <2>1. NoGaps
    BY DEF NeverHarmed
  <2>2. \E m \in Int : m >= from - 1 /\ hs = from..m
    BY <2>1, FoundIsInterval
  <2> QED BY <2>2
<1>2. \A h \in hs : Stored(h) # {} /\ \A b \in Stored(h) : b \in disk.blocks /\ HeightOf[b] = h
  <2>1. NoGaps
    BY DEF NeverHarmed
  <2> QED BY <2>1, FoundIsInterval
<1>3. G = [k \in 1..n |-> CHOOSE b \in U : Upto(HeightOf[b]) = k]
  BY DEF BlocksForDownload, FoundHeights
<1> HIDE DEF hs, G
<1>4. m \in Int /\ m >= from - 1 /\ from \in Int
  BY <1>1
<1>5. n = m - from + 1
  <2>1. Cardinality(from..m) = IF from > m THEN 0 ELSE m - from + 1
    BY <1>4, FS_Interval
  <2> QED BY <1>1, <1>4, <2>1
<1>6. \A b \in U : b \in disk.blocks /\ HeightOf[b] \in hs
  BY <1>2
<1>7. \A b \in U : Upto(HeightOf[b]) = HeightOf[b] - from + 1
  <2> SUFFICES ASSUME NEW b \in U
               PROVE  Upto(HeightOf[b]) = HeightOf[b] - from + 1
    OBVIOUS
  <2>1. HeightOf[b] \in from..m
    BY <1>1, <1>6
  <2>2. Upto(HeightOf[b]) = Cardinality(from..HeightOf[b])
    <3>1. {k \in hs : k <= HeightOf[b]} = from..HeightOf[b]
      BY <1>1, <1>4, <2>1
    <3> QED BY <3>1
  <2>3. Cardinality(from..HeightOf[b]) = IF from > HeightOf[b] THEN 0 ELSE HeightOf[b] - from + 1
    BY <1>4, <2>1, FS_Interval
  <2> HIDE DEF Upto
  <2> QED BY <1>4, <2>1, <2>2, <2>3
<1>8. \A k \in 1..n : \E b \in U : HeightOf[b] = from + k - 1
  <2> SUFFICES ASSUME NEW k \in 1..n
               PROVE  \E b \in U : HeightOf[b] = from + k - 1
    OBVIOUS
  <2>1. from + k - 1 \in hs
    BY <1>1, <1>4, <1>5
  <2> QED BY <1>2, <2>1
<1> HIDE DEF U, n, Upto
<1>9. \A k \in 1..n : G[k] \in U /\ HeightOf[G[k]] = from + k - 1
  <2> SUFFICES ASSUME NEW k \in 1..n
               PROVE  G[k] \in U /\ HeightOf[G[k]] = from + k - 1
    OBVIOUS
  <2>1. \E b \in U : Upto(HeightOf[b]) = k
    <3>1. PICK b \in U : HeightOf[b] = from + k - 1
      BY <1>8
    <3>2. Upto(HeightOf[b]) = k
      BY <1>4, <1>7, <3>1
    <3> QED BY <3>2
  <2>2. G[k] = CHOOSE b \in U : Upto(HeightOf[b]) = k
    BY <1>3
  <2>3. G[k] \in U /\ Upto(HeightOf[G[k]]) = k
    BY <2>1, <2>2
  <2>4. HeightOf[G[k]] - from + 1 = k /\ HeightOf[G[k]] \in Int
    BY <1>1, <1>6, <1>7, <2>3
  <2> QED BY <1>4, <2>3, <2>4
<1>10. n \in Nat /\ G \in [1..n -> Block] /\ DOMAIN G = 1..n
  <2>1. U \subseteq Block
    BY <1>6 DEF IInv, Types
  <2>2. n \in Nat
    BY <1>4, <1>5
  <2>3. DOMAIN G = 1..n
    BY <1>3
  <2>4. G \in [1..n -> Block]
    BY <1>3, <1>9, <2>1
  <2> QED BY <2>2, <2>3, <2>4
<1>11. G \in Seq(Block) /\ Len(G) = n
  BY <1>10
<1>12. ASSUME NEW k \in 1..n, k > 1 PROVE Previous[G[k]] = G[k - 1]
  <2> DEFINE a == G[k - 1]
             b == G[k]
  <2>1. k - 1 \in 1..n
    BY <1>10, <1>12
  <2>2. /\ a \in disk.blocks /\ HeightOf[a] = from + (k - 1) - 1
        /\ b \in disk.blocks /\ HeightOf[b] = from + k - 1
    BY <1>6, <1>9, <2>1
  <2> HIDE DEF a, b
  <2>3. b \in Block /\ b # Genesis /\ HeightOf[b] = HeightOf[Previous[b]] + 1 /\ HeightOf[Previous[b]] \in Nat
    BY <1>4, <1>12, <2>2 DEF IInv, Types, DatabaseAssumption
  <2>4. Previous[b] \in disk.blocks
    BY <2>2, <2>3 DEF IInv, StoredRooted, Rooted
  <2>5. HeightOf[Previous[b]] = HeightOf[a]
    BY <2>2, <2>3, <1>4
  <2>6. \E l \in Block : disk.blocks \subseteq Chain[l]
    <3>1. disk.blocks \subseteq Chain[TopOf(node.window)]
      BY DEF NeverHarmed, OneChain
    <3>2. CASE node.window = {}
      BY <3>1, <3>2 DEF TopOf, DatabaseAssumption
    <3>3. CASE node.window # {}
      BY <3>1, <3>3, TopOfWindow
    <3> QED BY <3>2, <3>3
  <2>7. Previous[b] = a
    BY <2>2, <2>4, <2>5, <2>6, ChainIsTotal
  <2> QED BY <2>7 DEF a, b
<1>13. InChain(G, from)
  BY <1>9, <1>11, <1>12 DEF InChain
<1> QED BY <1>11, <1>13 DEF G

\* A request is of a node that is up; what was found for it is in our chain.
RequestTrue ==
  \/ request = NoRequest
  \/ /\ node.up /\ node.window # {}
     /\ \/ \E from \in Nat, found \in Seq(Block) :
             request = [kind |-> "blocks", from |-> from, found |-> found] /\ InChain(found, from)
        \/ \E ids, left, found :
             /\ request = [kind |-> "common", ids |-> ids, left |-> left, found |-> found]
             /\ found \subseteq disk.blocks
        \/ \E b : request = [kind |-> "status", block |-> b]

\* What was answered, and the height it was answered at.
AnswerTrue ==
  \/ answer.kind \in {"none", "error", "status"}
  \/ \E from \in Nat, blocks \in Seq(Block) :
       answer = [kind |-> "blocks", from |-> from, blocks |-> blocks] /\ InChain(blocks, from)
  \/ /\ node.up /\ node.window # {}
     /\ \E ids, b, h :
          /\ answer = [kind |-> "common", ids |-> ids, common |-> b, lastBlockHeight |-> h]
          /\ b \in disk.blocks /\ h \in Nat /\ HeightOf[b] <= h /\ h <= LastHeight

ServerInv ==
  /\ IInv /\ OneHeightWritten /\ budget.faults <= MaxFaults
  /\ Unharmed => NeverHarmed /\ RequestTrue /\ AnswerTrue

\* What is found and answered is of a chain that only goes up.
LEMMA ChainStepKeepsTrue ==
  ASSUME DatabaseAssumption, IInv, IInv', NeverHarmed, NeverHarmed', disk.blocks \subseteq disk'.blocks, GoesUp,
         RequestTrue, AnswerTrue,
         request' = IF Unanswered THEN NoRequest ELSE request,
         answer' = IF Unanswered THEN NoAnswer ELSE answer
  PROVE  RequestTrue' /\ AnswerTrue'
<1>1. CASE Unanswered
  <2>1. request' = NoRequest /\ answer' = NoAnswer
    BY <1>1
  <2> QED BY <2>1 DEF RequestTrue, AnswerTrue, NoAnswer
<1>2. CASE ~Unanswered
  <2>1. request' = request /\ answer' = answer
    BY <1>2
  <2>2. ASSUME node.up, node.window # {}
        PROVE  node'.up /\ node'.window # {} /\ LastHeight <= LastHeight' /\ LastHeight \in Nat /\ LastHeight' \in Nat
    <3>1. node'.up /\ node'.window # {} /\ HeightOf[LastBlock] <= HeightOf[TopOf(node'.window)]
      BY <1>2, <2>2 DEF Unanswered, GoesUp
    <3>2. TopOf(node'.window) = LastBlock' /\ HeightOf[LastBlock'] \in Nat
      <4>1. WindowOfJob' /\ node'.up /\ node'.window # {}
        BY <3>1 DEF IInv
      <4>2. Windowed(node'.window) /\ \E t \in node'.window : IsTop(t, node'.window)
        BY <4>1 DEF WindowOfJob, Windowed, IsTop, OnePerHeight, Linked
      <4>3. PICK t \in node'.window : IsTop(t, node'.window)
        BY <4>2
      <4>4. TopOf(node'.window) = t
        BY <4>2, <4>3, TopIsLast
      <4>5. t \in Block
        BY <4>2 DEF Windowed
      <4>6. TopOf(node'.window) = LastBlock'
        BY <4>1 DEF TopOf, LastBlock
      <4> QED BY <4>4, <4>5, <4>6 DEF DatabaseAssumption
    <3>3. HeightOf[LastBlock] \in Nat
      BY <2>2, TopOfWindow
    <3> QED BY <3>1, <3>2, <3>3 DEF LastHeight
  <2> HIDE DEF LastHeight
  <2>3. RequestTrue'
    <3>1. CASE request = NoRequest
      BY <2>1, <3>1 DEF RequestTrue
    <3>2. CASE request # NoRequest
      <4>1. node'.up /\ node'.window # {}
        BY <2>2, <3>2 DEF RequestTrue
      <4>2. CASE \E from \in Nat, found \in Seq(Block) :
                   request = [kind |-> "blocks", from |-> from, found |-> found] /\ InChain(found, from)
        <5>1. \E from \in Nat, found \in Seq(Block) :
                request' = [kind |-> "blocks", from |-> from, found |-> found] /\ InChain(found, from)
          BY <2>1, <4>2
        <5> QED BY <4>1, <5>1 DEF RequestTrue, InChain
      <4>3. CASE \E ids, left, found :
                   /\ request = [kind |-> "common", ids |-> ids, left |-> left, found |-> found]
                   /\ found \subseteq disk.blocks
        <5>1. \E ids, left, found :
                   /\ request' = [kind |-> "common", ids |-> ids, left |-> left, found |-> found]
                   /\ found \subseteq disk'.blocks
          BY <2>1, <4>3
        <5> QED BY <4>1, <5>1 DEF RequestTrue
      <4>4. CASE \E b : request = [kind |-> "status", block |-> b]
        BY <2>1, <4>1, <4>4 DEF RequestTrue
      <4> QED BY <3>2, <4>2, <4>3, <4>4 DEF RequestTrue
    <3> QED BY <3>1, <3>2
  <2>4. AnswerTrue'
    <3>1. CASE answer.kind \in {"none", "error", "status"}
      BY <2>1, <3>1 DEF AnswerTrue
    <3>2. CASE \E from \in Nat, blocks \in Seq(Block) :
                 answer = [kind |-> "blocks", from |-> from, blocks |-> blocks] /\ InChain(blocks, from)
      BY <2>1, <3>2 DEF AnswerTrue, InChain
    <3>3. ASSUME node.up, node.window # {}, NEW ids, NEW b, NEW h,
                 answer = [kind |-> "common", ids |-> ids, common |-> b, lastBlockHeight |-> h],
                 b \in disk.blocks, h \in Nat, HeightOf[b] <= h, h <= LastHeight
          PROVE  AnswerTrue'
      <4>1. node'.up /\ node'.window # {} /\ h <= LastHeight'
        BY <2>2, <3>3
      <4>2. b \in disk'.blocks /\ answer' = [kind |-> "common", ids |-> ids, common |-> b, lastBlockHeight |-> h]
        BY <2>1, <3>3
      <4> QED BY <3>3, <4>1, <4>2 DEF AnswerTrue
    <3> QED BY <3>1, <3>2, <3>3 DEF AnswerTrue
  <2> QED BY <2>3, <2>4
<1> QED BY <1>1, <1>2

\* A step of the server.
ServerStep ==
  \/ \E from \in Heights, limit \in 1..MaxLimit : AskBlocks(from, limit)
  \/ \E n \in 1..MaxIds : \E ids \in [1..n -> Block] : AskCommonBlocks(ids)
  \/ AskStatus \/ GetBlocks \/ FindBlock \/ GetCommonBlocks \/ GetStatus

\* What a request asks or is answered changes nothing else.
LEMMA RequestKeepsTrue ==
  ASSUME ServerAssumption, IInv, NeverHarmed, RequestTrue, AnswerTrue, ServerStep
  PROVE  RequestTrue' /\ AnswerTrue'
<1>1. node' = node /\ disk' = disk /\ LastHeight' = LastHeight
  <2>1. node' = node /\ disk' = disk
    BY DEF ServerStep, vars, AskBlocks, AskCommonBlocks, AskStatus, GetBlocks, FindBlock, GetCommonBlocks, GetStatus
  <2> QED BY <2>1 DEF LastHeight, LastBlock
<1>2. DatabaseAssumption
  BY DEF ServerAssumption
<1> HIDE DEF LastHeight
<1>3. /\ answer' = answer => AnswerTrue'
      /\ request' = request => RequestTrue'
      /\ request' = NoRequest => RequestTrue'
  BY <1>1 DEF AnswerTrue, RequestTrue, InChain
<1>4. ASSUME NEW from \in Heights, NEW limit \in 1..MaxLimit, AskBlocks(from, limit)
      PROVE  RequestTrue' /\ AnswerTrue'
  <2> DEFINE found == IF from > LastHeight THEN <<>> ELSE BlocksForDownload(from, limit)
  <2>1. /\ node.up /\ node.window # {} /\ answer' = answer
        /\ request' = [kind |-> "blocks", from |-> from, found |-> found]
    BY <1>4 DEF AskBlocks, Serving
  <2>2. from \in Nat \ {0} /\ limit \in Nat \ {0}
    BY <1>2, <1>4 DEF Heights, DatabaseAssumption, ServerAssumption
  <2>3. found \in Seq(Block) /\ InChain(found, from)
    <3>1. CASE from > LastHeight
      <4>1. found = <<>>
        BY <3>1
      <4> HIDE DEF found
      <4> QED BY <4>1 DEF InChain
    <3>2. CASE ~(from > LastHeight)
      <4>1. found = BlocksForDownload(from, limit)
        BY <3>2
      <4> HIDE DEF found
      <4> QED BY <1>2, <2>1, <2>2, <4>1, FoundInChain
    <3> QED BY <3>1, <3>2
  <2> HIDE DEF found
  <2>4. \E f \in Nat, g \in Seq(Block) :
          request' = [kind |-> "blocks", from |-> f, found |-> g] /\ InChain(g, f)
    BY <2>1, <2>2, <2>3
  <2>5. RequestTrue'
    BY <1>1, <2>1, <2>4 DEF RequestTrue, InChain
  <2> QED BY <1>3, <2>1, <2>5
<1>5. ASSUME NEW ids, AskCommonBlocks(ids)
      PROVE  RequestTrue' /\ AnswerTrue'
  <2>1. /\ node.up /\ node.window # {} /\ answer' = answer
        /\ request' = [kind |-> "common", ids |-> ids, left |-> ids, found |-> {}]
    BY <1>5 DEF AskCommonBlocks, Serving
  <2>2. \E i, l, f : request' = [kind |-> "common", ids |-> i, left |-> l, found |-> f] /\ f \subseteq disk'.blocks
    <3>1. {} \subseteq disk'.blocks
      OBVIOUS
    <3> WITNESS ids, ids, {}
    <3> QED BY <2>1, <3>1
  <2> QED BY <1>1, <1>3, <2>1, <2>2 DEF RequestTrue
<1>6. CASE AskStatus
  <2>1. /\ node.up /\ node.window # {} /\ answer' = answer
        /\ \E b : request' = [kind |-> "status", block |-> b]
    BY <1>6 DEF AskStatus, Serving
  <2> QED BY <1>1, <1>3, <2>1 DEF RequestTrue
<1>7. CASE GetBlocks
  <2>1. request.kind = "blocks" /\ request' = NoRequest
    BY <1>7 DEF GetBlocks, Waiting, Answer
  <2>2. PICK n \in 0..Len(request.found) :
          answer' = [kind |-> "blocks", from |-> request.from, blocks |-> SubSeq(request.found, 1, n)]
    BY <1>7 DEF GetBlocks, Answer
  <2>3. PICK from \in Nat, found \in Seq(Block) :
          request = [kind |-> "blocks", from |-> from, found |-> found] /\ InChain(found, from)
    BY <2>1 DEF RequestTrue, NoRequest
  <2>4. request.from = from /\ request.found = found
    BY <2>3
  <2> DEFINE blocks == SubSeq(found, 1, n)
  <2>5. n \in 0..Len(found) /\ Len(found) \in Nat /\ \A i \in 1..n : found[i] \in Block
    BY <2>2, <2>3, <2>4
  <2>6. blocks \in Seq(Block) /\ Len(blocks) = n /\ \A i \in 1..n : blocks[i] = found[i]
    <3>1. n \in Int /\ 1 \in Int
      BY <2>5
    <3>2. /\ blocks \in Seq(Block) /\ Len(blocks) = IF 1 <= n THEN n - 1 + 1 ELSE 0
          /\ \A i \in 1..n - 1 + 1 : blocks[i] = found[1 + i - 1]
      BY <2>5, <3>1, SubSeqProperties
    <3> HIDE DEF blocks
    <3> QED BY <2>5, <3>2
  <2> HIDE DEF blocks
  <2>7. InChain(blocks, from)
    <3>1. \A k \in 1..n : k \in 1..Len(found) /\ (k > 1 => k - 1 \in 1..n)
      BY <2>5
    <3> QED BY <2>3, <2>6, <3>1 DEF InChain
  <2>8. answer' = [kind |-> "blocks", from |-> from, blocks |-> blocks]
    BY <2>2, <2>4 DEF blocks
  <2>9. AnswerTrue'
    BY <2>3, <2>6, <2>7, <2>8 DEF AnswerTrue, InChain
  <2> QED BY <1>3, <2>1, <2>9
<1>8. CASE FindBlock
  <2>1. /\ request.kind = "common" /\ answer' = answer
        /\ request' = [request EXCEPT !.left = Tail(@), !.found = @ \cup ({Head(request.left)} \cap disk.blocks)]
    BY <1>8 DEF FindBlock, Waiting
  <2>2. PICK ids, left, found :
          /\ request = [kind |-> "common", ids |-> ids, left |-> left, found |-> found]
          /\ found \subseteq disk.blocks
    BY <2>1 DEF RequestTrue, NoRequest
  <2>3. request' = [kind |-> "common", ids |-> ids, left |-> Tail(left),
                    found |-> found \cup ({Head(left)} \cap disk.blocks)]
    BY <2>1, <2>2
  <2>4. \E i, l, f : request' = [kind |-> "common", ids |-> i, left |-> l, found |-> f] /\ f \subseteq disk'.blocks
    <3>1. found \cup ({Head(left)} \cap disk.blocks) \subseteq disk'.blocks
      BY <1>1, <2>2
    <3> QED BY <2>3, <3>1
  <2>5. node.up /\ node.window # {}
    BY <2>1 DEF RequestTrue, NoRequest
  <2> QED BY <1>1, <1>3, <2>1, <2>4, <2>5 DEF RequestTrue
<1>9. CASE GetCommonBlocks
  <2>1. request.kind = "common" /\ request' = NoRequest
    BY <1>9 DEF GetCommonBlocks, Waiting, Answer
  <2>2. PICK ids, left, found :
          /\ request = [kind |-> "common", ids |-> ids, left |-> left, found |-> found]
          /\ found \subseteq disk.blocks
    BY <2>1 DEF RequestTrue, NoRequest
  <2>3. node.up /\ node.window # {}
    BY <2>1 DEF RequestTrue, NoRequest
  <2>4. CASE answer' = NotFound
    BY <1>3, <2>1, <2>4 DEF AnswerTrue, NotFound
  <2>5. CASE \E b \in request.found :
               answer' = [kind |-> "common", ids |-> request.ids, common |-> b, lastBlockHeight |-> LastHeight]
    <3>1. PICK b \in request.found :
            answer' = [kind |-> "common", ids |-> request.ids, common |-> b, lastBlockHeight |-> LastHeight]
      BY <2>5
    <3>2. b \in disk.blocks
      BY <2>2, <3>1
    <3>3. LastHeight \in Nat /\ HeightOf[b] <= LastHeight
      <4>1. TopOf(node.window) = LastBlock /\ TopOf(node.window) \in Block /\ HeightOf[LastBlock] \in Nat
        BY <1>2, <2>3, TopOfWindow
      <4>2. b \in Chain[LastBlock] /\ LastBlock \in Block
        BY <2>3, <3>2, <4>1 DEF NeverHarmed, OneChain
      <4> QED BY <1>2, <4>1, <4>2, ChainIsBelow DEF LastHeight
    <3>4. \E i, c, h :
            /\ answer' = [kind |-> "common", ids |-> i, common |-> c, lastBlockHeight |-> h]
            /\ c \in disk'.blocks /\ h \in Nat /\ HeightOf[c] <= h /\ h <= LastHeight'
      <4>1. b \in disk'.blocks /\ LastHeight <= LastHeight'
        BY <1>1, <3>2, <3>3
      <4> QED BY <3>1, <3>3, <4>1, Zenon
    <3>5. node'.up /\ node'.window # {}
      BY <1>1, <2>3
    <3> QED BY <1>3, <2>1, <3>4, <3>5 DEF AnswerTrue
  <2> QED BY <1>9, <2>4, <2>5 DEF GetCommonBlocks, Answer
<1>10. CASE GetStatus
  <2>1. request' = NoRequest /\ answer'.kind = "status"
    BY <1>10 DEF GetStatus, Answer
  <2> QED BY <1>3, <2>1 DEF AnswerTrue
<1> QED BY <1>4, <1>5, <1>6, <1>7, <1>8, <1>9, <1>10 DEF ServerStep

\* Every step of the node, or of a request, keeps the invariant.
LEMMA ServerStepKeeps ==
  ASSUME ServerAssumption, ServerInv, [ServerNext]_serverVars
  PROVE  ServerInv'
<1>1. DatabaseAssumption /\ MaxFaults \in Nat /\ IInv /\ OneHeightWritten /\ budget.faults <= MaxFaults
  BY DEF ServerAssumption, DatabaseAssumption, ServerInv
<1>2. [Next]_vars
  BY DEF ServerNext, serverVars, vars, AskBlocks, AskCommonBlocks, AskStatus, GetBlocks, FindBlock,
    GetCommonBlocks, GetStatus
<1>3. IInv' /\ OneHeightWritten'
  BY <1>1, <1>2, StepKeeps, OneHeightKeeps
<1>4. budget'.faults <= MaxFaults
  BY <1>1, <1>2, HarmStays
<1>5. ASSUME Unharmed' PROVE NeverHarmed' /\ RequestTrue' /\ AnswerTrue'
  <2>1. Unharmed /\ ~SaveFails /\ \A b \in Block : ~ApplyFails(b)
    BY <1>1, <1>2, <1>5, HarmStays
  <2>2. NeverHarmed /\ RequestTrue /\ AnswerTrue /\ ~budget.torn
    BY <2>1 DEF ServerInv, Unharmed
  <2>3. NeverHarmed' /\ disk.blocks \subseteq disk'.blocks /\ GoesUp
    BY <1>1, <1>2, <2>1, <2>2, StaysUnharmed
  <2>4. CASE /\ request' = IF Unanswered THEN NoRequest ELSE request
             /\ answer' = IF Unanswered THEN NoAnswer ELSE answer
    BY <1>1, <1>3, <2>2, <2>3, <2>4, ChainStepKeepsTrue
  <2>5. CASE ServerStep
    BY <1>1, <2>2, <2>3, <2>5, RequestKeepsTrue
  <2>6. CASE UNCHANGED serverVars
    <3>1. /\ request' = request /\ answer' = answer /\ ~Unanswered
      BY <2>6 DEF serverVars, Unanswered
    <3>2. /\ request' = IF Unanswered THEN NoRequest ELSE request
          /\ answer' = IF Unanswered THEN NoAnswer ELSE answer
      BY <3>1
    <3> QED BY <2>4, <3>2
  <2> QED BY <2>3, <2>4, <2>5, <2>6 DEF ServerNext, ServerStep
<1> QED BY <1>3, <1>4, <1>5 DEF ServerInv

\* As long as no save failed and none was torn apart: the blocks that a peer is
\* given follow one another from the height that it asked for, and the block
\* that it has in common with us is in our chain, at a height that we do not
\* overstate, whatever was accepted, saved or lost while it was answered.
THEOREM AnswersStayTrue == ASSUME ServerAssumption PROVE ServerSpec => []AnswersTrue
<1>1. DatabaseAssumption
  BY DEF ServerAssumption
<1>2. ServerInit => ServerInv
  <2> SUFFICES ASSUME ServerInit
               PROVE  ServerInv
    OBVIOUS
  <2>1. Init /\ request = NoRequest /\ answer = NoAnswer
    BY DEF ServerInit
  <2>2. IInv
    BY <1>1, <2>1, InitSound
  <2>3. OneHeightWritten
    BY <2>1 DEF Init, NoJob, OneHeightWritten
  <2>4. budget.faults <= MaxFaults
    BY <1>1, <2>1 DEF Init, DatabaseAssumption
  <2>5. NeverHarmed
    <3>1. disk.blocks = {} /\ disk.heights = {} /\ ~node.up /\ job.phase = "process"
      BY <2>1 DEF Init, NoJob
    <3>2. Genesis \in Block
      BY <1>1 DEF DatabaseAssumption
    <3> QED BY <3>1, <3>2 DEF NeverHarmed, OneChain, NoGaps
  <2>6. RequestTrue /\ AnswerTrue
    BY <2>1 DEF RequestTrue, AnswerTrue, NoAnswer
  <2> QED BY <2>2, <2>3, <2>4, <2>5, <2>6 DEF ServerInv
<1>3. ServerInv /\ [ServerNext]_serverVars => ServerInv'
  BY ServerStepKeeps
<1>4. ASSUME ServerInv, Unharmed, answer.kind = "blocks"
      PROVE  \A k \in 1..Len(answer.blocks) :
               /\ HeightOf[answer.blocks[k]] = answer.from + k - 1
               /\ k > 1 => Previous[answer.blocks[k]] = answer.blocks[k - 1]
  <2>1. PICK from \in Nat, blocks \in Seq(Block) :
          answer = [kind |-> "blocks", from |-> from, blocks |-> blocks] /\ InChain(blocks, from)
    BY <1>4 DEF ServerInv, AnswerTrue
  <2>2. answer.from = from /\ answer.blocks = blocks
    BY <2>1
  <2> QED BY <2>1, <2>2 DEF InChain
<1>5. ASSUME ServerInv, Unharmed, answer.kind = "common"
      PROVE  /\ answer.common \in Chain[LastBlock]
             /\ HeightOf[answer.common] <= answer.lastBlockHeight
             /\ answer.lastBlockHeight <= LastHeight
  <2>1. IInv /\ NeverHarmed /\ AnswerTrue
    BY <1>5 DEF ServerInv
  <2>2. /\ node.up /\ node.window # {}
        /\ \E ids, b, h :
             /\ answer = [kind |-> "common", ids |-> ids, common |-> b, lastBlockHeight |-> h]
             /\ b \in disk.blocks /\ h \in Nat /\ HeightOf[b] <= h /\ h <= LastHeight
    BY <1>5, <2>1 DEF AnswerTrue
  <2>3. PICK ids, b, h :
             /\ answer = [kind |-> "common", ids |-> ids, common |-> b, lastBlockHeight |-> h]
             /\ b \in disk.blocks /\ h \in Nat /\ HeightOf[b] <= h /\ h <= LastHeight
    BY <2>2
  <2>4. answer.common = b /\ answer.lastBlockHeight = h
    BY <2>3
  <2>5. TopOf(node.window) = LastBlock
    BY <1>1, <2>1, <2>2, TopOfWindow
  <2>6. b \in Chain[LastBlock]
    BY <2>1, <2>2, <2>3, <2>5 DEF NeverHarmed, OneChain
  <2> QED BY <2>3, <2>4, <2>6
<1>6. ServerInv => AnswersTrue
  BY <1>4, <1>5 DEF AnswersTrue, BlocksServedInChain, CommonIsOurs
<1> QED BY <1>2, <1>3, <1>6, PTL DEF ServerSpec

-----------------------------------------------------------------------------
\* The rounds of validators, beside the database.
RoundsProof == INSTANCE RoundState_proof WITH
  MaxHeight <- MaxApplied, MaxChunk <- RoundChunk, MaxFaults <- RoundFaults, MaxCrashes <- RoundCrashes,
  disk <- roundsDisk, job <- roundsJob, budget <- roundsBudget

\* Whatever blocks are applied, refused, reverted and saved, and wherever the
\* node stops: the validators in force and the stored rounds are those that the
\* chain decided. Balances that StateBuilder accumulates keep this only as long
\* as no restart rebuilds them from more than the genesis block.
THEOREM RoundsStayAsDecided ==
  ASSUME Rounds!RoundStateAssumption, ~Accumulated \/ RoundCrashes = 0
  PROVE  Rounds!Spec => []RoundsAsDecided
<1>0. RoundsProof!RoundStateAssumption
  BY DEF Rounds!RoundStateAssumption, RoundsProof!RoundStateAssumption, Rounds!IsInjective, RoundsProof!IsInjective,
      Rounds!Cardinality, RoundsProof!Cardinality, Rounds!ToSet, RoundsProof!ToSet, Rounds!IsFiniteSet,
      RoundsProof!IsFiniteSet
<1>1. Rounds!Init => RoundsProof!Init
  BY DEF Rounds!Init, RoundsProof!Init, Rounds!NoJob, RoundsProof!NoJob
<1>2. [Rounds!Next]_Rounds!vars => [RoundsProof!Next]_RoundsProof!vars
  BY DEF Rounds!Next, RoundsProof!Next, Rounds!vars, RoundsProof!vars, Rounds!ApplyBlock, RoundsProof!ApplyBlock,
      Rounds!SaveRoundFails, RoundsProof!SaveRoundFails, Rounds!AfterRoundFails, RoundsProof!AfterRoundFails,
      Rounds!Applied, RoundsProof!Applied, Rounds!RevertRefused, RoundsProof!RevertRefused,
      Rounds!RevertAccepted, RoundsProof!RevertAccepted, Rounds!RevertBlock, RoundsProof!RevertBlock,
      Rounds!RevertRound, RoundsProof!RevertRound, Rounds!PreviousVotes, RoundsProof!PreviousVotes,
      Rounds!BlocksForRound, RoundsProof!BlocksForRound, Rounds!SaveBlocks, RoundsProof!SaveBlocks,
      Rounds!SaveFails, RoundsProof!SaveFails, Rounds!RestoreAfterRevert, RoundsProof!RestoreAfterRevert,
      Rounds!Restored, RoundsProof!Restored, Rounds!Crash, RoundsProof!Crash, Rounds!Restart,
      RoundsProof!Restart, Rounds!Rebuilt, RoundsProof!Rebuilt, Rounds!StartRound, RoundsProof!StartRound,
      Rounds!Starts, RoundsProof!Starts, Rounds!Active, RoundsProof!Active, Rounds!SaveRound,
      RoundsProof!SaveRound, Rounds!DeleteRound, RoundsProof!DeleteRound, Rounds!StoredOrder,
      RoundsProof!StoredOrder, Rounds!RoundValidators, RoundsProof!RoundValidators, Rounds!Ranking,
      RoundsProof!Ranking, Rounds!Sorted, RoundsProof!Sorted, Rounds!Better, RoundsProof!Better,
      Rounds!KeyBefore, RoundsProof!KeyBefore, Rounds!VotesOf, RoundsProof!VotesOf, Rounds!RoundOf,
      RoundsProof!RoundOf, Rounds!RoundHeight, RoundsProof!RoundHeight, Rounds!IsLastOfRound,
      RoundsProof!IsLastOfRound, Rounds!Height, RoundsProof!Height, Rounds!NoJob, RoundsProof!NoJob,
      Rounds!IsInjective, RoundsProof!IsInjective, Rounds!Cardinality, RoundsProof!Cardinality, Rounds!ToSet,
      RoundsProof!ToSet, Rounds!Front, RoundsProof!Front, Rounds!Last, RoundsProof!Last, Rounds!FoldLeft,
      RoundsProof!FoldLeft, Rounds!MapThenFoldSet, RoundsProof!MapThenFoldSet, Rounds!Max, RoundsProof!Max
<1>3. RoundsProof!Spec => [](RoundsProof!ForgingAsDecided /\ RoundsProof!RoundsAsDecided /\ RoundsProof!BlocksOfRound)
  BY <1>0, RoundsProof!RoundsFollowTheChain
<1>4. RoundsProof!ForgingAsDecided /\ RoundsProof!RoundsAsDecided /\ RoundsProof!BlocksOfRound => RoundsAsDecided
  BY DEF RoundsAsDecided,
      Rounds!RoundsAsDecided, RoundsProof!RoundsAsDecided, Rounds!ForgingAsDecided, RoundsProof!ForgingAsDecided,
      Rounds!BlocksOfRound, RoundsProof!BlocksOfRound, Rounds!Settled, RoundsProof!Settled, Rounds!Decided,
      RoundsProof!Decided, Rounds!DecidedBy, RoundsProof!DecidedBy, Rounds!RoundValidators,
      RoundsProof!RoundValidators, Rounds!Ranking, RoundsProof!Ranking, Rounds!Sorted, RoundsProof!Sorted,
      Rounds!Better, RoundsProof!Better, Rounds!KeyBefore, RoundsProof!KeyBefore, Rounds!VotesOf,
      RoundsProof!VotesOf, Rounds!RoundOf, RoundsProof!RoundOf, Rounds!RoundHeight, RoundsProof!RoundHeight,
      Rounds!Height, RoundsProof!Height, Rounds!Cardinality, RoundsProof!Cardinality, Rounds!IsInjective,
      RoundsProof!IsInjective, Rounds!ToSet, RoundsProof!ToSet
<1> QED
  BY <1>1, <1>2, <1>3, <1>4, PTL DEF Rounds!Spec, RoundsProof!Spec
=============================================================================
