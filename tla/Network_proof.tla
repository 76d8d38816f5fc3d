--------------------------- MODULE Network_proof ---------------------------
(***************************************************************************)
(* What blocks travel by: nobody is sent a block that no peer of it has    *)
(* accepted, the table of pending peers tells which verifications run,     *)
(* requests to a peer keep to its rate limit as far as the code can, while *)
(* one call for blocks runs at a time, what it returns lies where it asked *)
(* for it, none of it twice, blocks are rolled back only to a fork whose   *)
(* peers outnumber us, and a peer is verified by a block both chains had.  *)
(***************************************************************************)
EXTENDS Network, SequenceTheorems, FiniteSetTheorems, NaturalsInduction, WellFoundedInduction, TLAPS

-----------------------------------------------------------------------------
(* How a block spreads *)

Ping == [block : Blocks, count : 0..MaxHop, fromForger : BOOLEAN]

GossipTyped ==
  /\ chain \in [Nodes -> 0..MaxHeight]
  /\ ping \in [Nodes -> {NoPing} \cup Ping]
  /\ serving \in [Nodes -> Seq(Blocks)]
  /\ queue \in [Nodes -> Seq(Blocks)]
  /\ waiting \in [Nodes -> SUBSET Blocks]
  /\ msgs \subseteq [to : Nodes, block : Blocks]

\* What the type invariant says beyond the ranges.
Counted == \A n \in Nodes : ping[n] = NoPing \/ ping[n].fromForger \/ ping[n].count \in 1..MaxHop

Served == \A n \in Nodes : Len(serving[n]) <= MaxWork

\* A broadcast waits only at a node that has the block.
WaitingHeld == \A n \in Nodes : \A b \in waiting[n] : chain[n] >= b

GossipInv == GossipTyped /\ Counted /\ Served /\ WaitingHeld /\ RelayedByHolders

-----------------------------------------------------------------------------
(* Pings *)

LEMMA PingTypes ==
  ASSUME GossipAssumption
  PROVE  /\ \A b \in Blocks, f \in BOOLEAN :
              PingOf(b, f) \in Ping /\ (PingOf(b, f).fromForger \/ PingOf(b, f).count \in 1..MaxHop)
         /\ \A p \in Ping : Pinged(p) \in Ping /\ Pinged(p).count \in 1..MaxHop
<1>1. ASSUME NEW i \in 0..MaxHop PROVE Min({MaxHop, i + 1}) \in 1..MaxHop
  <2>1. \E x \in {MaxHop, i + 1} : \A y \in {MaxHop, i + 1} : x <= y
    BY <1>1 DEF GossipAssumption
  <2>2. Min({MaxHop, i + 1}) \in {MaxHop, i + 1} /\ Min({MaxHop, i + 1}) <= MaxHop
    BY <2>1 DEF Min
  <2> QED
    BY <1>1, <2>2 DEF GossipAssumption
<1>2. \A p \in Ping : Pinged(p) \in Ping /\ Pinged(p).count \in 1..MaxHop
  BY <1>1 DEF Pinged, Ping
<1>3. \A b \in Blocks, f \in BOOLEAN :
        PingOf(b, f) \in Ping /\ (PingOf(b, f).fromForger \/ PingOf(b, f).count \in 1..MaxHop)
  BY DEF PingOf, Ping, GossipAssumption
<1> QED
  BY <1>2, <1>3

-----------------------------------------------------------------------------
(* Chains grow, and who broadcasts has the block *)

ChainsGrow == \A n \in Nodes : chain'[n] >= chain[n]

\* What is said of blocks that some node has stays true when chains grow.
LEMMA HeldStays ==
  ASSUME GossipAssumption, GossipInv, GossipTyped', ChainsGrow,
         msgs' \subseteq msgs, waiting' = waiting
  PROVE  WaitingHeld' /\ RelayedByHolders'
<1>1. \A n \in Nodes, b \in Blocks : chain[n] >= b => chain'[n] >= b
  BY DEF ChainsGrow, GossipInv, GossipTyped, Blocks, GossipAssumption
<1> QED
  BY <1>1 DEF GossipInv, GossipTyped, WaitingHeld, RelayedByHolders

\* A broadcast of a block that the node has by then.
LEMMA BroadcastHeld ==
  ASSUME GossipAssumption, GossipInv, NEW n \in Nodes, NEW b \in Blocks,
         NEW to \in SUBSET Peers[n], Send(n, b, to),
         ChainsGrow, chain' \in [Nodes -> 0..MaxHeight], chain'[n] >= b
  PROVE  msgs' \subseteq [to : Nodes, block : Blocks] /\ RelayedByHolders'
<1>1. \A m \in Nodes, c \in Blocks : chain[m] >= c => chain'[m] >= c
  BY DEF ChainsGrow, GossipInv, GossipTyped, Blocks, GossipAssumption
<1>2. to \subseteq Nodes
  BY DEF GossipAssumption
<1>3. msgs' = msgs \cup {[to |-> m, block |-> b] : m \in to}
  BY DEF Send
<1>4. msgs' \subseteq [to : Nodes, block : Blocks]
  BY <1>2, <1>3 DEF GossipInv, GossipTyped
<1>5. ASSUME NEW m \in msgs' PROVE \E k \in Nodes : m.to \in Peers[k] /\ chain'[k] >= m.block
  <2>1. CASE m \in msgs
    <3>1. PICK k \in Nodes : m.to \in Peers[k] /\ chain[k] >= m.block
      BY <2>1 DEF GossipInv, RelayedByHolders
    <3>2. m.block \in Blocks
      BY <2>1 DEF GossipInv, GossipTyped
    <3> QED
      BY <1>1, <3>1, <3>2
  <2>2. CASE m \in {[to |-> k, block |-> b] : k \in to}
    BY <2>2
  <2> QED
    BY <1>3, <2>1, <2>2
<1> QED
  BY <1>4, <1>5 DEF RelayedByHolders

LEMMA SubsetSubset ==
  ASSUME NEW k, NEW S
  PROVE  kSubset(k, S) \subseteq SUBSET S
BY DEF kSubset

-----------------------------------------------------------------------------
(* The steps *)

LEMMA ReceiveInv ==
  ASSUME GossipAssumption, GossipInv, NEW n \in Nodes, NEW b \in Blocks, Receive(n, b)
  PROVE  GossipInv'
<1>1. CASE IsPing(n, b) /\ ping' = [ping EXCEPT ![n] = Pinged(ping[n])] /\ UNCHANGED serving
  <2>1. Pinged(ping[n]) \in Ping /\ Pinged(ping[n]).count \in 1..MaxHop
    BY <1>1, PingTypes DEF IsPing, GossipInv, GossipTyped
  <2>2. GossipTyped' /\ Counted' /\ Served'
    BY <1>1, <2>1 DEF Receive, GossipInv, GossipTyped, Counted, Served
  <2>3. ChainsGrow
    BY DEF Receive, ChainsGrow, GossipInv, GossipTyped
  <2> QED
    BY <2>2, <2>3, HeldStays DEF Receive, GossipInv
<1>2. CASE /\ Len(serving[n]) < MaxWork /\ UNCHANGED ping
           /\ serving' = [serving EXCEPT ![n] = Append(serving[n], b)]
  <2>1. serving[n] \in Seq(Blocks)
    BY DEF GossipInv, GossipTyped
  <2>2. Append(serving[n], b) \in Seq(Blocks)
        /\ Len(Append(serving[n], b)) = Len(serving[n]) + 1 /\ Len(serving[n]) \in Nat
    BY <2>1, AppendProperties, LenProperties
  <2>3. Len(Append(serving[n], b)) <= MaxWork
    BY <1>2, <2>2 DEF GossipAssumption
  <2>4. GossipTyped' /\ Counted' /\ Served'
    BY <1>2, <2>2, <2>3 DEF Receive, GossipInv, GossipTyped, Counted, Served
  <2>5. ChainsGrow
    BY DEF Receive, ChainsGrow, GossipInv, GossipTyped
  <2> QED
    BY <2>4, <2>5, HeldStays DEF Receive, GossipInv
<1> QED
  BY <1>1, <1>2 DEF Receive

LEMMA PushPingInv ==
  ASSUME GossipAssumption, GossipInv, NEW n \in Nodes, PushPing(n)
  PROVE  GossipInv'
<1>1. PICK b : /\ b = Head(serving[n])
               /\ ping' = [ping EXCEPT ![n] = PingOf(b, FALSE)]
               /\ queue' = [queue EXCEPT ![n] = Append(queue[n], b)]
               /\ serving' = [serving EXCEPT ![n] = Tail(serving[n])]
  BY DEF PushPing
<1>2. /\ serving[n] \in Seq(Blocks) /\ serving[n] # <<>> /\ queue[n] \in Seq(Blocks)
      /\ Len(serving[n]) <= MaxWork
  BY DEF PushPing, GossipInv, GossipTyped, Served
<1>3. /\ b \in Blocks /\ Tail(serving[n]) \in Seq(Blocks)
      /\ Len(Tail(serving[n])) = Len(serving[n]) - 1 /\ Len(serving[n]) \in Nat
  BY <1>1, <1>2, HeadTailProperties, LenProperties
<1>4. Append(queue[n], b) \in Seq(Blocks)
  BY <1>2, <1>3, AppendProperties
<1>5. /\ PingOf(b, FALSE) \in Ping
      /\ PingOf(b, FALSE).fromForger \/ PingOf(b, FALSE).count \in 1..MaxHop
  BY <1>3, PingTypes
<1>6. Len(Tail(serving[n])) <= MaxWork
  BY <1>2, <1>3 DEF GossipAssumption
<1>7. GossipTyped' /\ Counted' /\ Served'
  <2>1. GossipTyped'
    BY <1>1, <1>3, <1>4, <1>5 DEF PushPing, GossipInv, GossipTyped
  <2>2. Counted'
    BY <1>1, <1>5 DEF PushPing, GossipInv, GossipTyped, Counted
  <2>3. Served'
    BY <1>1, <1>3, <1>6 DEF PushPing, GossipInv, GossipTyped, Served
  <2> QED BY <2>1, <2>2, <2>3
<1>8. ChainsGrow
  BY DEF PushPing, ChainsGrow, GossipInv, GossipTyped
<1> QED
  BY <1>7, <1>8, HeldStays DEF PushPing, GossipInv

LEMMA ForgeInv ==
  ASSUME GossipAssumption, GossipInv, NEW n \in Nodes, Forge(n)
  PROVE  GossipInv'
<1> DEFINE b == chain[n] + 1
<1>1. b \in Blocks
  BY DEF Forge, GossipInv, GossipTyped, Blocks, GossipAssumption
<1>2. /\ ping' = [ping EXCEPT ![n] = PingOf(b, TRUE)]
      /\ queue' = [queue EXCEPT ![n] = Append(queue[n], b)]
      /\ UNCHANGED <<chain, serving, waiting, msgs>>
  BY DEF Forge
<1> HIDE DEF b
<1>3. /\ PingOf(b, TRUE) \in Ping
      /\ PingOf(b, TRUE).fromForger \/ PingOf(b, TRUE).count \in 1..MaxHop
  BY <1>1, PingTypes
<1>4. Append(queue[n], b) \in Seq(Blocks)
  BY <1>1, AppendProperties DEF GossipInv, GossipTyped
<1>5. GossipTyped' /\ Counted' /\ Served'
  BY <1>2, <1>3, <1>4 DEF GossipInv, GossipTyped, Counted, Served
<1>6. ChainsGrow
  BY <1>2 DEF ChainsGrow, GossipInv, GossipTyped
<1> QED
  BY <1>2, <1>5, <1>6, HeldStays DEF GossipInv

LEMMA AfterWaitInv ==
  ASSUME GossipAssumption, GossipInv, NEW n \in Nodes, NEW b \in Blocks, AfterWait(n, b)
  PROVE  GossipInv'
<1>1. /\ UNCHANGED <<chain, ping, serving, queue>> /\ b \in waiting[n]
      /\ waiting' = [waiting EXCEPT ![n] = waiting[n] \ {b}]
  BY DEF AfterWait
<1>2. chain[n] >= b
  BY <1>1 DEF GossipInv, WaitingHeld
<1>3. waiting' \in [Nodes -> SUBSET Blocks] /\ WaitingHeld'
  BY <1>1 DEF GossipInv, GossipTyped, WaitingHeld
<1>4. ChainsGrow /\ chain' \in [Nodes -> 0..MaxHeight] /\ chain'[n] >= b
  BY <1>1, <1>2 DEF ChainsGrow, GossipInv, GossipTyped
<1>5. msgs' \subseteq [to : Nodes, block : Blocks] /\ RelayedByHolders'
  <2>1. CASE UNCHANGED msgs
    BY <1>1, <2>1 DEF GossipInv, GossipTyped, RelayedByHolders
  <2>2. ASSUME NEW to \in kSubset(Portion(n), Peers[n]), Send(n, b, to)
        PROVE  msgs' \subseteq [to : Nodes, block : Blocks] /\ RelayedByHolders'
    BY <1>4, <2>2, SubsetSubset, BroadcastHeld
  <2> QED
    BY <2>1, <2>2 DEF AfterWait
<1> QED
  BY <1>1, <1>3, <1>5 DEF GossipInv, GossipTyped, Counted, Served

LEMMA ProcessBlockInv ==
  ASSUME GossipAssumption, GossipInv, NEW n \in Nodes, ProcessBlock(n)
  PROVE  GossipInv'
<1> DEFINE b == Head(queue[n])
<1>1. queue[n] \in Seq(Blocks) /\ queue[n] # <<>>
  BY DEF ProcessBlock, GossipInv, GossipTyped
<1>2. b \in Blocks /\ Tail(queue[n]) \in Seq(Blocks) /\ <<>> \in Seq(Blocks)
  BY <1>1, HeadTailProperties
<1>3. /\ queue' = [queue EXCEPT ![n] = IF b = chain[n] + 1 THEN Tail(queue[n]) ELSE <<>>]
      /\ chain' = [chain EXCEPT ![n] = IF b = chain[n] + 1 THEN b ELSE chain[n]]
      /\ \/ CanBeBroadcast(n, b) /\ BroadcastBlock(n, b)
         \/ UNCHANGED <<waiting, msgs, relays>>
      /\ UNCHANGED <<ping, serving>>
  BY DEF ProcessBlock
<1> HIDE DEF b
<1>4. chain[n] \in Nat /\ b \in Nat
  BY <1>2 DEF GossipInv, GossipTyped, Blocks, GossipAssumption
<1>5. chain' \in [Nodes -> 0..MaxHeight] /\ ChainsGrow
  BY <1>2, <1>3, <1>4 DEF GossipInv, GossipTyped, Blocks, ChainsGrow, GossipAssumption
<1>6. CanBeBroadcast(n, b) => chain'[n] >= b
  BY <1>3, <1>4 DEF CanBeBroadcast, GossipInv, GossipTyped
<1>7. queue' \in [Nodes -> Seq(Blocks)]
  BY <1>2, <1>3 DEF GossipInv, GossipTyped
<1>8. /\ waiting' \in [Nodes -> SUBSET Blocks] /\ WaitingHeld'
      /\ msgs' \subseteq [to : Nodes, block : Blocks] /\ RelayedByHolders'
  <2>1. \A m \in Nodes, c \in Blocks : chain[m] >= c => chain'[m] >= c
    BY <1>5 DEF ChainsGrow, GossipInv, GossipTyped, Blocks, GossipAssumption
  <2>2. UNCHANGED waiting => waiting' \in [Nodes -> SUBSET Blocks] /\ WaitingHeld'
    BY <2>1 DEF GossipInv, GossipTyped, WaitingHeld
  <2>3. UNCHANGED msgs => msgs' \subseteq [to : Nodes, block : Blocks] /\ RelayedByHolders'
    BY <2>1 DEF GossipInv, GossipTyped, RelayedByHolders
  <2>4. CASE UNCHANGED <<waiting, msgs>>
    BY <2>2, <2>3, <2>4
  <2>5. ASSUME CanBeBroadcast(n, b), NEW to \in SUBSET Peers[n], Send(n, b, to), UNCHANGED waiting
        PROVE  msgs' \subseteq [to : Nodes, block : Blocks] /\ RelayedByHolders'
    BY <1>2, <1>5, <1>6, <2>5, BroadcastHeld
  <2>6. ASSUME CanBeBroadcast(n, b), waiting' = [waiting EXCEPT ![n] = waiting[n] \cup {b}],
               UNCHANGED msgs
        PROVE  waiting' \in [Nodes -> SUBSET Blocks] /\ WaitingHeld'
    BY <1>2, <1>6, <2>1, <2>6 DEF GossipInv, GossipTyped, WaitingHeld
  <2> QED
    BY <1>3, <2>2, <2>3, <2>4, <2>5, <2>6, SubsetSubset DEF BroadcastBlock
<1> QED
  BY <1>3, <1>5, <1>7, <1>8 DEF GossipInv, GossipTyped, Counted, Served

LEMMA DownloadInv ==
  ASSUME GossipAssumption, GossipInv, NEW n \in Nodes, Download(n)
  PROVE  GossipInv'
<1>1. PICK m \in Peers[n] : chain[m] > chain[n] /\ chain' = [chain EXCEPT ![n] = chain[m]]
  BY DEF Download
<1>2. m \in Nodes
  BY <1>1 DEF GossipAssumption
<1>3. chain' \in [Nodes -> 0..MaxHeight] /\ ChainsGrow
  BY <1>1, <1>2 DEF GossipInv, GossipTyped, ChainsGrow, GossipAssumption
<1>4. GossipTyped' /\ Counted' /\ Served'
  BY <1>3 DEF Download, GossipInv, GossipTyped, Counted, Served
<1> QED
  BY <1>3, <1>4, HeldStays DEF Download, GossipInv

LEMMA GossipInit ==
  ASSUME GossipAssumption, Init
  PROVE  GossipInv
<1>1. <<>> \in Seq(Blocks) /\ Len(<<>>) = 0
  OBVIOUS
<1>2. GossipTyped
  BY <1>1 DEF Init, GossipTyped, GossipAssumption
<1> QED
  BY <1>1, <1>2 DEF Init, GossipInv, Counted, Served, WaitingHeld, RelayedByHolders,
     GossipAssumption

LEMMA GossipNext ==
  ASSUME GossipAssumption, GossipInv, [Next]_vars
  PROVE  GossipInv'
<1>1. CASE UNCHANGED vars
  BY <1>1 DEF vars, GossipInv, GossipTyped, Counted, Served, WaitingHeld, RelayedByHolders
<1>2. CASE Next
  BY <1>2, ReceiveInv, PushPingInv, ForgeInv, AfterWaitInv, ProcessBlockInv, DownloadInv
     DEF Next, Handle
<1> QED
  BY <1>1, <1>2

(***************************************************************************)
(* Chains, requests, messages and waiting broadcasts keep their types, and *)
(* a block that came from a peer has a count of pings between one and the  *)
(* limit, so that the portion of peers it is sent to is never negative.    *)
(***************************************************************************)
THEOREM GossipTypes ==
  ASSUME GossipAssumption
  PROVE  Spec => []TypeOK
<1>1. Init => GossipInv
  BY GossipInit
<1>2. GossipInv /\ [Next]_vars => GossipInv'
  BY GossipNext
<1>3. GossipInv => TypeOK
  BY DEF GossipInv, GossipTyped, Counted, Served, TypeOK
<1> QED
  BY <1>1, <1>2, <1>3, PTL DEF Spec

(***************************************************************************)
(* Nobody is sent a block before some peer of it has accepted it: a block  *)
(* is broadcast by the job that accepts it, by one that finds it accepted, *)
(* or after a wait that began with such a job, and chains never shrink.    *)
(***************************************************************************)
THEOREM RelayedOnlyByHolders ==
  ASSUME GossipAssumption
  PROVE  Spec => []RelayedByHolders
<1>1. Init => GossipInv
  BY GossipInit
<1>2. GossipInv /\ [Next]_vars => GossipInv'
  BY GossipNext
<1>3. GossipInv => RelayedByHolders
  BY DEF GossipInv
<1> QED
  BY <1>1, <1>2, <1>3, PTL DEF Spec

-----------------------------------------------------------------------------
(* The table of peers *)

\* The instances of the operators on finite sets are those of the library.
LEMMA KnownFiniteSets ==
  /\ \A S : Known!IsFiniteSet(S) <=> IsFiniteSet(S)
  /\ \A S : Known!Cardinality(S) = Cardinality(S)
<1>1. \A S : Known!IsFiniteSet(S) <=> IsFiniteSet(S)
  BY DEF Known!IsFiniteSet, IsFiniteSet
<1>2. \A S : Known!Cardinality(S) = Cardinality(S)
  BY DEF Known!Cardinality, Cardinality
<1> QED BY <1>1, <1>2

KnownTyped ==
  /\ peersPc \in {"boot", "bootSeeds", "bootAnswers", "answers", "accepting", "cleanse", "minimum",
             "seeds", "asleep"}
  /\ repo \subseteq Ips
  /\ pending \subseteq Ips
  /\ verifying \in [Ips -> 0..1]
  /\ awaited \subseteq pending
  /\ own \in 0..Cardinality(Ips)
  /\ pings \in [Known!Checks -> SUBSET Ips]
  /\ peersAge \in 0..(PingDelay + 1)
  /\ up \subseteq Ips

KnownInv == KnownTyped /\ Known!PendingIsVerified

\* What a step says of the table, the pending peers and their verifications.
Table == repo' \subseteq Ips /\ pending' \subseteq Ips /\ verifying' \in [Ips -> 0..1]
         /\ awaited' \subseteq pending' /\ Known!PendingIsVerified'

\* Peers that are accepted are not pending: each is verified once.
LEMMA AcceptTable ==
  ASSUME KnownInv, NEW ps \in SUBSET Ips, \A p \in ps : p \notin pending, NEW waits,
         repo' \subseteq repo, Known!Accept(ps, waits)
  PROVE  Table
<1> DEFINE new == ps \ repo'
<1>1. /\ pending' = pending \cup new /\ awaited' = waits \cap pending'
      /\ verifying' = [p \in Ips |-> IF p \in new THEN verifying[p] + 1 ELSE verifying[p]]
  BY DEF Known!Accept
<1>2. \A p \in Ips : p \in new => verifying[p] = 0 /\ p \notin repo'
  BY DEF KnownInv, KnownTyped, Known!PendingIsVerified
<1>3. new \subseteq Ips /\ \A p \in Ips : p \in new \/ p \notin new
  OBVIOUS
<1> HIDE DEF new
<1>4. verifying' \in [Ips -> 0..1]
  BY <1>1, <1>2 DEF KnownInv, KnownTyped
<1>5. \A p \in Ips : verifying'[p] = IF p \in new THEN 1 ELSE verifying[p]
  BY <1>1, <1>2 DEF KnownInv, KnownTyped
<1>6. Known!PendingIsVerified'
  BY <1>1, <1>2, <1>5 DEF KnownInv, KnownTyped, Known!PendingIsVerified
<1> QED
  BY <1>1, <1>3, <1>4, <1>6 DEF Table, KnownInv, KnownTyped

\* Only peers leave the table.
LEMMA ShrinkTable ==
  ASSUME KnownInv, repo' \subseteq repo, UNCHANGED <<pending, verifying, awaited>>
  PROVE  Table
BY DEF Table, KnownInv, KnownTyped, Known!PendingIsVerified

LEMMA PopulateTable ==
  ASSUME Known!PeersAssumption, KnownInv, Known!PopulateSeedPeers
  PROVE  Table
<1> DEFINE new == {p \in Seeds : Known!ValidPeer(p, TRUE)}
<1>1. repo' \subseteq repo /\ Known!Accept(new, new)
  BY DEF Known!PopulateSeedPeers
<1>2. new \subseteq Ips /\ \A p \in new : p \notin pending
  BY DEF Known!ValidPeer, Known!PeersAssumption
<1> HIDE DEF new
<1> QED
  BY <1>1, <1>2, AcceptTable

LEMMA AnswersTable ==
  ASSUME KnownInv, NEW told \in SUBSET Ips, NEW waits, UNCHANGED repo,
         Known!Accept({p \in told : Known!ValidPeer(p, FALSE)}, waits)
  PROVE  Table
<1> DEFINE new == {p \in told : Known!ValidPeer(p, FALSE)}
<1>1. new \subseteq Ips /\ \A p \in new : p \notin pending
  BY DEF Known!ValidPeer
<1>2. Known!Accept(new, waits)
  OBVIOUS
<1> HIDE DEF new
<1> QED
  BY <1>1, <1>2, AcceptTable

LEMMA AcceptedTable ==
  ASSUME KnownInv, NEW p \in Ips, Known!Accepted(p)
  PROVE  Table
<1>1. /\ verifying[p] > 0 /\ verifying' = [verifying EXCEPT ![p] = verifying[p] - 1]
      /\ pending' = pending \ {p} /\ awaited' = awaited \ {p}
      /\ repo' \in {repo, repo \cup {p}}
  BY DEF Known!Accepted, Known!ForgetPending
<1>2. verifying[p] = 1 /\ verifying' \in [Ips -> 0..1]
  BY <1>1 DEF KnownInv, KnownTyped
<1>3. \A q \in Ips : verifying'[q] = IF q = p THEN 0 ELSE verifying[q]
  BY <1>1, <1>2 DEF KnownInv, KnownTyped
<1>4. Known!PendingIsVerified'
  BY <1>1, <1>2, <1>3 DEF KnownInv, KnownTyped, Known!PendingIsVerified
<1> QED
  BY <1>1, <1>2, <1>4 DEF Table, KnownInv, KnownTyped

LEMMA KnownInit ==
  ASSUME Known!PeersAssumption, Known!Init
  PROVE  KnownInv
<1>1. 0 \in 0..Cardinality(Ips)
  BY FS_CardinalityType, KnownFiniteSets DEF Known!PeersAssumption
<1>2. 0 \in 0..(PingDelay + 1)
  BY DEF Known!PeersAssumption
<1> QED
  BY <1>1, <1>2 DEF Known!Init, KnownInv, KnownTyped, Known!PendingIsVerified

LEMMA KnownNext ==
  ASSUME Known!PeersAssumption, KnownInv, [Known!Next]_(Known!vars)
  PROVE  KnownInv'
<1> DEFINE Rest == /\ peersPc' \in {"boot", "bootSeeds", "bootAnswers", "answers", "accepting",
                               "cleanse", "minimum", "seeds", "asleep"}
                   /\ own' \in 0..Cardinality(Ips) /\ pings' \in [Known!Checks -> SUBSET Ips]
                   /\ peersAge' \in 0..(PingDelay + 1) /\ up' \subseteq Ips
<1>1. Cardinality(repo) \in 0..Cardinality(Ips)
  <2>1. repo \subseteq Ips
    BY DEF KnownInv, KnownTyped
  <2> QED
    BY <2>1, FS_Subset, FS_CardinalityType, KnownFiniteSets DEF Known!PeersAssumption
<1>2. 0 \in 0..(PingDelay + 1)
  BY DEF Known!PeersAssumption
<1>3. ASSUME Table, Rest PROVE KnownInv'
  BY <1>3 DEF Table, KnownInv, KnownTyped
<1>4. CASE Known!Boot
  <2>1. Table
    BY <1>4, PopulateTable DEF Known!Boot
  <2> QED
    BY <1>3, <1>4, <2>1 DEF Known!Boot, KnownInv, KnownTyped
<1>5. CASE Known!AskPeers
  <2>1. Table
    BY <1>5, ShrinkTable DEF Known!AskPeers
  <2> QED
    BY <1>1, <1>3, <1>5, <2>1, KnownFiniteSets DEF Known!AskPeers, KnownInv, KnownTyped
<1>6. CASE Known!Answers
  <2>1. PICK told \in SUBSET Ips :
          \/ UNCHANGED repo
             /\ \E waits : Known!Accept({p \in told : Known!ValidPeer(p, FALSE)}, waits)
          \/ UNCHANGED <<repo, pending, verifying, awaited>>
    BY <1>6 DEF Known!Answers
  <2>2. Table
    BY <2>1, AnswersTable, ShrinkTable
  <2>3. peersPc' \in {"accepting", "minimum"} /\ UNCHANGED <<own, pings, peersAge, up>>
    BY <1>6 DEF Known!Answers
  <2> QED
    BY <1>3, <2>2, <2>3 DEF KnownInv, KnownTyped
<1>7. CASE Known!CleansePeers \/ Known!Cleansed \/ Known!Schedule \/ Known!Tick \/ Known!UpOrDown
  <2>1. Table
    BY <1>7, ShrinkTable DEF Known!CleansePeers, Known!Cleansed, Known!Schedule, Known!Tick,
       Known!UpOrDown
  <2>2. Rest
    BY <1>2, <1>7 DEF Known!CleansePeers, Known!Cleansed, Known!Schedule, Known!Tick,
       Known!UpOrDown, KnownInv, KnownTyped,
       Known!PeersAssumption
  <2> QED
    BY <1>3, <2>1, <2>2
<1>8. CASE Known!Minimum
  <2>1. Table
    BY <1>8, PopulateTable, ShrinkTable DEF Known!Minimum
  <2> QED
    BY <1>3, <1>8, <2>1 DEF Known!Minimum, KnownInv, KnownTyped
<1>9. CASE Known!OtherDiscovery
  <2>1. PICK told \in SUBSET Ips : Known!Accept({p \in told : Known!ValidPeer(p, FALSE)}, awaited)
    BY <1>9 DEF Known!OtherDiscovery
  <2>2. Table
    BY <1>9, <2>1, AnswersTable DEF Known!OtherDiscovery
  <2> QED
    BY <1>3, <1>9, <2>2 DEF Known!OtherDiscovery, KnownInv, KnownTyped
<1>10. CASE Known!OtherCheck
  <2>1. Table
    BY <1>10, ShrinkTable DEF Known!OtherCheck
  <2> QED
    BY <1>3, <1>10, <2>1 DEF Known!OtherCheck, KnownInv, KnownTyped
<1>11. ASSUME NEW p \in Ips, Known!Accepted(p) PROVE KnownInv'
  <2>1. Table
    BY <1>11, AcceptedTable
  <2> QED
    BY <1>3, <1>11, <2>1 DEF Known!Accepted, KnownInv, KnownTyped
<1>12. ASSUME NEW p \in Ips, Known!Disconnect(p) PROVE KnownInv'
  <2>1. Table
    BY <1>12, ShrinkTable DEF Known!Disconnect
  <2> QED
    BY <1>3, <1>12, <2>1 DEF Known!Disconnect, KnownInv, KnownTyped
<1>13. ASSUME NEW p \in Ips, NEW c \in Known!Checks, Known!Pinged(c, p) PROVE KnownInv'
  <2>1. Table
    BY <1>13, ShrinkTable DEF Known!Pinged
  <2> QED
    BY <1>3, <1>13, <2>1 DEF Known!Pinged, KnownInv, KnownTyped
<1>14. CASE UNCHANGED Known!vars
  BY <1>14 DEF Known!vars, KnownInv, KnownTyped, Known!PendingIsVerified
<1> QED
  BY <1>4, <1>5, <1>6, <1>7, <1>8, <1>9, <1>10, <1>11, <1>12, <1>13, <1>14 DEF Known!Next,
     Known!Update

(***************************************************************************)
(* No ip is verified twice at a time, whoever found it, and an update only *)
(* waits for verifications that run.                                       *)
(***************************************************************************)
THEOREM KnownTypes ==
  ASSUME Known!PeersAssumption
  PROVE  Known!Spec => []Known!TypeOK
<1>1. Known!Init => KnownInv
  BY KnownInit
<1>2. KnownInv /\ [Known!Next]_(Known!vars) => KnownInv'
  BY KnownNext
<1>3. KnownInv => Known!TypeOK
  BY KnownFiniteSets DEF KnownInv, KnownTyped, Known!TypeOK
<1> QED
  BY <1>1, <1>2, <1>3, PTL DEF Known!Spec

(***************************************************************************)
(* A peer is pending exactly while its verification runs, so that no ip is *)
(* refused for ever as pending, and none is pending and in the table.      *)
(***************************************************************************)
THEOREM PendingAreVerified ==
  ASSUME Known!PeersAssumption
  PROVE  Known!Spec => []PendingIsVerified
<1>1. Known!Init => KnownInv
  BY KnownInit
<1>2. KnownInv /\ [Known!Next]_(Known!vars) => KnownInv'
  BY KnownNext
<1>3. KnownInv => PendingIsVerified
  BY DEF KnownInv, PendingIsVerified
<1> QED
  BY <1>1, <1>2, <1>3, PTL DEF Known!Spec

-----------------------------------------------------------------------------
(* Requests to one peer *)

LEMMA RequestsFiniteSets ==
  /\ \A S : Requests!IsFiniteSet(S) <=> IsFiniteSet(S)
  /\ \A S : Requests!Cardinality(S) = Cardinality(S)
<1>1. \A S : Requests!IsFiniteSet(S) <=> IsFiniteSet(S)
  BY DEF Requests!IsFiniteSet, IsFiniteSet
<1>2. \A S : Requests!Cardinality(S) = Cardinality(S)
  BY DEF Requests!Cardinality, Cardinality
<1> QED
  BY <1>1, <1>2

\* The requests that are past the limiter's look and take their point.
Consuming == {r \in Sends : requestsPc[r] = "consume"}

RequestsTyped ==
  /\ requestsPc \in [Sends -> {"throttle", "delay", "consume", "connect", "request", "ended"}]
  /\ left \in [Sends -> 0..Pause]
  /\ used \in 0..RateLimit
  /\ connected \in BOOLEAN
  /\ requestsAge \in 0..Pause
  /\ timers \subseteq 0..Pause
  /\ errors \in 0..MaxErrors
  /\ sent \in Nat
  /\ failures \in 0..MaxErrors

\* The limiter counts what was sent, and does not count beyond its limit.
PointsCounted == used = IF sent < RateLimit THEN sent ELSE RateLimit

\* Errors in a row failed in a row.
ErrorsFailed == errors <= failures

RequestsInv == RequestsTyped /\ PointsCounted /\ ErrorsFailed /\ Requests!Overshoot

LEMMA CappedIs ==
  ASSUME NEW n \in Int, NEW m \in Int
  PROVE  Requests!Capped(n, m) = IF n < m THEN n ELSE m
<1>1. \E x \in {n, m} : \A y \in {n, m} : x <= y
  OBVIOUS
<1>2. Requests!Min({n, m}) \in {n, m} /\ \A y \in {n, m} : Requests!Min({n, m}) <= y
  BY <1>1 DEF Requests!Min
<1> QED
  BY <1>2 DEF Requests!Capped

LEMMA MaxIs ==
  ASSUME NEW n \in Int, NEW m \in Int
  PROVE  Requests!Max({n, m}) = IF n < m THEN m ELSE n
<1>1. \E x \in {n, m} : \A y \in {n, m} : x >= y
  OBVIOUS
<1>2. Requests!Max({n, m}) \in {n, m} /\ \A y \in {n, m} : Requests!Max({n, m}) >= y
  BY <1>1 DEF Requests!Max
<1> QED
  BY <1>2

\* Overshoot, when no further request takes a point.
LEMMA ConsumingShrinks ==
  ASSUME Requests!RequestsAssumption, RequestsInv, RequestsTyped',
         Consuming' \subseteq Consuming, sent' <= sent
  PROVE  Requests!Overshoot'
<1>1. IsFiniteSet(Sends)
  BY RequestsFiniteSets DEF Requests!RequestsAssumption
<1>2. IsFiniteSet(Consuming)
  BY <1>1, FS_Subset DEF Consuming
<1>3. Cardinality(Consuming') <= Cardinality(Consuming)
      /\ Cardinality(Consuming') \in Nat /\ Cardinality(Consuming) \in Nat
      /\ Cardinality(Sends) \in Nat
  BY <1>1, <1>2, FS_Subset, FS_CardinalityType
<1> QED
  BY <1>3, RequestsFiniteSets DEF RequestsInv, RequestsTyped, Requests!Overshoot, Consuming,
     Requests!RequestsAssumption

LEMMA ThrottleInv ==
  ASSUME Requests!RequestsAssumption, RequestsInv, NEW r \in Sends, Requests!Throttle(r)
  PROVE  RequestsInv'
<1>1. RequestsTyped' /\ UNCHANGED <<used, sent, errors, failures>>
  BY DEF Requests!Throttle, RequestsInv, RequestsTyped, Requests!RequestsAssumption
<1>2. CASE requestsPc' = [requestsPc EXCEPT ![r] = "delay"]
  <2>1. Consuming' \subseteq Consuming
    BY <1>2 DEF Consuming, Requests!Throttle, RequestsInv, RequestsTyped
  <2>2. sent' <= sent
    BY <1>1 DEF RequestsTyped
  <2> QED
    BY <1>1, <2>1, <2>2, ConsumingShrinks DEF RequestsInv, PointsCounted, ErrorsFailed
<1>3. CASE ~Requests!Exceeded
  <2>1. sent < RateLimit
    BY <1>3 DEF Requests!Exceeded, RequestsInv, PointsCounted, RequestsTyped,
       Requests!RequestsAssumption
  <2>2. IsFiniteSet(Sends) /\ Consuming' \subseteq Sends
    BY RequestsFiniteSets DEF Requests!RequestsAssumption, Consuming
  <2>3. Cardinality(Consuming') <= Cardinality(Sends)
        /\ Cardinality(Consuming') \in Nat /\ Cardinality(Sends) \in Nat
    BY <2>2, FS_Subset, FS_CardinalityType
  <2>4. Requests!Overshoot'
    BY <1>1, <2>1, <2>3, RequestsFiniteSets DEF Requests!Overshoot, Consuming, RequestsTyped,
       Requests!RequestsAssumption
  <2> QED
    BY <1>1, <2>4 DEF RequestsInv, PointsCounted, ErrorsFailed
<1> QED
  BY <1>2, <1>3 DEF Requests!Throttle

LEMMA ConsumeInv ==
  ASSUME Requests!RequestsAssumption, RequestsInv, NEW r \in Sends, Requests!Consume(r)
  PROVE  RequestsInv'
<1>1. /\ requestsPc[r] = "consume" /\ requestsPc' = [requestsPc EXCEPT ![r] = "connect"]
      /\ used' = Requests!Capped(used + 1, RateLimit) /\ sent' = sent + 1
      /\ left' = [left EXCEPT ![r] = Requests!WaitFirst]
      /\ UNCHANGED <<connected, requestsAge, timers, errors, failures>>
  BY DEF Requests!Consume
<1>2. used' = IF used + 1 < RateLimit THEN used + 1 ELSE RateLimit
  BY <1>1, CappedIs DEF RequestsInv, RequestsTyped, Requests!RequestsAssumption
<1>3. Requests!WaitFirst \in 0..Pause
  BY DEF Requests!WaitFirst, RequestsInv, RequestsTyped, Requests!RequestsAssumption
<1>4. RequestsTyped'
  BY <1>1, <1>2, <1>3 DEF RequestsInv, RequestsTyped, Requests!RequestsAssumption
<1>5. PointsCounted' /\ ErrorsFailed'
  BY <1>1, <1>2 DEF RequestsInv, RequestsTyped, PointsCounted, ErrorsFailed,
     Requests!RequestsAssumption
<1>6. Consuming' = Consuming \ {r} /\ r \in Consuming
  BY <1>1 DEF Consuming, RequestsInv, RequestsTyped
<1>7. IsFiniteSet(Sends) /\ IsFiniteSet(Consuming)
  BY RequestsFiniteSets, FS_Subset DEF Requests!RequestsAssumption, Consuming
<1>8. Cardinality(Consuming') = Cardinality(Consuming) - 1
      /\ Cardinality(Consuming) \in Nat /\ Cardinality(Sends) \in Nat
  BY <1>6, <1>7, FS_RemoveElement, FS_CardinalityType
<1>9. Requests!Overshoot'
  BY <1>1, <1>8, RequestsFiniteSets DEF Requests!Overshoot, Consuming, RequestsInv,
     RequestsTyped, Requests!RequestsAssumption
<1> QED
  BY <1>4, <1>5, <1>9 DEF RequestsInv

LEMMA FailInv ==
  ASSUME Requests!RequestsAssumption, RequestsInv, NEW r \in Sends, Requests!Fail(r)
  PROVE  RequestsInv' /\ (connected /\ ~connected' => failures' >= MaxErrors)
<1>1. PICK n \in Nat :
        /\ n <= errors + 1 /\ n > 0
        /\ errors' = Requests!Capped(n, MaxErrors)
        /\ IF n >= MaxErrors THEN Requests!Disconnected ELSE UNCHANGED <<connected, timers>>
  BY DEF Requests!Fail, Requests!CountError, RequestsInv, RequestsTyped
<1>2. /\ failures' = Requests!Capped(failures + 1, MaxErrors)
      /\ UNCHANGED <<left, used, requestsAge, sent>>
  BY DEF Requests!Fail
<1>3. /\ errors' = IF n < MaxErrors THEN n ELSE MaxErrors
      /\ failures' = IF failures + 1 < MaxErrors THEN failures + 1 ELSE MaxErrors
  BY <1>1, <1>2, CappedIs DEF RequestsInv, RequestsTyped, Requests!RequestsAssumption
<1>4. PICK to \in {"throttle", "ended"} : requestsPc' = [requestsPc EXCEPT ![r] = to]
  BY DEF Requests!Fail, Requests!Ended
<1>5. connected' \in BOOLEAN /\ timers' \subseteq 0..Pause
  <2>1. connected \in BOOLEAN /\ timers \subseteq 0..Pause /\ Pause - requestsAge \in 0..Pause
    BY DEF RequestsInv, RequestsTyped, Requests!RequestsAssumption
  <2>2. CASE Requests!Disconnected
    BY <2>1, <2>2 DEF Requests!Disconnected
  <2>3. CASE UNCHANGED <<connected, timers>>
    BY <2>1, <2>3
  <2> QED
    BY <1>1, <2>2, <2>3
<1>6. RequestsTyped'
  BY <1>1, <1>2, <1>3, <1>4, <1>5 DEF RequestsInv, RequestsTyped, Requests!RequestsAssumption
<1>7. PointsCounted' /\ ErrorsFailed'
  BY <1>1, <1>2, <1>3 DEF RequestsInv, RequestsTyped, PointsCounted, ErrorsFailed,
     Requests!RequestsAssumption
<1>8. Consuming' \subseteq Consuming
  BY <1>4 DEF Consuming, RequestsInv, RequestsTyped
<1>9. sent' <= sent
  BY <1>2 DEF RequestsInv, RequestsTyped
<1>10. connected /\ ~connected' => failures' >= MaxErrors
  <2> SUFFICES ASSUME connected, ~connected' PROVE failures' >= MaxErrors
    OBVIOUS
  <2>1. n >= MaxErrors
    BY <1>1
  <2> QED
    BY <1>1, <1>3, <2>1 DEF RequestsInv, RequestsTyped, ErrorsFailed, Requests!RequestsAssumption
<1> QED
  BY <1>6, <1>7, <1>8, <1>9, <1>10, ConsumingShrinks DEF RequestsInv

\* Steps that take no point, count no error and forget none.
LEMMA OtherRequestInv ==
  ASSUME Requests!RequestsAssumption, RequestsInv,
         \/ \E r \in Sends : Requests!Recheck(r) \/ Requests!Connect(r) \/ Requests!Succeed(r)
         \/ Requests!Disconnect \/ Requests!Timer
  PROVE  RequestsInv'
<1>1. UNCHANGED <<used, sent>> /\ (UNCHANGED <<errors, failures>> \/ (errors' = 0 /\ failures' = 0))
  BY DEF Requests!Recheck, Requests!Connect, Requests!Succeed, Requests!Disconnect, Requests!Timer
<1>2. RequestsTyped'
  <2> USE DEF RequestsInv, RequestsTyped, Requests!RequestsAssumption
  <2>1. ASSUME NEW r \in Sends, Requests!Recheck(r) \/ Requests!Connect(r) \/ Requests!Succeed(r)
        PROVE  RequestsTyped'
    <3>1. CASE Requests!Recheck(r) \/ Requests!Succeed(r)
      <4>1. PICK to \in {"throttle", "ended"} : requestsPc' = [requestsPc EXCEPT ![r] = to]
        BY <3>1 DEF Requests!Recheck, Requests!Succeed, Requests!Ended
      <4>2. UNCHANGED <<left, used, connected, requestsAge, timers, sent>>
            /\ errors' \in {errors, 0} /\ failures' \in {failures, 0}
        BY <3>1 DEF Requests!Recheck, Requests!Succeed
      <4> QED
        BY <4>1, <4>2
    <3>2. CASE Requests!Connect(r)
      <4>1. connected' \in BOOLEAN
        BY <3>2 DEF Requests!Connect
      <4> QED
        BY <3>2, <4>1 DEF Requests!Connect
    <3> QED
      BY <2>1, <3>1, <3>2
  <2>2. CASE Requests!Disconnect
    <3>1. Pause - requestsAge \in 0..Pause
      OBVIOUS
    <3> QED
      BY <2>2, <3>1 DEF Requests!Disconnect, Requests!Disconnected
  <2>3. CASE Requests!Timer
    BY <2>3 DEF Requests!Timer
  <2> QED
    BY <2>1, <2>2, <2>3
<1>3. PointsCounted' /\ ErrorsFailed'
  BY <1>1 DEF RequestsInv, PointsCounted, ErrorsFailed
<1>4. Consuming' \subseteq Consuming
  BY DEF Requests!Recheck, Requests!Connect, Requests!Succeed, Requests!Ended,
     Requests!Disconnect, Requests!Timer, RequestsInv, RequestsTyped, Consuming
<1>5. sent' <= sent
  BY <1>1 DEF RequestsInv, RequestsTyped
<1> QED
  BY <1>2, <1>3, <1>4, <1>5, ConsumingShrinks DEF RequestsInv

LEMMA TickInv ==
  ASSUME Requests!RequestsAssumption, RequestsInv, Requests!Tick
  PROVE  RequestsInv'
<1>1. /\ left' = [r \in Sends |-> Requests!Max({0, left[r] - 1})]
      /\ used' = 0 /\ sent' = 0 /\ requestsAge' = Requests!Capped(requestsAge + 1, Pause)
      /\ timers' = {t - 1 : t \in timers} /\ 0 \notin timers
      /\ UNCHANGED <<requestsPc, connected, errors, failures>>
  BY DEF Requests!Tick, Requests!Quiet
<1>2. ASSUME NEW r \in Sends PROVE Requests!Max({0, left[r] - 1}) \in 0..Pause
  <2>1. left[r] \in 0..Pause
    BY DEF RequestsInv, RequestsTyped
  <2> QED
    BY <2>1, MaxIs DEF Requests!RequestsAssumption
<1>3. requestsAge' \in 0..Pause
  BY <1>1, CappedIs DEF RequestsInv, RequestsTyped, Requests!RequestsAssumption
<1>4. timers' \subseteq 0..Pause
  BY <1>1 DEF RequestsInv, RequestsTyped, Requests!RequestsAssumption
<1>5. left' \in [Sends -> 0..Pause]
  BY <1>1, <1>2
<1>6. RequestsTyped'
  BY <1>1, <1>3, <1>4, <1>5 DEF RequestsInv, RequestsTyped, Requests!RequestsAssumption
<1>7. PointsCounted' /\ ErrorsFailed'
  BY <1>1 DEF RequestsInv, PointsCounted, ErrorsFailed, Requests!RequestsAssumption
<1>8. Consuming' \subseteq Consuming /\ sent' <= sent
  BY <1>1 DEF Consuming, RequestsInv, RequestsTyped
<1> QED
  BY <1>6, <1>7, <1>8, ConsumingShrinks DEF RequestsInv

LEMMA RequestsInvInit ==
  ASSUME Requests!RequestsAssumption, Requests!Init
  PROVE  RequestsInv
<1>1. RequestsTyped
  <2>1. connected \in BOOLEAN
    BY DEF Requests!Init
  <2>2. timers \subseteq 0..Pause
    BY DEF Requests!Init
  <2>3. /\ used \in 0..RateLimit /\ requestsAge \in 0..Pause /\ errors \in 0..MaxErrors
        /\ failures \in 0..MaxErrors /\ sent \in Nat
    BY DEF Requests!Init, Requests!RequestsAssumption
  <2>4. left \in [Sends -> 0..Pause]
        /\ requestsPc \in [Sends -> {"throttle", "delay", "consume", "connect", "request", "ended"}]
    BY DEF Requests!Init, Requests!RequestsAssumption
  <2> QED
    BY <2>1, <2>2, <2>3, <2>4 DEF RequestsTyped
<1>2. PointsCounted /\ ErrorsFailed
  BY DEF Requests!Init, PointsCounted, ErrorsFailed, Requests!RequestsAssumption
<1>3. Consuming = {}
  BY DEF Requests!Init, Consuming
<1>4. Cardinality(Consuming) = 0 /\ Cardinality(Sends) \in Nat
  BY <1>3, FS_EmptySet, FS_CardinalityType, RequestsFiniteSets DEF Requests!RequestsAssumption
<1>5. Requests!Overshoot
  BY <1>4, RequestsFiniteSets DEF Requests!Init, Requests!Overshoot, Consuming,
     Requests!RequestsAssumption
<1> QED
  BY <1>1, <1>2, <1>5 DEF RequestsInv

LEMMA RequestsInvNext ==
  ASSUME Requests!RequestsAssumption, RequestsInv, [Requests!Next]_(Requests!vars)
  PROVE  RequestsInv'
<1>1. CASE UNCHANGED Requests!vars
  BY <1>1 DEF Requests!vars, RequestsInv, RequestsTyped, PointsCounted, ErrorsFailed,
     Requests!Overshoot
<1>2. CASE Requests!Next
  BY <1>2, ThrottleInv, ConsumeInv, FailInv, OtherRequestInv, TickInv
     DEF Requests!Next, Requests!Step
<1> QED
  BY <1>1, <1>2

(***************************************************************************)
(* Requests to one peer exceed its rate limit by no more than all but one  *)
(* of those that run beside each other, for all of them may look before    *)
(* any takes its point; and a peer is disconnected for its errors only     *)
(* when as many requests as are allowed to have failed in a row.           *)
(***************************************************************************)
THEOREM RequestsArePaced ==
  ASSUME Requests!RequestsAssumption
  PROVE  Requests!Spec => Paced
<1>1. Requests!Init => RequestsInv
  BY RequestsInvInit
<1>2. RequestsInv /\ [Requests!Next]_(Requests!vars) => RequestsInv'
  BY RequestsInvNext
<1>3. RequestsInv => Requests!Overshoot /\ Requests!GivenUpForErrors
  BY FailInv DEF RequestsInv, Requests!GivenUpForErrors
<1> QED
  BY <1>1, <1>2, <1>3, PTL DEF Requests!Spec, Requests!Paced, Paced

\* The clocks, counters and timers of a peer keep their ranges.
THEOREM RequestsTypes ==
  ASSUME Requests!RequestsAssumption
  PROVE  Requests!Spec => []Requests!TypeOK
<1>1. Requests!Init => RequestsInv
  BY RequestsInvInit
<1>2. RequestsInv /\ [Requests!Next]_(Requests!vars) => RequestsInv'
  BY RequestsInvNext
<1>3. RequestsInv => Requests!TypeOK
  BY DEF RequestsInv, RequestsTyped, Requests!TypeOK
<1> QED
  BY <1>1, <1>2, <1>3, PTL DEF Requests!Spec

-----------------------------------------------------------------------------
(* The invariant *)

\* A chunk, what the cache keeps, a job and a call.
Data == [low : Int, count : Nat, branch : Branches, of : Nat \X Nat]
Entries == [low : Int, high : Int, data : Data]
Jobs == [result : Data \cup {Nobody}, peer : Sources \cup {Nobody}, limit : Nat,
         left : SUBSET Sources, failed : BOOLEAN]
Calls == [from : Nat, size : Nat \ {0}, state : {"running", "ended"}, got : Seq(Data), job : Seq(Jobs)]

Typed == /\ size \in Nat \ {0} /\ cache \in Seq(Entries) /\ call \in Seq(Calls) /\ branch \in Branches
         /\ Len(cache) <= CacheMax

\* One call runs, of the size that holds; the others have ended and dropped
\* their jobs. Entry, which reads the size anew, names a chunk rightly only so.
OneRuns ==
  /\ \A c \in DOMAIN call : call[c].state = "running" => call[c].size = size
  /\ \A c \in DOMAIN call : call[c].state = "ended" => call[c].job = <<>>
  /\ \A c, d \in DOMAIN call : call[c].state = "running" /\ call[d].state = "running" => c = d

\* A chunk lies within the range it is kept under.
Fits(e) == e.data.low = e.low /\ e.low + e.data.count - 1 <= e.high

\* What a job has is of its range; what it may still ask is no longer.
JobInPlace(c, i) ==
  LET job == call[c].job[i]
  IN  /\ job.result # Nobody => job.result.low = Downloads!ChunkLow(c, i) /\ job.result.count <= call[c].size
      /\ job.limit <= call[c].size
      /\ job.peer # Nobody => job.result = Nobody

InPlace ==
  /\ \A i \in DOMAIN cache : Fits(cache[i])
  /\ \A c \in DOMAIN call : \A i \in DOMAIN call[c].job : JobInPlace(c, i)
  /\ \A c \in DOMAIN call : \A i \in DOMAIN call[c].got : call[c].got[i].low = Downloads!ChunkLow(c, i)

HasResult(c, i) == c \in DOMAIN call /\ i \in DOMAIN call[c].job /\ call[c].job[i].result # Nobody

\* The job that is named has fetched its chunk: it waits for no peer.
Spent(cs, of) ==
  /\ of[1] \in DOMAIN cs
  /\ of[2] \in DOMAIN cs[of[1]].job => cs[of[1]].job[of[2]].peer = Nobody

\* No two of the entries were fetched by one job.
OfApart(s) == \A i, j \in DOMAIN s : s[i].data.of = s[j].data.of => i = j

\* A chunk is in one place: in the cache, in a job or in what a call returned.
Apart ==
  /\ OfApart(cache)
  /\ \A c, d \in DOMAIN call : \A i \in DOMAIN call[c].job, j \in DOMAIN call[d].job :
        HasResult(c, i) /\ HasResult(d, j) /\ call[c].job[i].result.of = call[d].job[j].result.of
          => c = d /\ i = j
  /\ \A c, d \in DOMAIN call : \A i \in DOMAIN call[c].got, j \in DOMAIN call[d].got :
        call[c].got[i].of = call[d].got[j].of => c = d /\ i = j
  /\ \A k \in DOMAIN cache : \A c \in DOMAIN call : \A i \in DOMAIN call[c].job :
        HasResult(c, i) => cache[k].data.of # call[c].job[i].result.of
  /\ \A k \in DOMAIN cache : \A c \in DOMAIN call : \A i \in DOMAIN call[c].got :
        cache[k].data.of # call[c].got[i].of
  /\ \A c, d \in DOMAIN call : \A i \in DOMAIN call[c].job, j \in DOMAIN call[d].got :
        HasResult(c, i) => call[c].job[i].result.of # call[d].got[j].of

\* A chunk names the job that fetched it, which fetches no other.
AllSpent ==
  /\ \A k \in DOMAIN cache : Spent(call, cache[k].data.of)
  /\ \A c \in DOMAIN call : \A i \in DOMAIN call[c].job :
        HasResult(c, i) => Spent(call, call[c].job[i].result.of)
  /\ \A c \in DOMAIN call : \A i \in DOMAIN call[c].got : Spent(call, call[c].got[i].of)

DownloadsInv == Typed /\ OneRuns /\ InPlace /\ Apart /\ AllSpent

-----------------------------------------------------------------------------
(* Numbers and finite sets *)

\* A set of numbers has a least one.
LEMMA NatMin ==
  ASSUME NEW S \in SUBSET Nat, S # {}
  PROVE  \E n \in S : \A m \in S : n <= m
<1> DEFINE R == OpToRel(<, Nat)
<1>1. PICK n \in S : \A m \in S : <<m, n>> \notin R
  <2> HIDE DEF R
  <2>1. IsWellFoundedOn(R, Nat)
    BY NatLessThanWellFounded DEF R
  <2> QED BY <2>1, WFMin
<1>2. \A m, k \in Nat : m < k => <<m, k>> \in R
  BY DEF OpToRel
<1> HIDE DEF R
<1>3. \A m \in S : m \in Nat /\ n \in Nat /\ ~(m < n)
  BY <1>1, <1>2
<1>4. \A m \in S : n <= m
  BY <1>3
<1> QED BY <1>4

\* A set with zero and, with a number, the next one has all numbers.
LEMMA CountUp ==
  ASSUME NEW S, 0 \in S, \A n \in Nat : n \in S => n + 1 \in S
  PROVE  Nat \subseteq S
<1> DEFINE Out == {n \in Nat : n \notin S}
<1>1. ASSUME Out # {} PROVE FALSE
  <2>1. PICK m \in Out : \A k \in Out : m <= k
    <3>1. Out \subseteq Nat
      OBVIOUS
    <3> HIDE DEF Out
    <3> QED BY <1>1, <3>1, NatMin
  <2>2. m \in Nat /\ m \notin S /\ m # 0
    BY <2>1
  <2>3. m - 1 \in Nat /\ m - 1 \notin Out
    BY <2>1, <2>2
  <2>4. m - 1 \in S
    BY <2>3
  <2>5. (m - 1) + 1 \in S
    BY <2>3, <2>4
  <2> QED BY <2>2, <2>5
<1> QED BY <1>1

LEMMA MinOf ==
  ASSUME NEW S \in SUBSET Nat, S # {}
  PROVE  Downloads!Min(S) \in S /\ \A y \in S : Downloads!Min(S) <= y
<1>1. \E x \in S : \A y \in S : x <= y
  BY NatMin
<1> QED BY <1>1 DEF Downloads!Min

LEMMA Pairs ==
  ASSUME NEW a \in Int, NEW b \in Int
  PROVE  /\ Downloads!Min({a, b}) = IF a <= b THEN a ELSE b
         /\ Downloads!Max({a, b}) = IF a <= b THEN b ELSE a
<1>1. /\ Downloads!Min({a, b}) \in {a, b} /\ \A y \in {a, b} : Downloads!Min({a, b}) <= y
  <2>1. \E x \in {a, b} : \A y \in {a, b} : x <= y
    OBVIOUS
  <2> QED BY <2>1 DEF Downloads!Min
<1>2. /\ Downloads!Max({a, b}) \in {a, b} /\ \A y \in {a, b} : Downloads!Max({a, b}) >= y
  <2>1. \E x \in {a, b} : \A y \in {a, b} : x >= y
    OBVIOUS
  <2> QED BY <2>1 DEF Downloads!Max
<1> QED BY <1>1, <1>2

LEMMA Multiples ==
  ASSUME NEW s \in Nat \ {0}, NEW i \in Nat, NEW j \in Nat, s * i = s * j
  PROVE  i = j
OBVIOUS

LEMMA Divided ==
  ASSUME NEW a \in Nat, NEW b \in Nat \ {0}
  PROVE  a \div b \in Nat /\ (a >= b => a \div b \in Nat \ {0})
OBVIOUS

\* The instances of the operators on finite sets are those of the library.
LEMMA DownloadsFiniteSets ==
  /\ \A S : Downloads!IsFiniteSet(S) <=> IsFiniteSet(S)
  /\ \A S : Downloads!Cardinality(S) = Cardinality(S)
<1>1. \A S : Downloads!IsFiniteSet(S) <=> IsFiniteSet(S)
  BY DEF Downloads!IsFiniteSet, IsFiniteSet
<1>2. \A S : Downloads!Cardinality(S) = Cardinality(S)
  BY DEF Downloads!Cardinality, Cardinality
<1> QED BY <1>1, <1>2

-----------------------------------------------------------------------------
(* The cache *)

\* The recursion of PutAll, up to a place.
Puts(put, entries, new, places, n) ==
  put = [i \in 0..n |->
           IF i = 0 THEN entries ELSE IF i \in places THEN Downloads!Put(put[i - 1], new[i]) ELSE put[i - 1]]

\* The recursion has a solution, which is the function PutAll takes.
LEMMA PutsExist ==
  ASSUME NEW entries, NEW new, NEW places, NEW n \in Nat
  PROVE  \E put : Puts(put, entries, new, places, n)
<1> DEFINE Bad == {m \in Nat : ~\E put : Puts(put, entries, new, places, m)}
<1>1. ASSUME Bad # {} PROVE FALSE
  <2>1. PICK m \in Bad : \A k \in Bad : m <= k
    <3>1. Bad \subseteq Nat
      OBVIOUS
    <3> HIDE DEF Bad
    <3> QED BY <1>1, <3>1, NatMin
  <2>2. CASE m = 0
    <3>1. Puts([i \in 0..0 |-> entries], entries, new, places, 0)
      BY DEF Puts
    <3> QED BY <2>2, <3>1
  <2>3. CASE m # 0
    <3>1. m \in Nat /\ m - 1 \in Nat /\ m - 1 \notin Bad
      BY <2>1, <2>3
    <3>2. PICK before : Puts(before, entries, new, places, m - 1)
      BY <3>1
    <3> DEFINE last == IF m \in places THEN Downloads!Put(before[m - 1], new[m]) ELSE before[m - 1]
               all == [i \in 0..m |-> IF i = m THEN last ELSE before[i]]
    <3>3. \A i \in 0..m : i # m => i \in 0..m - 1
      BY <3>1
    <3>4. \A i \in 0..m - 1 : before[i] = IF i = 0 THEN entries
            ELSE IF i \in places THEN Downloads!Put(before[i - 1], new[i]) ELSE before[i - 1]
      BY <3>2 DEF Puts
    <3>5. \A i \in 0..m : all[i] = IF i = 0 THEN entries
            ELSE IF i \in places THEN Downloads!Put(all[i - 1], new[i]) ELSE all[i - 1]
      <4> TAKE i \in 0..m
      <4>1. CASE i = m
        <5>1. m - 1 \in 0..m /\ m - 1 # m
          BY <3>1
        <5>2. all[m - 1] = before[m - 1]
          BY <5>1
        <5> QED BY <4>1, <5>2, <2>3
      <4>2. CASE i # m
        <5>1. all[i] = before[i]
          BY <4>2
        <5>2. i # 0 => i - 1 \in 0..m /\ i - 1 # m
          BY <3>1
        <5>3. i # 0 => all[i - 1] = before[i - 1]
          BY <5>2
        <5>4. i \in 0..m - 1
          BY <3>3, <4>2
        <5> HIDE DEF all
        <5> QED BY <5>1, <5>3, <5>4, <3>4
      <4> QED BY <4>1, <4>2
    <3>6. Puts(all, entries, new, places, m)
      <4>1. all = [i \in 0..m |-> all[i]]
        OBVIOUS
      <4> HIDE DEF all
      <4> QED BY <4>1, <3>5 DEF Puts
    <3> QED BY <3>6, <2>1
  <2> QED BY <2>2, <2>3
<1> QED BY <1>1

LEMMA PutAllRecursion ==
  ASSUME NEW entries, NEW new, NEW places, Len(new) \in Nat
  PROVE  \E put : /\ Puts(put, entries, new, places, Len(new))
                   /\ Downloads!PutAll(entries, new, places) = put[Len(new)]
<1>1. \E put : Puts(put, entries, new, places, Len(new))
  BY PutsExist
<1> QED BY <1>1 DEF Puts, Downloads!PutAll
\* What Put leaves is of A, keeps the limit and has no chunk twice.
LEMMA PutOne ==
  ASSUME CacheMax \in Nat, NEW A, NEW s \in Seq(A), Len(s) <= CacheMax, NEW e \in A
  PROVE  /\ Downloads!Put(s, e) \in Seq(A) /\ Len(Downloads!Put(s, e)) <= CacheMax
         /\ (OfApart(s) /\ \A k \in DOMAIN s : s[k].data.of # e.data.of) => OfApart(Downloads!Put(s, e))
<1> DEFINE longer == Append(s, e)
<1>1. /\ longer \in Seq(A) /\ Len(longer) = Len(s) + 1 /\ Len(s) \in Nat
      /\ \A i \in 1..Len(s) : longer[i] = s[i]
      /\ longer[Len(s) + 1] = e /\ DOMAIN s = 1..Len(s) /\ DOMAIN longer = 1..Len(s) + 1
  BY AppendProperties, LenProperties
<1>2. (OfApart(s) /\ \A k \in DOMAIN s : s[k].data.of # e.data.of) => OfApart(longer)
  <2> HIDE DEF longer
  <2> QED BY <1>1 DEF OfApart
<1> HIDE DEF longer
<1>3. /\ Tail(longer) \in Seq(A) /\ Len(Tail(longer)) = Len(longer) - 1
      /\ DOMAIN Tail(longer) = 1..Len(s)
      /\ \A i \in 1..Len(s) : Tail(longer)[i] = longer[i + 1]
  <2>1. longer # <<>>
    BY <1>1
  <2> QED BY <1>1, <2>1, HeadTailProperties
<1>4. OfApart(longer) => OfApart(Tail(longer))
  <2> SUFFICES ASSUME OfApart(longer), NEW i \in 1..Len(s), NEW j \in 1..Len(s),
                      Tail(longer)[i].data.of = Tail(longer)[j].data.of
               PROVE  i = j
    BY <1>3 DEF OfApart
  <2>1. longer[i + 1].data.of = longer[j + 1].data.of
    BY <1>3
  <2>2. i + 1 \in DOMAIN longer /\ j + 1 \in DOMAIN longer
    BY <1>1
  <2>3. i + 1 = j + 1
    BY <2>1, <2>2 DEF OfApart
  <2> QED BY <1>1, <2>3
<1>5. Downloads!Put(s, e) = IF Len(longer) > CacheMax THEN Tail(longer) ELSE longer
  BY DEF Downloads!Put, longer
<1>6. CASE Len(longer) > CacheMax
  BY <1>1, <1>2, <1>3, <1>4, <1>5, <1>6
<1>7. CASE ~(Len(longer) > CacheMax)
  BY <1>1, <1>2, <1>5, <1>7
<1> QED BY <1>6, <1>7

\* What PutAll leaves is of A if all it is given is, and keeps the limit.
LEMMA PutAllKeeps ==
  ASSUME CacheMax \in Nat, NEW A, NEW entries \in Seq(A), Len(entries) <= CacheMax,
         NEW new, Len(new) \in Nat, NEW places, \A i \in places : new[i] \in A
  PROVE  /\ Downloads!PutAll(entries, new, places) \in Seq(A)
         /\ Len(Downloads!PutAll(entries, new, places)) <= CacheMax
<1>1. PICK put : /\ Puts(put, entries, new, places, Len(new))
                /\ Downloads!PutAll(entries, new, places) = put[Len(new)]
  BY PutAllRecursion
<1> DEFINE Good == {n \in Nat : n <= Len(new) => put[n] \in Seq(A) /\ Len(put[n]) <= CacheMax}
<1>2. 0 \in Good
  BY <1>1 DEF Puts
<1>3. ASSUME NEW n \in Nat, n \in Good PROVE n + 1 \in Good
  <2> SUFFICES ASSUME n + 1 <= Len(new)
               PROVE  put[n + 1] \in Seq(A) /\ Len(put[n + 1]) <= CacheMax
    OBVIOUS
  <2>1. put[n] \in Seq(A) /\ Len(put[n]) <= CacheMax
    BY <1>3
  <2>2. put[n + 1] = IF n + 1 \in places THEN Downloads!Put(put[n], new[n + 1]) ELSE put[n]
    <3>1. n + 1 \in 0..Len(new) /\ n + 1 # 0 /\ (n + 1) - 1 = n
      OBVIOUS
    <3> QED BY <1>1, <3>1 DEF Puts
  <2> QED BY <2>1, <2>2, PutOne
<1> HIDE DEF Good
<1>4. Len(new) \in Good
  BY <1>2, <1>3, CountUp
<1> QED BY <1>1, <1>4 DEF Good

\* It has no chunk twice if it is given none twice.
LEMMA PutAllApart ==
  ASSUME CacheMax \in Nat, NEW entries \in Seq(Entries), Len(entries) <= CacheMax,
         NEW new, Len(new) \in Nat, NEW places \in SUBSET Nat, \A i \in places : new[i] \in Entries,
         OfApart(entries),
         \A i \in places : \A k \in DOMAIN entries : entries[k].data.of # new[i].data.of,
         \A i, j \in places : new[i].data.of = new[j].data.of => i = j
  PROVE  OfApart(Downloads!PutAll(entries, new, places))
<1>1. PICK put : /\ Puts(put, entries, new, places, Len(new))
                /\ Downloads!PutAll(entries, new, places) = put[Len(new)]
  BY PutAllRecursion
<1> DEFINE Given(n) == {e \in Entries : (\E k \in DOMAIN entries : e = entries[k])
                                         \/ (\E i \in places : i <= n /\ e = new[i])}
           Good == {n \in Nat : n <= Len(new) =>
                      put[n] \in Seq(Given(n)) /\ Len(put[n]) <= CacheMax /\ OfApart(put[n])}
<1>2. 0 \in Good
  <2>1. put[0] = entries
    BY <1>1 DEF Puts
  <2>2. entries \in Seq(Given(0))
    <3>1. \A k \in 1..Len(entries) : entries[k] \in Given(0)
      BY ElementOfSeq
    <3> HIDE DEF Given
    <3> QED BY <3>1, IsASeq, LenProperties
  <2> HIDE DEF Given
  <2> QED BY <2>1, <2>2
<1>3. ASSUME NEW n \in Nat, n \in Good PROVE n + 1 \in Good
  <2> SUFFICES ASSUME n + 1 <= Len(new)
               PROVE  put[n + 1] \in Seq(Given(n + 1)) /\ Len(put[n + 1]) <= CacheMax /\ OfApart(put[n + 1])
    OBVIOUS
  <2>1. put[n] \in Seq(Given(n)) /\ Len(put[n]) <= CacheMax /\ OfApart(put[n])
    BY <1>3
  <2>2. put[n + 1] = IF n + 1 \in places THEN Downloads!Put(put[n], new[n + 1]) ELSE put[n]
    <3>1. n + 1 \in 0..Len(new) /\ n + 1 # 0 /\ (n + 1) - 1 = n
      OBVIOUS
    <3> QED BY <1>1, <3>1 DEF Puts
  <2>3. Given(n) \subseteq Given(n + 1)
    OBVIOUS
  <2>4. put[n] \in Seq(Given(n + 1))
    <3> HIDE DEF Given
    <3> QED BY <2>1, <2>3, SeqMonotonic
  <2>5. CASE n + 1 \in places
    <3>1. new[n + 1] \in Given(n + 1)
      BY <2>5
    <3>2. ASSUME NEW k \in DOMAIN put[n] PROVE put[n][k].data.of # new[n + 1].data.of
      <4>1. put[n][k] \in Given(n)
        <5> HIDE DEF Given
        <5> QED BY <2>1, <3>2, ElementOfSeq, LenProperties
      <4>2. CASE \E l \in DOMAIN entries : put[n][k] = entries[l]
        BY <2>5, <4>2
      <4>3. CASE \E i \in places : i <= n /\ put[n][k] = new[i]
        BY <2>5, <4>3
      <4> QED BY <4>1, <4>2, <4>3
    <3> HIDE DEF Given, Good
    <3>3. \A k \in DOMAIN put[n] : put[n][k].data.of # new[n + 1].data.of
      BY <3>2
    <3>4. /\ Downloads!Put(put[n], new[n + 1]) \in Seq(Given(n + 1))
          /\ Len(Downloads!Put(put[n], new[n + 1])) <= CacheMax
          /\ OfApart(Downloads!Put(put[n], new[n + 1]))
      BY <2>1, <2>4, <3>1, <3>3, PutOne
    <3> QED BY <2>2, <2>5, <3>4
  <2>6. CASE n + 1 \notin places
    <3> HIDE DEF Given
    <3> QED BY <2>1, <2>2, <2>4, <2>6
  <2> QED BY <2>5, <2>6
<1> HIDE DEF Good
<1>4. Len(new) \in Good
  BY <1>2, <1>3, CountUp
<1> QED BY <1>1, <1>4 DEF Good
-----------------------------------------------------------------------------
(* Jobs and answers *)

\* What the types say of the calls, their jobs and what they returned.
LEMMA CallTypes ==
  ASSUME Typed
  PROVE  /\ call \in Seq(Calls) /\ DOMAIN call = 1..Len(call) /\ Len(call) \in Nat
         /\ \A d \in DOMAIN call : call[d] \in Calls
         /\ \A d \in DOMAIN call : call[d].job \in Seq(Jobs) /\ call[d].got \in Seq(Data)
         /\ \A d \in DOMAIN call : \A j \in DOMAIN call[d].job : call[d].job[j] \in Jobs
         /\ \A d \in DOMAIN call : \A j \in DOMAIN call[d].got : call[d].got[j] \in Data
         /\ \A k \in DOMAIN cache : cache[k] \in Entries
<1>1. call \in Seq(Calls) /\ DOMAIN call = 1..Len(call) /\ Len(call) \in Nat
      /\ \A d \in DOMAIN call : call[d] \in Calls
  BY ElementOfSeq, LenProperties DEF Typed
<1>2. \A d \in DOMAIN call : call[d].job \in Seq(Jobs) /\ call[d].got \in Seq(Data)
  BY <1>1 DEF Calls
<1>3. \A d \in DOMAIN call : \A j \in DOMAIN call[d].job : call[d].job[j] \in Jobs
  BY <1>2, ElementOfSeq, LenProperties
<1>4. \A d \in DOMAIN call : \A j \in DOMAIN call[d].got : call[d].got[j] \in Data
  BY <1>2, ElementOfSeq, LenProperties
<1>5. \A k \in DOMAIN cache : cache[k] \in Entries
  BY ElementOfSeq, LenProperties DEF Typed
<1> QED BY <1>1, <1>2, <1>3, <1>4, <1>5

\* Every chunk that is held was fetched by a job of a call.
LEMMA HeldOf ==
  ASSUME Typed
  PROVE  /\ \A k \in DOMAIN cache : cache[k].data.of \in Nat \X Nat
         /\ \A d \in DOMAIN call : \A j \in DOMAIN call[d].job :
              HasResult(d, j) => call[d].job[j].result.of \in Nat \X Nat
         /\ \A d \in DOMAIN call : \A j \in DOMAIN call[d].got : call[d].got[j].of \in Nat \X Nat
BY CallTypes DEF Entries, Jobs, Data, HasResult

\* An answer is no longer than what was asked for.
LEMMA AnswersWithinLimit ==
  ASSUME Downloads!DownloadAssumption, NEW low \in Int, NEW limit \in Nat,
         NEW count \in Downloads!Counts(low, limit)
  PROVE  count \in Nat /\ count <= limit
<1> DEFINE least == Downloads!Min({limit, MaxTop - low + 1})
           most == Downloads!Max({0, least})
<1>1. least \in Int /\ least <= limit
  BY Pairs DEF Downloads!DownloadAssumption
<1>2. most \in Nat /\ most <= limit
  <2>1. \A l \in Int : l <= limit => Downloads!Max({0, l}) \in Nat /\ Downloads!Max({0, l}) <= limit
    <3>1. \A l \in Int : Downloads!Max({0, l}) = IF 0 <= l THEN l ELSE 0
      BY Pairs
    <3> QED BY <3>1
  <2> HIDE DEF least
  <2> QED BY <1>1, <2>1
<1>3. count \in IF ShortAnswers THEN 0..most ELSE {most}
  BY DEF Downloads!Counts
<1> HIDE DEF most
<1> QED BY <1>2, <1>3

-----------------------------------------------------------------------------
(* A job goes on *)

\* A job is replaced by one that may wait for a peer, or has what is its own.
LEMMA JobChanged ==
  ASSUME DownloadsInv, NEW c, NEW i, Downloads!Running(c, i), NEW J \in Jobs,
         call' = [call EXCEPT ![c].job[i] = J], UNCHANGED <<size, cache, branch>>,
         J.limit <= call[c].size, J.peer # Nobody => J.result = Nobody,
         J.result # Nobody => /\ J.result.low = Downloads!ChunkLow(c, i) /\ J.result.count <= call[c].size
                            /\ J.result.of = <<c, i>>
  PROVE  DownloadsInv'
<1>1. /\ c \in DOMAIN call /\ i \in DOMAIN call[c].job
      /\ call[c].state = "running" /\ call[c].job[i].peer # Nobody
      /\ call \in Seq(Calls) /\ DOMAIN call = 1..Len(call)
      /\ \A d \in DOMAIN call : call[d] \in Calls
      /\ \A d \in DOMAIN call : call[d].job \in Seq(Jobs) /\ call[d].got \in Seq(Data)
      /\ \A d \in DOMAIN call : \A j \in DOMAIN call[d].job : call[d].job[j] \in Jobs
  <2>1. call \in Seq(Calls) /\ DOMAIN call = 1..Len(call) /\ \A d \in DOMAIN call : call[d] \in Calls
    BY ElementOfSeq, LenProperties DEF DownloadsInv, Typed
  <2>2. \A d \in DOMAIN call : call[d].job \in Seq(Jobs) /\ call[d].got \in Seq(Data)
    BY <2>1 DEF Calls
  <2>3. \A d \in DOMAIN call : \A j \in DOMAIN call[d].job : call[d].job[j] \in Jobs
    BY <2>2, ElementOfSeq, LenProperties
  <2> QED BY <2>1, <2>2, <2>3 DEF Downloads!Running
<1>2. /\ DOMAIN call' = DOMAIN call
      /\ \A d \in DOMAIN call : d # c => call'[d] = call[d]
      /\ call'[c] = [call[c] EXCEPT !.job = [call[c].job EXCEPT ![i] = J]]
  BY <1>1
<1>3. /\ call'[c].from = call[c].from /\ call'[c].size = call[c].size /\ call'[c].state = call[c].state
      /\ call'[c].got = call[c].got /\ call'[c].job = [call[c].job EXCEPT ![i] = J]
  BY <1>1, <1>2 DEF Calls
<1>4. \A d \in DOMAIN call : /\ call'[d].from = call[d].from /\ call'[d].size = call[d].size
                             /\ call'[d].state = call[d].state /\ call'[d].got = call[d].got
                             /\ DOMAIN call'[d].job = DOMAIN call[d].job
  BY <1>2, <1>3
<1>5. /\ call'[c].job[i] = J
      /\ \A d \in DOMAIN call : \A j \in DOMAIN call[d].job :
           ~(d = c /\ j = i) => call'[d].job[j] = call[d].job[j]
  BY <1>1, <1>2, <1>3
<1>6. Typed'
  <2>1. [call[c].job EXCEPT ![i] = J] \in Seq(Jobs)
    BY <1>1, ExceptSeq
  <2>2. call'[c] \in Calls
    BY <1>1, <1>2, <2>1 DEF Calls
  <2>3. call' \in Seq(Calls)
    <3>1. call' = [call EXCEPT ![c] = call'[c]]
      BY <1>1, <1>2
    <3> QED BY <1>1, <2>2, <3>1, ExceptSeq
  <2> QED BY <2>3 DEF DownloadsInv, Typed
<1>7. OneRuns'
  BY <1>1, <1>2, <1>3, <1>4 DEF DownloadsInv, OneRuns
<1>8. InPlace'
  <2>1. \A d \in DOMAIN call : \A j : Downloads!ChunkLow(d, j)' = Downloads!ChunkLow(d, j)
    BY <1>4 DEF Downloads!ChunkLow
  <2>2. ASSUME NEW d \in DOMAIN call, NEW j \in DOMAIN call[d].job PROVE JobInPlace(d, j)'
    <3>1. CASE d = c /\ j = i
      BY <1>1, <1>4, <1>5, <2>1, <3>1 DEF JobInPlace
    <3>2. CASE ~(d = c /\ j = i)
      BY <1>4, <1>5, <2>1, <3>2 DEF JobInPlace, DownloadsInv, InPlace
    <3> QED BY <3>1, <3>2
  <2>3. \A d \in DOMAIN call' : \A j \in DOMAIN call'[d].got : call'[d].got[j].low = Downloads!ChunkLow(d, j)'
    BY <1>2, <1>4, <2>1 DEF DownloadsInv, InPlace
  <2> QED BY <1>2, <1>4, <2>2, <2>3 DEF DownloadsInv, InPlace
<1>9. \A of \in Nat \X Nat : Spent(call, of) => of # <<c, i>> /\ Spent(call', of)
  BY <1>1, <1>2, <1>4, <1>5 DEF Spent
<1>10. /\ \A k \in DOMAIN cache : cache[k].data.of \in Nat \X Nat
       /\ \A d \in DOMAIN call : \A j \in DOMAIN call[d].job :
            HasResult(d, j) => call[d].job[j].result.of \in Nat \X Nat
       /\ \A d \in DOMAIN call : \A j \in DOMAIN call[d].got : call[d].got[j].of \in Nat \X Nat
  <2>1. \A k \in DOMAIN cache : cache[k] \in Entries
    BY ElementOfSeq, LenProperties DEF DownloadsInv, Typed
  <2>2. \A d \in DOMAIN call : \A j \in DOMAIN call[d].got : call[d].got[j] \in Data
    BY <1>1, ElementOfSeq, LenProperties
  <2> QED BY <1>1, <2>1, <2>2 DEF Entries, Jobs, Data, HasResult
<1>11. \A d \in DOMAIN call : \A j \in DOMAIN call[d].job :
         HasResult(d, j)' => \/ d = c /\ j = i /\ call'[d].job[j].result.of = <<c, i>>
                             \/ /\ ~(d = c /\ j = i) /\ HasResult(d, j)
                                /\ call'[d].job[j] = call[d].job[j]
  BY <1>1, <1>2, <1>4, <1>5 DEF HasResult
<1>12. Apart'
  <2>1. OfApart(cache)'
    BY DEF DownloadsInv, Apart
  <2>2. \A d \in DOMAIN call : \A j \in DOMAIN call[d].job :
          HasResult(d, j) => call[d].job[j].result.of # <<c, i>>
    BY <1>9, <1>10 DEF DownloadsInv, AllSpent
  <2>3. \A k \in DOMAIN cache : cache[k].data.of # <<c, i>>
    BY <1>9, <1>10 DEF DownloadsInv, AllSpent
  <2>4. \A d \in DOMAIN call : \A j \in DOMAIN call[d].got : call[d].got[j].of # <<c, i>>
    BY <1>9, <1>10 DEF DownloadsInv, AllSpent
  <2>5. \A d, e \in DOMAIN call : \A j \in DOMAIN call[d].job, k \in DOMAIN call[e].job :
          HasResult(d, j)' /\ HasResult(e, k)' /\ call'[d].job[j].result.of = call'[e].job[k].result.of
            => d = e /\ j = k
    BY <1>11, <2>2 DEF DownloadsInv, Apart
  <2>6. \A k \in DOMAIN cache : \A d \in DOMAIN call : \A j \in DOMAIN call[d].job :
          HasResult(d, j)' => cache[k].data.of # call'[d].job[j].result.of
    BY <1>11, <2>3 DEF DownloadsInv, Apart
  <2>7. \A d, e \in DOMAIN call : \A j \in DOMAIN call[d].job, k \in DOMAIN call[e].got :
          HasResult(d, j)' => call'[d].job[j].result.of # call[e].got[k].of
    BY <1>11, <2>4 DEF DownloadsInv, Apart
  <2> QED BY <1>2, <1>4, <2>1, <2>5, <2>6, <2>7 DEF DownloadsInv, Apart
<1>13. AllSpent'
  <2>1. HasResult(c, i)' => Spent(call', <<c, i>>)
    <3>1. HasResult(c, i)' => call'[c].job[i].peer = Nobody
      BY <1>5 DEF HasResult
    <3> QED BY <1>1, <1>2, <1>4, <3>1 DEF Spent
  <2>2. \A k \in DOMAIN cache : Spent(call', cache[k].data.of)
    BY <1>9, <1>10 DEF DownloadsInv, AllSpent
  <2>3. \A d \in DOMAIN call : \A j \in DOMAIN call[d].job :
          HasResult(d, j)' => Spent(call', call'[d].job[j].result.of)
    <3> SUFFICES ASSUME NEW d \in DOMAIN call, NEW j \in DOMAIN call[d].job, HasResult(d, j)'
                 PROVE  Spent(call', call'[d].job[j].result.of)
      OBVIOUS
    <3>1. CASE d = c /\ j = i
      BY <1>11, <2>1, <3>1
    <3>2. CASE ~(d = c /\ j = i)
      <4>1. HasResult(d, j) /\ call'[d].job[j] = call[d].job[j]
        BY <1>11, <3>2
      <4>2. call[d].job[j].result.of \in Nat \X Nat /\ Spent(call, call[d].job[j].result.of)
        BY <1>10, <4>1 DEF DownloadsInv, AllSpent
      <4> QED BY <1>9, <4>1, <4>2
    <3> QED BY <3>1, <3>2
  <2>4. \A d \in DOMAIN call : \A j \in DOMAIN call[d].got : Spent(call', call[d].got[j].of)
    BY <1>9, <1>10 DEF DownloadsInv, AllSpent
  <2>5. \A k \in DOMAIN cache' : Spent(call', cache'[k].data.of)
    BY <2>2
  <2>6. \A d \in DOMAIN call' : \A j \in DOMAIN call'[d].job :
          HasResult(d, j)' => Spent(call', call'[d].job[j].result.of)
    BY <1>2, <1>4, <2>3
  <2>7. \A d \in DOMAIN call' : \A j \in DOMAIN call'[d].got : Spent(call', call'[d].got[j].of)
    BY <1>2, <1>4, <2>4
  <2> QED BY <2>5, <2>6, <2>7 DEF AllSpent
<1> QED BY <1>6, <1>7, <1>8, <1>12, <1>13 DEF DownloadsInv
LEMMA DownloadedKeeps ==
  ASSUME Downloads!DownloadAssumption, DownloadsInv, NEW c, NEW i, Downloads!Downloaded(c, i)
  PROVE  DownloadsInv'
<1>1. Typed /\ Downloads!Running(c, i) /\ UNCHANGED <<size, cache, branch>>
  BY DEF Downloads!Downloaded, DownloadsInv
<1>2. PICK count \in Downloads!Counts(Downloads!ChunkLow(c, i), call[c].job[i].limit) :
        call' = [call EXCEPT ![c].job[i] = Downloads!Job(
         [low |-> Downloads!ChunkLow(c, i), count |-> count, branch |-> branch, of |-> <<c, i>>],
         Nobody, 0, {})]
  BY DEF Downloads!Downloaded
<1>3. /\ c \in DOMAIN call /\ i \in DOMAIN call[c].job /\ c \in Nat /\ i \in Nat
      /\ call[c] \in Calls /\ call[c].job[i] \in Jobs /\ JobInPlace(c, i)
  <2>1. c \in DOMAIN call /\ i \in DOMAIN call[c].job /\ c \in Nat
    BY <1>1, CallTypes DEF Downloads!Running
  <2>2. i \in Nat
    BY <1>1, <2>1, CallTypes, LenProperties
  <2> QED BY <1>1, <2>1, <2>2, CallTypes DEF DownloadsInv, InPlace
<1>4. call[c].from \in Nat /\ call[c].size \in Nat \ {0} /\ call[c].job[i].limit \in Nat
  BY <1>3 DEF Calls, Jobs
<1>5. Downloads!ChunkLow(c, i) \in Int
  BY <1>3, <1>4 DEF Downloads!ChunkLow
<1>6. count \in Nat /\ count <= call[c].size
  BY <1>3, <1>4, <1>5, AnswersWithinLimit DEF JobInPlace
<1> DEFINE data == [low |-> Downloads!ChunkLow(c, i), count |-> count, branch |-> branch, of |-> <<c, i>>]
           J == Downloads!Job(data, Nobody, 0, {})
<1>7. data \in Data
  BY <1>1, <1>3, <1>5, <1>6 DEF Data, Typed
<1>8. J \in Jobs /\ J.limit <= call[c].size /\ J.peer = Nobody /\ J.result = data
  <2> HIDE DEF data
  <2> QED BY <1>4, <1>7 DEF Downloads!Job, Jobs
<1>9. data.low = Downloads!ChunkLow(c, i) /\ data.count <= call[c].size /\ data.of = <<c, i>>
  BY <1>6
<1>10. call' = [call EXCEPT ![c].job[i] = J]
  BY <1>2
<1> HIDE DEF J, data
<1> QED BY <1>1, <1>8, <1>9, <1>10, JobChanged

LEMMA TryNextKeeps ==
  ASSUME Downloads!DownloadAssumption, DownloadsInv, NEW c, NEW i, Downloads!TryNext(c, i)
  PROVE  DownloadsInv'
<1>1. Typed /\ Downloads!Running(c, i) /\ UNCHANGED <<size, cache, branch>>
  BY DEF Downloads!TryNext, DownloadsInv
<1>2. /\ c \in DOMAIN call /\ i \in DOMAIN call[c].job /\ call[c].state = "running"
      /\ call[c].job[i] \in Jobs /\ call[c].job[i].peer # Nobody /\ JobInPlace(c, i)
      /\ call[c].size = size /\ size \in Nat
  BY <1>1, CallTypes DEF Downloads!Running, DownloadsInv, InPlace, OneRuns, Typed
<1> DEFINE job == call[c].job[i]
<1>3. job.result = Nobody /\ job.limit <= call[c].size
  BY <1>2 DEF JobInPlace
<1>4. CASE job.left = {}
  <2>1. /\ Downloads!Failed(job) \in Jobs /\ Downloads!Failed(job).result = Nobody
        /\ Downloads!Failed(job).limit <= call[c].size
    BY <1>2, <1>3 DEF Downloads!Failed, Jobs
  <2>2. call' = [call EXCEPT ![c].job[i] = Downloads!Failed(job)]
    BY <1>4 DEF Downloads!TryNext
  <2> HIDE DEF job
  <2> QED BY <1>1, <2>1, <2>2, JobChanged
<1>5. CASE job.left # {}
  <2>1. PICK p \in job.left :
          call' = [call EXCEPT ![c].job[i] = Downloads!Job(Nobody, p, size, job.left \ {p})]
    BY <1>5 DEF Downloads!TryNext
  <2> DEFINE J == Downloads!Job(Nobody, p, size, job.left \ {p})
  <2>2. J \in Jobs /\ J.result = Nobody /\ J.limit <= call[c].size
    BY <1>2, <2>1 DEF Downloads!Job, Jobs
  <2>3. call' = [call EXCEPT ![c].job[i] = J]
    BY <2>1
  <2> HIDE DEF J, job
  <2> QED BY <1>1, <2>2, <2>3, JobChanged
<1> QED BY <1>4, <1>5

-----------------------------------------------------------------------------
(* A call begins *)

\* What is left of the cache is of it, and of no range that is served.
LEMMA UnservedKeeps ==
  ASSUME CacheMax \in Nat, Typed, OfApart(cache), NEW ranges
  PROVE  /\ Downloads!Unserved(ranges) \in Seq(Entries) /\ Len(Downloads!Unserved(ranges)) <= CacheMax
         /\ OfApart(Downloads!Unserved(ranges))
         /\ \A m \in DOMAIN Downloads!Unserved(ranges) : \E k \in DOMAIN cache :
              Downloads!Unserved(ranges)[m] = cache[k] /\ <<cache[k].low, cache[k].high>> \notin ranges
<1> DEFINE places == {i \in DOMAIN cache : <<cache[i].low, cache[i].high>> \notin ranges}
           Left == {e \in Entries : \E k \in places : e = cache[k]}
<1>1. /\ Len(cache) \in Nat /\ DOMAIN cache = 1..Len(cache)
      /\ \A k \in DOMAIN cache : cache[k] \in Entries
  BY CallTypes, LenProperties DEF Typed
<1>2. places \in SUBSET Nat /\ \A k \in places : cache[k] \in Left /\ cache[k] \in Entries
  BY <1>1
<1>3. Downloads!Unserved(ranges) = Downloads!PutAll(<<>>, cache, places)
  BY DEF Downloads!Unserved
<1>4. <<>> \in Seq(Left) /\ <<>> \in Seq(Entries) /\ Len(<<>>) = 0 /\ Len(<<>>) <= CacheMax
  <2> HIDE DEF Left
  <2> QED BY EmptySeq
<1>5. DOMAIN <<>> = {} /\ OfApart(<<>>)
  BY DEF OfApart
<1>6. Left \subseteq Entries /\ \A e \in Left : \E k \in places : e = cache[k]
  OBVIOUS
<1>7. \A i, j \in places : cache[i].data.of = cache[j].data.of => i = j
  BY DEF OfApart
<1>8. places \subseteq DOMAIN cache /\ \A k \in places : <<cache[k].low, cache[k].high>> \notin ranges
  OBVIOUS
<1> HIDE DEF Left, places
<1>9. /\ Downloads!PutAll(<<>>, cache, places) \in Seq(Left)
      /\ Len(Downloads!PutAll(<<>>, cache, places)) <= CacheMax
  BY <1>1, <1>2, <1>4, PutAllKeeps
<1>10. OfApart(Downloads!PutAll(<<>>, cache, places))
  BY <1>1, <1>2, <1>4, <1>5, <1>7, PutAllApart
<1>11. Downloads!Unserved(ranges) \in Seq(Left)
  BY <1>3, <1>9
<1>12. Downloads!Unserved(ranges) \in Seq(Entries)
  BY <1>6, <1>11, SeqMonotonic
<1>13. \A m \in DOMAIN Downloads!Unserved(ranges) : Downloads!Unserved(ranges)[m] \in Left
  BY <1>11, ElementOfSeq, LenProperties
<1> QED BY <1>3, <1>6, <1>8, <1>9, <1>10, <1>12, <1>13

\* The cache gives the chunk it keeps under a range.
LEMMA GetGives ==
  ASSUME Typed, NEW low, NEW high, Downloads!Has(low, high)
  PROVE  \E k \in DOMAIN cache :
           cache[k].low = low /\ cache[k].high = high /\ Downloads!Get(low, high) = cache[k].data
<1> DEFINE found == {i \in DOMAIN cache : cache[i].low = low /\ cache[i].high = high}
<1>1. found # {}
  BY DEF Downloads!Has
<1>2. found \in SUBSET Nat
  BY LenProperties DEF Typed
<1>3. Downloads!Min(found) \in found
  <2> HIDE DEF found
  <2> QED BY <1>1, <1>2, MinOf
<1> QED BY <1>3 DEF Downloads!Get

\* A call begins while no other runs: its jobs wait for peers or have a chunk of
\* the cache, which gives it away.
LEMMA CallBegun ==
  ASSUME Downloads!DownloadAssumption, DownloadsInv, NEW from \in Nat, NEW n \in Nat,
         NEW job \in Seq(Jobs), DOMAIN job = 1..n, NEW hits \in SUBSET (1..n),
         \A d \in DOMAIN call : call[d].state # "running",
         call' = Append(call, [from |-> from, size |-> size, state |-> "running",
                               got |-> <<>>, job |-> job]),
         NEW ranges, \A i \in hits : <<from + size * (i - 1) + 1, from + size * i>> \in ranges,
         cache' = Downloads!Unserved(ranges),
         UNCHANGED <<size, branch>>,
         \A i \in hits : /\ job[i].peer = Nobody /\ job[i].limit = 0
                         /\ \E k \in DOMAIN cache :
                              /\ cache[k].low = from + size * (i - 1) + 1
                              /\ cache[k].high = from + size * i
                              /\ job[i].result = cache[k].data,
         \A i \in (1..n) \ hits : job[i].result = Nobody /\ job[i].limit = size
  PROVE  DownloadsInv'
<1>1. PICK c : c = Len(call) + 1
  OBVIOUS
<1>2. PICK begun : begun = [from |-> from, size |-> size, state |-> "running", got |-> <<>>, job |-> job]
  OBVIOUS
<1>3. \A i \in hits : i \in Nat
  OBVIOUS
<1>4. \A i \in hits : job[i].peer = Nobody /\ job[i].limit = 0
  OBVIOUS
<1>5. 0 <= size
  BY DEF DownloadsInv, Typed
<1>6. Typed /\ size \in Nat \ {0} /\ CacheMax \in Nat /\ OfApart(cache)
  BY DEF DownloadsInv, Typed, Downloads!DownloadAssumption, Apart
<1>7. /\ call \in Seq(Calls) /\ DOMAIN call = 1..Len(call) /\ Len(call) \in Nat
      /\ \A d \in DOMAIN call : call[d].state = "ended"
  BY <1>6, CallTypes DEF Calls
<1>8. begun \in Calls
  BY <1>2, <1>6, EmptySeq DEF Calls
<1>9. /\ begun.from = from /\ begun.size = size /\ begun.state = "running"
      /\ begun.got = <<>> /\ begun.job = job
  BY <1>2
<1>10. /\ call' \in Seq(Calls) /\ DOMAIN call' = (DOMAIN call) \cup {c} /\ c \notin DOMAIN call
      /\ \A d \in DOMAIN call : call'[d] = call[d]
      /\ call'[c] = begun
  <2>1. call' = Append(call, begun)
    BY <1>2
  <2> QED BY <1>1, <1>7, <1>8, <2>1, AppendProperties, LenProperties
<1>11. /\ cache' \in Seq(Entries) /\ Len(cache') <= CacheMax /\ OfApart(cache')
      /\ \A m \in DOMAIN cache' : \E k \in DOMAIN cache :
           cache'[m] = cache[k] /\ <<cache[k].low, cache[k].high>> \notin ranges
  <2>1. /\ Downloads!Unserved(ranges) \in Seq(Entries) /\ Len(Downloads!Unserved(ranges)) <= CacheMax
        /\ OfApart(Downloads!Unserved(ranges))
        /\ \A m \in DOMAIN Downloads!Unserved(ranges) : \E k \in DOMAIN cache :
             Downloads!Unserved(ranges)[m] = cache[k] /\ <<cache[k].low, cache[k].high>> \notin ranges
    BY <1>6, UnservedKeeps
  <2>2. OfApart(cache')
    BY <2>1
  <2> QED BY <2>1, <2>2
<1>12. /\ \A d \in DOMAIN call : \A j : Downloads!ChunkLow(d, j)' = Downloads!ChunkLow(d, j)
      /\ \A j : Downloads!ChunkLow(c, j)' = from + size * (j - 1) + 1
  <2>1. \A d \in DOMAIN call : call'[d].from = call[d].from /\ call'[d].size = call[d].size
    BY <1>10
  <2>2. call'[c].from = from /\ call'[c].size = size
    BY <1>9, <1>10
  <2> QED BY <2>1, <2>2 DEF Downloads!ChunkLow
<1> DEFINE Hit(i, k) == /\ cache[k].low = from + size * (i - 1) + 1 /\ cache[k].high = from + size * i
                        /\ job[i].result = cache[k].data
<1>13. \A i \in hits : \E k \in DOMAIN cache : Hit(i, k)
  OBVIOUS
<1>14. \A i \in hits, k \in DOMAIN cache : Hit(i, k) =>
        /\ <<cache[k].low, cache[k].high>> \in ranges
        /\ job[i].result.low = from + size * (i - 1) + 1 /\ job[i].result.count <= size
        /\ job[i].result.of = cache[k].data.of
  <2> SUFFICES ASSUME NEW i \in hits, NEW k \in DOMAIN cache, Hit(i, k)
               PROVE  /\ <<cache[k].low, cache[k].high>> \in ranges
                      /\ job[i].result.low = from + size * (i - 1) + 1 /\ job[i].result.count <= size
                      /\ job[i].result.of = cache[k].data.of
    OBVIOUS
  <2>1. Fits(cache[k]) /\ cache[k].data.count \in Nat
    BY <1>6, CallTypes DEF DownloadsInv, InPlace, Entries, Data
  <2>2. cache[k].high = cache[k].low + size - 1 /\ cache[k].low \in Int
    <3>1. size * i = size * (i - 1) + size /\ size * (i - 1) \in Int
      BY <1>6, <1>3
    <3> QED BY <1>6, <3>1
  <2>3. <<cache[k].low, cache[k].high>> \in ranges
    OBVIOUS
  <2> QED BY <1>6, <2>1, <2>2, <2>3 DEF Fits
<1>15. \A i, j \in hits, k \in DOMAIN cache : Hit(i, k) /\ Hit(j, k) => i = j
  <2> SUFFICES ASSUME NEW i \in hits, NEW j \in hits, NEW k \in DOMAIN cache, Hit(i, k), Hit(j, k)
               PROVE  i = j
    OBVIOUS
  <2>1. size * i = size * j
    <3>1. cache[k].high = from + size * i /\ cache[k].high = from + size * j
      OBVIOUS
    <3>2. size * i \in Int /\ size * j \in Int
      BY <1>6, <1>3
    <3> HIDE DEF Hit
    <3> QED BY <3>1, <3>2
  <2>2. i \in Nat /\ j \in Nat
    BY <1>3
  <2> QED BY <1>6, <2>1, <2>2, Multiples
<1>16. \A d \in DOMAIN call' : \A j \in DOMAIN call'[d].job :
         /\ d = c /\ call'[d].job[j] = job[j] /\ j \in 1..n
         /\ HasResult(d, j)' => j \in hits
  BY <1>7, <1>9, <1>10 DEF HasResult, DownloadsInv, OneRuns
<1>17. \A d \in DOMAIN call' : \A j \in DOMAIN call'[d].got :
         d \in DOMAIN call /\ call'[d].got = call[d].got
  BY <1>9, <1>10
<1>18. \A j \in hits : \E k \in DOMAIN cache :
         job[j].result.of = cache[k].data.of /\ <<cache[k].low, cache[k].high>> \in ranges
  <2> TAKE j \in hits
  <2>1. PICK k \in DOMAIN cache : Hit(j, k)
    BY <1>13
  <2> QED BY <1>14, <2>1
<1>19. \A i, j \in hits : job[i].result.of = job[j].result.of => i = j
  <2> SUFFICES ASSUME NEW i \in hits, NEW j \in hits, job[i].result.of = job[j].result.of
               PROVE  i = j
    OBVIOUS
  <2>1. PICK k \in DOMAIN cache : Hit(i, k)
    BY <1>13
  <2>2. PICK l \in DOMAIN cache : Hit(j, l)
    BY <1>13
  <2>3. cache[k].data.of = cache[l].data.of
    BY <2>1, <2>2
  <2>4. k = l
    BY <1>6, <2>3 DEF OfApart
  <2> HIDE DEF Hit
  <2> QED BY <1>15, <2>1, <2>2, <2>4
<1> HIDE DEF Hit
<1>20. Typed'
  BY <1>6, <1>10, <1>11 DEF Typed
<1>21. OneRuns'
  BY <1>7, <1>9, <1>10 DEF DownloadsInv, OneRuns
<1>22. InPlace'
  <2>1. \A m \in DOMAIN cache' : Fits(cache'[m])
    BY <1>11 DEF DownloadsInv, InPlace
  <2>2. ASSUME NEW d \in DOMAIN call', NEW j \in DOMAIN call'[d].job PROVE JobInPlace(d, j)'
    <3>1. d = c /\ call'[d].job[j] = job[j] /\ j \in 1..n /\ call'[d].size = size
      BY <1>9, <1>10, <1>16, <2>2
    <3>2. CASE j \in hits
      <4>1. job[j].result.low = Downloads!ChunkLow(c, j)' /\ job[j].result.count <= size
        BY <1>12, <1>13, <1>14, <3>2
      <4>2. job[j].peer = Nobody /\ job[j].limit = 0 /\ 0 <= size
        BY <1>4, <1>5, <3>2
      <4> QED BY <3>1, <4>1, <4>2 DEF JobInPlace
    <3>3. CASE j \notin hits
      BY <1>6, <3>1, <3>3 DEF JobInPlace
    <3> QED BY <3>2, <3>3
  <2>3. \A d \in DOMAIN call' : \A j \in DOMAIN call'[d].got : call'[d].got[j].low = Downloads!ChunkLow(d, j)'
    BY <1>12, <1>17 DEF DownloadsInv, InPlace
  <2> QED BY <2>1, <2>2, <2>3 DEF InPlace
<1>23. Apart'
  <2>1. \A d, e \in DOMAIN call' : \A j \in DOMAIN call'[d].job, k \in DOMAIN call'[e].job :
          HasResult(d, j)' /\ HasResult(e, k)' /\ call'[d].job[j].result.of = call'[e].job[k].result.of
            => d = e /\ j = k
    BY <1>16, <1>19
  <2>2. \A d, e \in DOMAIN call' : \A j \in DOMAIN call'[d].got, k \in DOMAIN call'[e].got :
          call'[d].got[j].of = call'[e].got[k].of => d = e /\ j = k
    BY <1>17 DEF DownloadsInv, Apart
  <2>3. \A m \in DOMAIN cache' : \A d \in DOMAIN call' : \A j \in DOMAIN call'[d].job :
          HasResult(d, j)' => cache'[m].data.of # call'[d].job[j].result.of
    <3> SUFFICES ASSUME NEW m \in DOMAIN cache', NEW j \in hits
                 PROVE  cache'[m].data.of # job[j].result.of
      BY <1>16
    <3>1. PICK k \in DOMAIN cache :
            cache'[m] = cache[k] /\ <<cache[k].low, cache[k].high>> \notin ranges
      BY <1>11
    <3>2. PICK l \in DOMAIN cache :
            job[j].result.of = cache[l].data.of /\ <<cache[l].low, cache[l].high>> \in ranges
      BY <1>18
    <3>3. k # l
      BY <3>1, <3>2
    <3>4. cache[k].data.of # cache[l].data.of
      BY <1>6, <3>3 DEF OfApart
    <3> QED BY <3>1, <3>2, <3>4
  <2>4. \A m \in DOMAIN cache' : \A d \in DOMAIN call' : \A j \in DOMAIN call'[d].got :
          cache'[m].data.of # call'[d].got[j].of
    <3> SUFFICES ASSUME NEW m \in DOMAIN cache', NEW d \in DOMAIN call', NEW j \in DOMAIN call'[d].got
                 PROVE  cache'[m].data.of # call'[d].got[j].of
      OBVIOUS
    <3>1. PICK k \in DOMAIN cache : cache'[m] = cache[k]
      BY <1>11
    <3>2. d \in DOMAIN call /\ call'[d].got = call[d].got
      BY <1>17
    <3>3. cache[k].data.of # call[d].got[j].of
      BY <3>2 DEF DownloadsInv, Apart
    <3> QED BY <3>1, <3>2, <3>3
  <2>5. \A d, e \in DOMAIN call' : \A j \in DOMAIN call'[d].job, k \in DOMAIN call'[e].got :
          HasResult(d, j)' => call'[d].job[j].result.of # call'[e].got[k].of
    <3> SUFFICES ASSUME NEW j \in hits, NEW e \in DOMAIN call, NEW k \in DOMAIN call[e].got
                 PROVE  job[j].result.of # call[e].got[k].of
      BY <1>16, <1>17
    <3>1. PICK l \in DOMAIN cache : job[j].result.of = cache[l].data.of
      BY <1>18
    <3>2. cache[l].data.of # call[e].got[k].of
      BY DEF DownloadsInv, Apart
    <3> QED BY <3>1, <3>2
  <2> QED BY <1>11, <2>1, <2>2, <2>3, <2>4, <2>5 DEF Apart
<1>24. AllSpent'
  <2>1. \A of : Spent(call, of) => Spent(call', of)
    BY <1>10 DEF Spent
  <2>2. \A m \in DOMAIN cache' : Spent(call', cache'[m].data.of)
    BY <1>11, <2>1 DEF DownloadsInv, AllSpent
  <2>3. \A d \in DOMAIN call' : \A j \in DOMAIN call'[d].job :
          HasResult(d, j)' => Spent(call', call'[d].job[j].result.of)
    <3> SUFFICES ASSUME NEW j \in hits
                 PROVE  Spent(call', job[j].result.of)
      BY <1>16
    <3>1. PICK k \in DOMAIN cache : job[j].result.of = cache[k].data.of
      BY <1>18
    <3>2. Spent(call, cache[k].data.of)
      BY DEF DownloadsInv, AllSpent
    <3> QED BY <2>1, <3>1, <3>2
  <2>4. \A d \in DOMAIN call' : \A j \in DOMAIN call'[d].got : Spent(call', call'[d].got[j].of)
    BY <1>17, <2>1 DEF DownloadsInv, AllSpent
  <2> QED BY <2>2, <2>3, <2>4 DEF AllSpent
<1> QED BY <1>20, <1>21, <1>22, <1>23, <1>24 DEF DownloadsInv
\* The number of chunks that are missing.
LEMMA CallsMissing ==
  ASSUME Downloads!DownloadAssumption, size \in Nat \ {0}, NEW from \in Nat, NEW networkHeight \in 0..MaxTop
  PROVE  Downloads!Missing(from, networkHeight) \in Nat
<1>1. CASE networkHeight <= from
  BY <1>1 DEF Downloads!Missing
<1>2. CASE ~(networkHeight <= from)
  <2>1. networkHeight \in Nat /\ networkHeight - from + size - 1 \in Nat
    BY <1>2 DEF Downloads!DownloadAssumption
  <2>2. \A a \in Nat : a \div size \in Nat
    BY Divided
  <2> QED BY <1>2, <2>1, <2>2 DEF Downloads!Missing, Downloads!CeilDiv
<1> QED BY <1>1, <1>2

LEMMA BeginKeeps ==
  ASSUME Downloads!DownloadAssumption, DownloadsInv, Overlapping = 1,
         NEW from \in Froms, NEW networkHeight \in 0..MaxTop, NEW notForked \in SUBSET Sources,
         Downloads!Begin(from, networkHeight, notForked)
  PROVE  DownloadsInv'
<1> DEFINE n == Downloads!Min({Downloads!Missing(from, networkHeight),
                            Downloads!Cardinality(notForked), Parallel})
           low(i) == from + size * (i - 1) + 1
           high(i) == from + size * i
           hits == {i \in 1..n - 1 : Downloads!Has(low(i), high(i))}
<1>1. Typed /\ size \in Nat \ {0} /\ from \in Nat
  BY DEF DownloadsInv, Typed, Downloads!DownloadAssumption
<1>2. n \in Nat
  <2>1. Downloads!Missing(from, networkHeight) \in Nat
    BY <1>1, CallsMissing
  <2>2. Downloads!Cardinality(notForked) \in Nat
    BY FS_Subset, FS_CardinalityType, DownloadsFiniteSets DEF Downloads!DownloadAssumption
  <2>3. Parallel \in Nat
    BY DEF Downloads!DownloadAssumption
  <2>4. \A a, b, p \in Nat : Downloads!Min({a, b, p}) \in Nat
    <3> TAKE a, b, p \in Nat
    <3>1. {a, b, p} \in SUBSET Nat /\ {a, b, p} # {}
      OBVIOUS
    <3>2. Downloads!Min({a, b, p}) \in {a, b, p}
      BY <3>1, MinOf
    <3> QED BY <3>2
  <2> QED BY <2>1, <2>2, <2>3, <2>4
<1>3. \A d \in DOMAIN call : call[d].state # "running"
  <2> DEFINE R == {d \in DOMAIN call : call[d].state = "running"}
  <2>1. Downloads!Cardinality(R) < 1
    BY DEF Downloads!Begin
  <2>2. IsFiniteSet(R)
    <3>1. IsFiniteSet(DOMAIN call)
      BY <1>1, CallTypes, FS_Interval
    <3>2. R \in SUBSET DOMAIN call
      OBVIOUS
    <3> HIDE DEF R
    <3> QED BY <3>1, <3>2, FS_Subset
  <2>3. R = {}
    <3> HIDE DEF R
    <3> QED BY <2>1, <2>2, FS_EmptySet, FS_CardinalityType, DownloadsFiniteSets
  <2> QED BY <2>3
<1>4. PICK first \in [1..n -> notForked] : call' =
        LET spare == notForked \ Downloads!Range(first)
            backup(i) == IF spare = {} THEN notForked \ {first[i]} ELSE spare
        IN  Append(call,
              [from |-> from, size |-> size, state |-> "running", got |-> <<>>,
               job |-> [i \in 1..n |->
                  IF i \in hits THEN Downloads!Job(Downloads!Get(low(i), high(i)), Nobody, 0, {})
                  ELSE Downloads!Job(Nobody, first[i], size, backup(i))]])
  BY DEF Downloads!Begin
<1>5. cache' = Downloads!Unserved({<<low(i), high(i)>> : i \in hits}) /\ UNCHANGED <<size, branch>>
  BY DEF Downloads!Begin
<1> DEFINE spare == notForked \ Downloads!Range(first)
           backup(i) == IF spare = {} THEN notForked \ {first[i]} ELSE spare
           job == [i \in 1..n |-> IF i \in hits
                                  THEN Downloads!Job(Downloads!Get(low(i), high(i)), Nobody, 0, {})
                                  ELSE Downloads!Job(Nobody, first[i], size, backup(i))]
<1>6. call' = Append(call, [from |-> from, size |-> size, state |-> "running",
                            got |-> <<>>, job |-> job])
  BY <1>4
<1>7. hits \in SUBSET (1..n)
  <2> HIDE DEF n
  <2> QED BY <1>2
<1>8. \A i \in hits : \E k \in DOMAIN cache :
        cache[k].low = low(i) /\ cache[k].high = high(i) /\ Downloads!Get(low(i), high(i)) = cache[k].data
  <2> HIDE DEF n, low, high
  <2> QED BY <1>1, GetGives
<1>9. DOMAIN job = 1..n
  OBVIOUS
<1>10. \A i \in hits : job[i] = Downloads!Job(Downloads!Get(low(i), high(i)), Nobody, 0, {})
  <2> HIDE DEF n, low, high
  <2> QED BY <1>7
<1>11. \A i \in (1..n) \ hits : job[i] = Downloads!Job(Nobody, first[i], size, backup(i))
  <2> HIDE DEF n, low, high
  <2> QED OBVIOUS
<1> HIDE DEF n, low, high, hits, job
<1>12. ASSUME NEW i \in hits
       PROVE  /\ job[i] \in Jobs /\ job[i].peer = Nobody /\ job[i].limit = 0
              /\ \E k \in DOMAIN cache :
                   cache[k].low = low(i) /\ cache[k].high = high(i) /\ job[i].result = cache[k].data
  <2>1. PICK k \in DOMAIN cache :
          cache[k].low = low(i) /\ cache[k].high = high(i) /\ Downloads!Get(low(i), high(i)) = cache[k].data
    BY <1>8
  <2>2. cache[k].data \in Data
    BY <1>1, CallTypes DEF Entries
  <2>3. job[i] = Downloads!Job(cache[k].data, Nobody, 0, {})
    BY <1>10, <2>1
  <2> QED BY <2>1, <2>2, <2>3 DEF Downloads!Job, Jobs
<1>13. ASSUME NEW i \in (1..n) \ hits
       PROVE  job[i] \in Jobs /\ job[i].result = Nobody /\ job[i].limit = size
  <2>1. backup(i) \in SUBSET Sources /\ first[i] \in Sources
    OBVIOUS
  <2>2. job[i] = Downloads!Job(Nobody, first[i], size, backup(i))
    BY <1>11
  <2> HIDE DEF backup
  <2> QED BY <1>1, <2>1, <2>2 DEF Downloads!Job, Jobs
<1>14. job \in Seq(Jobs)
  <2>1. \A i \in 1..n : job[i] \in Jobs
    BY <1>12, <1>13
  <2>2. job = [i \in 1..n |-> job[i]]
    BY <1>9 DEF job
  <2>3. job \in [1..n -> Jobs]
    BY <2>1, <2>2
  <2> QED BY <1>2, <2>3, SeqDef
<1>15. \A i : low(i) = from + size * (i - 1) + 1 /\ high(i) = from + size * i
  BY DEF low, high
<1>16. cache' = Downloads!Unserved({<<from + size * (i - 1) + 1, from + size * i>> : i \in hits})
  BY <1>5 DEF low, high
<1>17. \A i \in hits : /\ job[i].peer = Nobody /\ job[i].limit = 0
                       /\ \E k \in DOMAIN cache :
                            /\ cache[k].low = from + size * (i - 1) + 1
                            /\ cache[k].high = from + size * i
                            /\ job[i].result = cache[k].data
  BY <1>12, <1>15
<1>18. \A i \in (1..n) \ hits : job[i].result = Nobody /\ job[i].limit = size
  BY <1>13
<1>19. PICK m, served, started : m = n /\ served = hits /\ started = job
  OBVIOUS
<1>20. m \in Nat /\ started \in Seq(Jobs) /\ DOMAIN started = 1..m /\ served \in SUBSET (1..m)
  BY <1>2, <1>7, <1>9, <1>14, <1>19
<1>21. call' = Append(call, [from |-> from, size |-> size, state |-> "running",
                             got |-> <<>>, job |-> started])
  BY <1>6, <1>19
<1>22. PICK ranges : ranges = {<<from + size * (i - 1) + 1, from + size * i>> : i \in hits}
  OBVIOUS
<1>23. /\ cache' = Downloads!Unserved(ranges)
       /\ \A i \in served : <<from + size * (i - 1) + 1, from + size * i>> \in ranges
  BY <1>16, <1>19, <1>22
<1>24. \A i \in served : /\ started[i].peer = Nobody /\ started[i].limit = 0
                         /\ \E k \in DOMAIN cache :
                              /\ cache[k].low = from + size * (i - 1) + 1
                              /\ cache[k].high = from + size * i
                              /\ started[i].result = cache[k].data
  BY <1>17, <1>19
<1>25. \A i \in (1..m) \ served : started[i].result = Nobody /\ started[i].limit = size
  BY <1>18, <1>19
<1>26. UNCHANGED <<size, branch>>
  BY <1>5
<1>27. from \in Nat
  BY <1>1
<1> HIDE DEF spare, backup
<1> QED BY <1>3, <1>20, <1>21, <1>24, <1>25, <1>26, <1>27, <1>23, CallBegun

-----------------------------------------------------------------------------
(* A call ends *)

LEMMA NextSizeTypes ==
  ASSUME Downloads!DownloadAssumption, size \in Nat \ {0}, NEW got
  PROVE  Downloads!NextSize(got) \in Nat \ {0}
<1>1. size + Shrink - 1 \in Nat /\ size + Shrink - 1 >= Shrink /\ Shrink \in Nat \ {0}
  BY DEF Downloads!DownloadAssumption
<1>2. Downloads!CeilDiv(size, Shrink) \in Nat \ {0}
  BY <1>1, Divided DEF Downloads!CeilDiv
<1> QED BY <1>2 DEF Downloads!NextSize, Downloads!DownloadAssumption

\* A call ends: what it returns begins at its first chunk; chunks that are not
\* returned may be kept.
LEMMA CallEnded ==
  ASSUME Downloads!DownloadAssumption, DownloadsInv, NEW c \in DOMAIN call, NEW got, NEW stop \in Nat \ {0},
         NEW kept \in SUBSET DOMAIN call[c].job,
         call[c].state = "running", size' \in Nat \ {0}, branch' = branch,
         got = [i \in 1..stop - 1 |-> call[c].job[i].result],
         \A i \in 1..stop - 1 : HasResult(c, i),
         \A i \in kept : i > stop /\ HasResult(c, i),
         cache' = Downloads!PutAll(cache, [i \in DOMAIN call[c].job |-> Downloads!Entry(c, i)], kept),
         call' = [call EXCEPT ![c] = [@ EXCEPT !.state = "ended", !.got = got, !.job = <<>>]]
  PROVE  DownloadsInv'
<1>1. /\ Typed /\ call[c] \in Calls /\ call[c].size = size /\ OfApart(cache)
      /\ size \in Nat \ {0} /\ CacheMax \in Nat /\ call[c].from \in Nat
  BY CallTypes DEF DownloadsInv, OneRuns, Typed, Downloads!DownloadAssumption, Apart, Calls
<1>2. /\ \A i \in DOMAIN call[c].job : HasResult(c, i) =>
           /\ call[c].job[i].result \in Data /\ i \in Nat
           /\ call[c].job[i].result.low = Downloads!ChunkLow(c, i) /\ call[c].job[i].result.count <= size
      /\ call[c].job \in Seq(Jobs) /\ Len(call[c].job) \in Nat
      /\ DOMAIN call[c].job = 1..Len(call[c].job)
  <2>1. /\ call[c].job \in Seq(Jobs) /\ Len(call[c].job) \in Nat
        /\ DOMAIN call[c].job = 1..Len(call[c].job)
    BY <1>1, CallTypes, LenProperties
  <2>2. ASSUME NEW i \in DOMAIN call[c].job, HasResult(c, i)
        PROVE  /\ call[c].job[i].result \in Data /\ i \in Nat
               /\ call[c].job[i].result.low = Downloads!ChunkLow(c, i) /\ call[c].job[i].result.count <= size
    <3>1. call[c].job[i] \in Jobs /\ JobInPlace(c, i)
      BY <1>1, CallTypes DEF DownloadsInv, InPlace
    <3> QED BY <1>1, <2>1, <2>2, <3>1 DEF Jobs, JobInPlace, HasResult
  <2> QED BY <2>1, <2>2
<1>3. /\ got \in Seq(Data) /\ DOMAIN got = 1..stop - 1
      /\ \A i \in DOMAIN got : got[i] = call[c].job[i].result /\ HasResult(c, i)
  <2>1. \A i \in 1..stop - 1 : call[c].job[i].result \in Data
    BY <1>2 DEF HasResult
  <2>2. got \in [1..stop - 1 -> Data]
    BY <2>1
  <2>3. stop - 1 \in Nat
    OBVIOUS
  <2>4. got \in Seq(Data)
    BY <2>2, <2>3, SeqDef
  <2>5. DOMAIN got = 1..stop - 1
    OBVIOUS
  <2>6. \A i \in DOMAIN got : got[i] = call[c].job[i].result
    OBVIOUS
  <2> QED BY <2>4, <2>5, <2>6
<1>4. PICK ended : ended = [call[c] EXCEPT !.state = "ended", !.got = got, !.job = <<>>]
  OBVIOUS
<1>5. /\ ended \in Calls /\ ended.from = call[c].from /\ ended.size = call[c].size
      /\ ended.state = "ended" /\ ended.got = got /\ ended.job = <<>>
  <2>1. <<>> \in Seq(Jobs)
    BY EmptySeq
  <2> QED BY <1>1, <1>3, <1>4, <2>1 DEF Calls
<1>6. /\ call' \in Seq(Calls) /\ DOMAIN call' = DOMAIN call
      /\ call'[c] = ended /\ \A d \in DOMAIN call : d # c => call'[d] = call[d]
  <2>1. call' = [call EXCEPT ![c] = ended]
    BY <1>4
  <2> QED BY <1>1, <1>5, <2>1, CallTypes, ExceptSeq
<1>7. \A d \in DOMAIN call : \A j : Downloads!ChunkLow(d, j)' = Downloads!ChunkLow(d, j)
  <2>1. \A d \in DOMAIN call : call'[d].from = call[d].from /\ call'[d].size = call[d].size
    BY <1>5, <1>6
  <2> QED BY <2>1 DEF Downloads!ChunkLow
<1>8. \A d \in DOMAIN call' : \A j \in DOMAIN call'[d].job : FALSE
  <2>1. \A d \in DOMAIN call : d # c => call[d].state = "ended" /\ call[d].job = <<>>
    BY <1>1, CallTypes DEF DownloadsInv, OneRuns, Calls
  <2>2. \A d \in DOMAIN call : call'[d].job = <<>>
    BY <1>5, <1>6, <2>1
  <2> QED BY <1>6, <2>2
<1>9. \A d \in DOMAIN call' : \A j \in DOMAIN call'[d].got :
        \/ d = c /\ j \in DOMAIN got /\ call'[d].got[j] = got[j]
        \/ d # c /\ d \in DOMAIN call /\ j \in DOMAIN call[d].got /\ call'[d].got[j] = call[d].got[j]
  BY <1>5, <1>6
<1>10. PICK new : new = [i \in DOMAIN call[c].job |-> Downloads!Entry(c, i)]
  OBVIOUS
<1>11. /\ Len(new) = Len(call[c].job) /\ DOMAIN new = DOMAIN call[c].job
       /\ \A i \in DOMAIN call[c].job : new[i] = Downloads!Entry(c, i)
  BY <1>2, <1>10
<1>12. /\ kept \in SUBSET Nat
       /\ \A i \in kept : /\ new[i] \in Entries /\ Fits(new[i])
                          /\ new[i].data = call[c].job[i].result
                          /\ HasResult(c, i) /\ i \in DOMAIN call[c].job /\ i > stop
  <2> SUFFICES ASSUME NEW i \in kept
               PROVE  /\ i \in Nat /\ new[i] \in Entries /\ Fits(new[i])
                      /\ new[i].data = call[c].job[i].result
                      /\ HasResult(c, i) /\ i \in DOMAIN call[c].job /\ i > stop
    OBVIOUS
  <2>1. HasResult(c, i) /\ i \in DOMAIN call[c].job /\ i > stop /\ i \in Nat
    BY <1>2
  <2>2. /\ call[c].job[i].result \in Data /\ call[c].job[i].result.low = Downloads!ChunkLow(c, i)
        /\ call[c].job[i].result.count <= size /\ call[c].job[i].result.count \in Nat
    BY <1>2, <2>1 DEF Data
  <2>3. new[i] = [low |-> call[c].from + size * (i - 1) + 1, high |-> call[c].from + size * i,
                  data |-> call[c].job[i].result]
    BY <1>11, <2>1 DEF Downloads!Entry
  <2>4. call[c].from + size * (i - 1) + 1 \in Int /\ call[c].from + size * i \in Int
    BY <1>1, <2>1
  <2>5. new[i] \in Entries
    BY <2>2, <2>3, <2>4 DEF Entries
  <2>6. Fits(new[i])
    <3>1. Downloads!ChunkLow(c, i) = call[c].from + size * (i - 1) + 1
      BY <1>1 DEF Downloads!ChunkLow
    <3>2. size * i = size * (i - 1) + size
      BY <1>1, <2>1
    <3>3. size * (i - 1) \in Int
      BY <1>1, <2>1
    <3>4. new[i].data.low = new[i].low /\ new[i].data.count = call[c].job[i].result.count
      BY <2>2, <2>3, <3>1
    <3>5. new[i].high = new[i].low + size - 1 /\ new[i].low \in Int
      BY <1>1, <2>3, <3>2, <3>3
    <3> QED BY <1>1, <2>2, <3>4, <3>5 DEF Fits
  <2> QED BY <2>1, <2>3, <2>5, <2>6
<1>13. /\ cache' \in Seq(Entries) /\ Len(cache') <= CacheMax /\ OfApart(cache')
       /\ \A m \in DOMAIN cache' : \/ \E k \in DOMAIN cache : cache'[m] = cache[k]
                                   \/ \E i \in kept : cache'[m] = new[i]
  <2>1. PICK Given : Given = {e \in Entries : \/ \E k \in DOMAIN cache : e = cache[k]
                                              \/ \E i \in kept : e = new[i]}
    OBVIOUS
  <2>2. cache \in Seq(Entries) /\ Len(cache) <= CacheMax /\ Len(cache) \in Nat
        /\ DOMAIN cache = 1..Len(cache) /\ Len(new) \in Nat
    BY <1>1, <1>2, <1>11, LenProperties DEF Typed
  <2>3. cache \in Seq(Given)
    <3>1. \A k \in 1..Len(cache) : cache[k] \in Given
      BY <1>1, <2>1, <2>2, CallTypes
    <3>2. cache \in [1..Len(cache) -> Given]
      BY <2>2, <3>1, LenProperties
    <3> QED BY <2>2, <3>2, SeqDef
  <2>4. \A i \in kept : new[i] \in Given
    BY <1>12, <2>1
  <2>5. /\ Downloads!PutAll(cache, new, kept) \in Seq(Given)
        /\ Len(Downloads!PutAll(cache, new, kept)) <= CacheMax
    BY <1>1, <2>2, <2>3, <2>4, PutAllKeeps
  <2>6. \A i \in kept : \A k \in DOMAIN cache : cache[k].data.of # new[i].data.of
    BY <1>12 DEF DownloadsInv, Apart
  <2>7. \A i, j \in kept : new[i].data.of = new[j].data.of => i = j
    BY <1>12 DEF DownloadsInv, Apart
  <2>8. OfApart(Downloads!PutAll(cache, new, kept))
    BY <1>1, <1>12, <2>2, <2>6, <2>7, PutAllApart
  <2>9. cache' = Downloads!PutAll(cache, new, kept)
    BY <1>10
  <2>10. OfApart(cache')
    BY <2>8, <2>9
  <2>11. cache' \in Seq(Given)
    BY <2>5, <2>9
  <2>12. Given \subseteq Entries
    BY <2>1
  <2>13. cache' \in Seq(Entries)
    BY <2>11, <2>12, SeqMonotonic
  <2>14. \A m \in DOMAIN cache' : cache'[m] \in Given
    BY <2>11, ElementOfSeq, LenProperties
  <2> QED BY <2>1, <2>5, <2>9, <2>10, <2>13, <2>14
<1>14. Typed'
  BY <1>1, <1>6, <1>13 DEF Typed
<1>15. OneRuns'
  <2>1. \A d \in DOMAIN call' : call'[d].state = "ended"
    BY <1>1, <1>5, <1>6, CallTypes DEF DownloadsInv, OneRuns, Calls
  <2>2. \A d \in DOMAIN call' : call'[d].job = <<>>
    BY <1>5, <1>6, <2>1 DEF DownloadsInv, OneRuns
  <2> QED BY <2>1, <2>2 DEF OneRuns
<1>16. InPlace'
  <2>1. \A m \in DOMAIN cache' : Fits(cache'[m])
    <3> TAKE m \in DOMAIN cache'
    <3>1. CASE \E k \in DOMAIN cache : cache'[m] = cache[k]
      BY <3>1 DEF DownloadsInv, InPlace
    <3>2. CASE \E i \in kept : cache'[m] = new[i]
      BY <1>12, <3>2
    <3> QED BY <1>13, <3>1, <3>2
  <2>2. ASSUME NEW d \in DOMAIN call', NEW j \in DOMAIN call'[d].got
        PROVE  call'[d].got[j].low = Downloads!ChunkLow(d, j)'
    <3>1. CASE d = c /\ j \in DOMAIN got /\ call'[d].got[j] = got[j]
      <4>1. HasResult(c, j) /\ got[j] = call[c].job[j].result /\ j \in DOMAIN call[c].job
        BY <1>3, <3>1 DEF HasResult
      <4> QED BY <1>2, <1>7, <3>1, <4>1
    <3>2. CASE /\ d # c /\ d \in DOMAIN call /\ j \in DOMAIN call[d].got
               /\ call'[d].got[j] = call[d].got[j]
      BY <1>7, <3>2 DEF DownloadsInv, InPlace
    <3> QED BY <1>9, <2>2, <3>1, <3>2
  <2> QED BY <1>8, <2>1, <2>2 DEF InPlace
<1>17. Apart'
  <2>1. \A d, e \in DOMAIN call' : \A j \in DOMAIN call'[d].got, k \in DOMAIN call'[e].got :
          call'[d].got[j].of = call'[e].got[k].of => d = e /\ j = k
    <3> SUFFICES ASSUME NEW d \in DOMAIN call', NEW e \in DOMAIN call',
                        NEW j \in DOMAIN call'[d].got, NEW k \in DOMAIN call'[e].got,
                        call'[d].got[j].of = call'[e].got[k].of
                 PROVE  d = e /\ j = k
      OBVIOUS
    <3>1. \A i \in DOMAIN got : i \in DOMAIN call[c].job /\ got[i] = call[c].job[i].result /\ HasResult(c, i)
      BY <1>3 DEF HasResult
    <3>2. CASE d = c /\ e = c
      <4>1. /\ j \in DOMAIN got /\ call'[d].got[j] = got[j]
            /\ k \in DOMAIN got /\ call'[e].got[k] = got[k]
        BY <1>5, <1>6, <3>2
      <4> QED BY <3>1, <3>2, <4>1 DEF DownloadsInv, Apart
    <3>3. CASE d = c /\ e # c
      <4>1. /\ j \in DOMAIN got /\ call'[d].got[j] = got[j]
            /\ e \in DOMAIN call /\ k \in DOMAIN call[e].got /\ call'[e].got[k] = call[e].got[k]
        BY <1>5, <1>6, <3>3
      <4> QED BY <3>1, <3>3, <4>1 DEF DownloadsInv, Apart
    <3>4. CASE d # c /\ e = c
      <4>1. /\ k \in DOMAIN got /\ call'[e].got[k] = got[k]
            /\ d \in DOMAIN call /\ j \in DOMAIN call[d].got /\ call'[d].got[j] = call[d].got[j]
        BY <1>5, <1>6, <3>4
      <4> QED BY <3>1, <3>4, <4>1 DEF DownloadsInv, Apart
    <3>5. CASE d # c /\ e # c
      <4>1. /\ d \in DOMAIN call /\ j \in DOMAIN call[d].got /\ call'[d].got[j] = call[d].got[j]
            /\ e \in DOMAIN call /\ k \in DOMAIN call[e].got /\ call'[e].got[k] = call[e].got[k]
        BY <1>6, <3>5
      <4> QED BY <4>1 DEF DownloadsInv, Apart
    <3> QED BY <3>2, <3>3, <3>4, <3>5
  <2>2. \A m \in DOMAIN cache' : \A d \in DOMAIN call' : \A j \in DOMAIN call'[d].got :
          cache'[m].data.of # call'[d].got[j].of
    <3> SUFFICES ASSUME NEW m \in DOMAIN cache', NEW d \in DOMAIN call', NEW j \in DOMAIN call'[d].got
                 PROVE  cache'[m].data.of # call'[d].got[j].of
      OBVIOUS
    <3>1. CASE d = c /\ j \in DOMAIN got /\ call'[d].got[j] = got[j]
      <4>1. /\ j \in DOMAIN call[c].job /\ call'[d].got[j] = call[c].job[j].result
            /\ HasResult(c, j) /\ j < stop
        BY <1>3, <3>1 DEF HasResult
      <4>2. CASE \E k \in DOMAIN cache : cache'[m] = cache[k]
        BY <4>1, <4>2 DEF DownloadsInv, Apart
      <4>3. CASE \E i \in kept : cache'[m] = new[i]
        <5>1. PICK i \in kept : cache'[m] = new[i]
          BY <4>3
        <5>2. i # j /\ i \in DOMAIN call[c].job /\ HasResult(c, i)
              /\ cache'[m].data = call[c].job[i].result
          BY <1>2, <1>12, <4>1, <5>1
        <5> QED BY <4>1, <5>2 DEF DownloadsInv, Apart
      <4> QED BY <1>13, <4>2, <4>3
    <3>2. CASE /\ d # c /\ d \in DOMAIN call /\ j \in DOMAIN call[d].got
               /\ call'[d].got[j] = call[d].got[j]
      <4>1. CASE \E k \in DOMAIN cache : cache'[m] = cache[k]
        BY <3>2, <4>1 DEF DownloadsInv, Apart
      <4>2. CASE \E i \in kept : cache'[m] = new[i]
        BY <1>12, <3>2, <4>2 DEF DownloadsInv, Apart
      <4> QED BY <1>13, <4>1, <4>2
    <3> QED BY <1>9, <3>1, <3>2
  <2>3. \A d, e \in DOMAIN call' : \A j \in DOMAIN call'[d].job, k \in DOMAIN call'[e].job :
          HasResult(d, j)' /\ HasResult(e, k)' /\ call'[d].job[j].result.of = call'[e].job[k].result.of
            => d = e /\ j = k
    BY <1>8
  <2>4. \A m \in DOMAIN cache' : \A d \in DOMAIN call' : \A j \in DOMAIN call'[d].job :
          HasResult(d, j)' => cache'[m].data.of # call'[d].job[j].result.of
    BY <1>8
  <2>5. \A d, e \in DOMAIN call' : \A j \in DOMAIN call'[d].job, k \in DOMAIN call'[e].got :
          HasResult(d, j)' => call'[d].job[j].result.of # call'[e].got[k].of
    BY <1>8
  <2>6. OfApart(cache)'
    BY <1>13
  <2> QED BY <2>1, <2>2, <2>3, <2>6, <2>4, <2>5 DEF Apart
<1>18. AllSpent'
  <2>1. \A of : Spent(call, of) => Spent(call', of)
    BY <1>6, <1>8 DEF Spent
  <2>2. ASSUME NEW m \in DOMAIN cache' PROVE Spent(call', cache'[m].data.of)
    <3>1. CASE \E k \in DOMAIN cache : cache'[m] = cache[k]
      BY <2>1, <3>1 DEF DownloadsInv, AllSpent
    <3>2. CASE \E i \in kept : cache'[m] = new[i]
      BY <1>12, <2>1, <3>2 DEF DownloadsInv, AllSpent
    <3> QED BY <1>13, <2>2, <3>1, <3>2
  <2>3. ASSUME NEW d \in DOMAIN call', NEW j \in DOMAIN call'[d].got
        PROVE  Spent(call', call'[d].got[j].of)
    <3>1. CASE d = c /\ j \in DOMAIN got /\ call'[d].got[j] = got[j]
      <4>1. j \in DOMAIN call[c].job /\ call'[d].got[j] = call[c].job[j].result /\ HasResult(c, j)
        BY <1>3, <3>1 DEF HasResult
      <4> QED BY <2>1, <4>1 DEF DownloadsInv, AllSpent
    <3>2. CASE /\ d # c /\ d \in DOMAIN call /\ j \in DOMAIN call[d].got
               /\ call'[d].got[j] = call[d].got[j]
      BY <2>1, <3>2 DEF DownloadsInv, AllSpent
    <3> QED BY <1>9, <2>3, <3>1, <3>2
  <2> QED BY <1>8, <2>2, <2>3 DEF AllSpent
<1> QED BY <1>14, <1>15, <1>16, <1>17, <1>18 DEF DownloadsInv

LEMMA FinishKeeps ==
  ASSUME Downloads!DownloadAssumption, DownloadsInv, NEW c \in DOMAIN call, Downloads!Finish(c)
  PROVE  DownloadsInv'
<1>1. PICK done : done = {i \in DOMAIN call[c].job : call[c].job[i].result # Nobody}
  OBVIOUS
<1>2. PICK stop : stop = Downloads!Min((1..Downloads!Chunks(c) + 1) \ done)
  OBVIOUS
<1>3. PICK got : got = [i \in 1..stop - 1 |-> call[c].job[i].result]
  OBVIOUS
<1>4. PICK kept : kept = {i \in done : i > stop}
  OBVIOUS
<1>5. /\ call[c].state = "running" /\ branch' = branch
      /\ cache' = Downloads!PutAll(cache, [i \in DOMAIN call[c].job |-> Downloads!Entry(c, i)], kept)
      /\ size' = Downloads!NextSize(got)
      /\ call' = [call EXCEPT ![c] = [@ EXCEPT !.state = "ended", !.got = got, !.job = <<>>]]
  BY <1>1, <1>2, <1>3, <1>4 DEF Downloads!Finish
<1>6. DOMAIN call[c].job = 1..Downloads!Chunks(c) /\ Downloads!Chunks(c) \in Nat
  BY CallTypes, LenProperties DEF DownloadsInv, Downloads!Chunks
<1>7. stop \in 1..Downloads!Chunks(c) + 1 /\ \A i \in 1..stop - 1 : i \in done
  <2> DEFINE S == (1..Downloads!Chunks(c) + 1) \ done
  <2>1. S \in SUBSET Nat
    BY <1>6
  <2>2. Downloads!Chunks(c) + 1 \in S
    BY <1>1, <1>6
  <2>3. stop \in S /\ \A y \in S : stop <= y
    <3> HIDE DEF S
    <3>1. Downloads!Min(S) \in S /\ \A y \in S : Downloads!Min(S) <= y
      BY <2>1, <2>2, MinOf
    <3> QED BY <1>2, <3>1 DEF S
  <2> QED BY <1>6, <2>3
<1>8. \A i \in done : HasResult(c, i)
  BY <1>1 DEF HasResult
<1>9. size' \in Nat \ {0}
  BY <1>5, NextSizeTypes DEF DownloadsInv, Typed
<1>10. kept \in SUBSET DOMAIN call[c].job /\ \A i \in kept : i > stop /\ HasResult(c, i)
  BY <1>1, <1>4, <1>8
<1>11. stop \in Nat \ {0} /\ \A i \in 1..stop - 1 : HasResult(c, i)
  BY <1>6, <1>7, <1>8
<1> QED BY <1>3, <1>5, <1>9, <1>10, <1>11, CallEnded

-----------------------------------------------------------------------------
(* All steps *)

LEMMA DownloadsBegin ==
  ASSUME Downloads!DownloadAssumption, Downloads!Init
  PROVE  DownloadsInv
<1>1. size \in Nat \ {0} /\ cache = <<>> /\ call = <<>> /\ branch \in Branches /\ CacheMax \in Nat
  BY DEF Downloads!Init, Downloads!DownloadAssumption
<1>2. DOMAIN cache = {} /\ DOMAIN call = {}
  BY <1>1
<1>3. Typed
  BY <1>1, EmptySeq DEF Typed
<1>4. OneRuns /\ InPlace /\ AllSpent
  BY <1>2 DEF OneRuns, InPlace, AllSpent
<1>5. Apart
  BY <1>2 DEF Apart, OfApart
<1> QED BY <1>3, <1>4, <1>5 DEF DownloadsInv

\* While nothing but our branch changes, all stays as it is.
LEMMA DownloadsRest ==
  ASSUME DownloadsInv, UNCHANGED <<size, cache, call>>, branch' \in Branches
  PROVE  DownloadsInv'
<1>1. Typed'
  BY DEF DownloadsInv, Typed
<1>2. OneRuns'
  BY DEF DownloadsInv, OneRuns
<1>3. \A c, i : /\ Downloads!ChunkLow(c, i)' = Downloads!ChunkLow(c, i)
              /\ (JobInPlace(c, i)' <=> JobInPlace(c, i))
              /\ (HasResult(c, i)' <=> HasResult(c, i))
  BY DEF Downloads!ChunkLow, JobInPlace, HasResult
<1>4. InPlace'
  BY <1>3 DEF DownloadsInv, InPlace
<1>5. Apart'
  BY <1>3 DEF DownloadsInv, Apart
<1>6. AllSpent'
  BY <1>3 DEF DownloadsInv, AllSpent
<1> QED BY <1>1, <1>2, <1>4, <1>5, <1>6 DEF DownloadsInv

LEMMA DownloadsStep ==
  ASSUME Downloads!DownloadAssumption, Overlapping = 1, DownloadsInv, [Downloads!Next]_(Downloads!vars)
  PROVE  DownloadsInv'
<1>1. CASE Downloads!DownloadBlocksFromHeight
  BY <1>1, BeginKeeps DEF Downloads!DownloadBlocksFromHeight
<1>2. CASE Downloads!JobStep
  BY <1>2, DownloadedKeeps, TryNextKeeps DEF Downloads!JobStep
<1>3. CASE Downloads!FinishStep
  BY <1>3, FinishKeeps DEF Downloads!FinishStep
<1>4. CASE Downloads!SwitchBranch
  BY <1>4, DownloadsRest DEF Downloads!SwitchBranch
<1>5. CASE UNCHANGED Downloads!vars
  <2>1. branch \in Branches
    BY DEF DownloadsInv, Typed
  <2> QED BY <1>5, <2>1, DownloadsRest DEF Downloads!vars
<1> QED BY <1>1, <1>2, <1>3, <1>4, <1>5 DEF Downloads!Next

LEMMA InvInPlace ==
  ASSUME Downloads!DownloadAssumption, DownloadsInv
  PROVE  DownloadsInPlace
<1>1. Downloads!CacheFits
  BY DEF DownloadsInv, InPlace, Fits, Downloads!CacheFits
<1>2. Downloads!ChunksInPlace
  BY DEF DownloadsInv, InPlace, Downloads!ChunkLow, Downloads!ChunksInPlace, Downloads!Ended
<1>3. Downloads!ServedOnce
  BY DEF DownloadsInv, Apart, Downloads!ServedOnce, Downloads!Ended
<1> QED BY <1>1, <1>2, <1>3 DEF DownloadsInPlace

(***************************************************************************)
(* Where one call runs at a time, it returns chunks of the heights it      *)
(* asked for, no chunk is returned twice, and a kept chunk fits its range. *)
(* With overlapping calls it does not hold: one changes the size by which  *)
(* the other names the chunks it keeps.                                    *)
(***************************************************************************)
THEOREM DownloadsStayInPlace ==
  ASSUME Downloads!DownloadAssumption, Overlapping = 1
  PROVE  Downloads!Spec => []DownloadsInPlace
<1>1. Downloads!Init => DownloadsInv
  BY DownloadsBegin
<1>2. DownloadsInv /\ [Downloads!Next]_(Downloads!vars) => DownloadsInv'
  BY DownloadsStep
<1>3. DownloadsInv => DownloadsInPlace
  BY InvInPlace
<1> QED BY <1>1, <1>2, <1>3, PTL DEF Downloads!Spec

-----------------------------------------------------------------------------
(* What the node concludes of its peers *)

CommonHeight(p, my, his) ==
  LET both == Health!Lesser(my, his)
  IN  IF ForkAt[p] = Nothing THEN both ELSE Health!Lesser(ForkAt[p], both)

\* What a ping of p can leave in the repository.
Learnt(p) ==
  {[height |-> his, result |-> [my |-> my, his |-> his, common |-> CommonHeight(p, my, his)]] :
     my \in 1..TopHeight, his \in 1..TopHeight}

HealthPing == [phase : {"none", "asked", "answered"}, height : {Nothing} \cup 1..TopHeight]

HealthTyped ==
  /\ healthOurs \in [height : 1..TopHeight, shrank : BOOLEAN]
  /\ theirs \in [HealthPeers -> 1..TopHeight]
  /\ known = [p \in HealthPeers |-> known[p]]
  /\ \A p \in HealthPeers : known[p] \in {Nothing, Health!Unpinged} \cup Learnt(p)
  /\ healthPings \in [Health!Call -> [HealthPeers -> HealthPing]]
  /\ \A c \in Health!Call, p \in HealthPeers :
       healthPings[c][p].phase = "answered" => healthPings[c][p].height \in 1..TopHeight
  /\ calls \in [Health!Call -> [made : Nat, runs : BOOLEAN]]
  /\ \E cold, state, health : monitor = [cold |-> cold, state |-> state, health |-> health]

\* While our chain loses no block, what the check of the network's health has
\* verified of a peer was read at a height that we still have.
HealthFresh ==
  calls["health"].runs /\ ~healthOurs.shrank =>
    \A p \in Health!Known :
      known[p].result # Nothing /\ healthPings["health"][p].phase = "none" =>
        known[p].result.my <= healthOurs.height

HealthInv == HealthTyped /\ HealthFresh /\ Health!QuorumIsOurs /\ Health!RollsBackToFork

LEMMA HealthFiniteSets ==
  /\ \A S : Health!IsFiniteSet(S) <=> IsFiniteSet(S)
  /\ \A S : Health!Cardinality(S) = Cardinality(S)
<1>1. \A S : Health!IsFiniteSet(S) <=> IsFiniteSet(S)
  BY DEF Health!IsFiniteSet, IsFiniteSet
<1>2. \A S : Health!Cardinality(S) = Cardinality(S)
  BY DEF Health!Cardinality, Cardinality
<1> QED
  BY <1>1, <1>2

\* What a verified peer of the table is known by.
LEMMA LearntOf ==
  ASSUME Health!HealthAssumption, HealthTyped, NEW p \in Health!Known, known[p].result # Nothing
  PROVE  /\ p \in HealthPeers
         /\ known[p].height \in 1..TopHeight /\ known[p].result.his = known[p].height
         /\ known[p].result.my \in 1..TopHeight
         /\ known[p].result.common =
              CommonHeight(p, known[p].result.my, known[p].result.his)
<1>1. p \in HealthPeers /\ known[p] # Nothing
  BY DEF Health!Known
<1>2. known[p] # Health!Unpinged
  BY DEF Health!Unpinged
<1>3. known[p] \in Learnt(p)
  BY <1>1, <1>2 DEF HealthTyped
<1>4. PICK my \in 1..TopHeight, his \in 1..TopHeight :
        known[p] = [height |-> his,
                    result |-> [my |-> my, his |-> his, common |-> CommonHeight(p, my, his)]]
  BY <1>3 DEF Learnt
<1> QED
  BY <1>1, <1>4

\* A peer that is verified as forked is on another branch since the common height.
LEMMA ForkedIsElsewhere ==
  ASSUME Health!HealthAssumption, HealthTyped, NEW p \in Health!Known, known[p].result # Nothing,
         Health!Forked(known[p].result)
  PROVE  /\ ForkAt[p] # Nothing /\ known[p].result.common = ForkAt[p]
         /\ ForkAt[p] \in 1..TopHeight /\ known[p].result.common < known[p].result.my
<1> DEFINE my == known[p].result.my
           his == known[p].result.his
<1>1. /\ p \in HealthPeers /\ my \in 1..TopHeight /\ his \in 1..TopHeight
      /\ known[p].result.common = CommonHeight(p, my, his)
  BY LearntOf
<1>2. known[p].result.common # my /\ known[p].result.common # his
  BY DEF Health!Forked
<1>3. ForkAt[p] \in 1..TopHeight \cup {Nothing} /\ TopHeight \in Nat
  BY <1>1 DEF Health!HealthAssumption
<1> HIDE DEF my, his
<1>4. Health!Lesser(my, his) \in {my, his} /\ Health!Lesser(my, his) <= my
  BY <1>1, <1>3 DEF Health!Lesser
<1>5. ForkAt[p] # Nothing
  BY <1>1, <1>2, <1>4 DEF CommonHeight
<1>6. CommonHeight(p, my, his) = Health!Lesser(ForkAt[p], Health!Lesser(my, his))
  BY <1>5 DEF CommonHeight
<1>7. ForkAt[p] < Health!Lesser(my, his) /\ CommonHeight(p, my, his) = ForkAt[p]
  BY <1>1, <1>2, <1>3, <1>4, <1>5, <1>6 DEF Health!Lesser
<1> QED
  BY <1>1, <1>3, <1>4, <1>5, <1>7 DEF my

\* No more heights come before one than there are.
LEMMA TextRankBounds ==
  ASSUME Health!HealthAssumption
  PROVE  \A n : Health!TextRank(n) \in 0..TopHeight
<1> SUFFICES ASSUME NEW n PROVE Health!TextRank(n) \in 0..TopHeight
  OBVIOUS
<1> DEFINE S == {m \in 1..TopHeight : Health!TextBefore(m, n)}
<1>1. TopHeight \in Nat
  BY DEF Health!HealthAssumption
<1>2. Health!TextRank(n) = Cardinality(S)
  BY HealthFiniteSets DEF Health!TextRank
<1>3. S \subseteq 1..TopHeight
  OBVIOUS
<1> HIDE DEF S
<1>4. IsFiniteSet(1..TopHeight) /\ Cardinality(1..TopHeight) = IF 1 > TopHeight THEN 0 ELSE TopHeight - 1 + 1
  BY <1>1, FS_Interval
<1>5. IsFiniteSet(S) /\ Cardinality(S) <= Cardinality(1..TopHeight)
  BY <1>3, <1>4, FS_Subset
<1>6. Cardinality(S) \in Nat
  BY <1>5, FS_CardinalityType
<1> QED
  BY <1>1, <1>2, <1>4, <1>5, <1>6

\* Of some heights, one is the last as a text.
LEMMA LastAsText ==
  ASSUME Health!HealthAssumption, NEW S \in SUBSET (1..TopHeight), S # {}
  PROVE  \E h \in S : \A k \in S : Health!TextRank(k) <= Health!TextRank(h)
<1> DEFINE R == {TopHeight - Health!TextRank(k) : k \in S}
<1>1. TopHeight \in Nat /\ \A k \in S : Health!TextRank(k) \in 0..TopHeight
  BY TextRankBounds DEF Health!HealthAssumption
<1>2. R \in SUBSET Nat /\ R # {}
  <2>1. \A k \in S : TopHeight - Health!TextRank(k) \in Nat
    BY <1>1
  <2> QED BY <2>1
<1>3. PICK n \in R : \A m \in R : n <= m
  <2> HIDE DEF R
  <2> QED BY <1>2, NatMin
<1>4. PICK h \in S : n = TopHeight - Health!TextRank(h)
  BY <1>3
<1>5. ASSUME NEW k \in S PROVE Health!TextRank(k) <= Health!TextRank(h)
  <2>1. n <= TopHeight - Health!TextRank(k)
    BY <1>3, <1>5
  <2> HIDE DEF R
  <2> QED BY <1>1, <1>4, <2>1
<1> QED
  BY <1>5

\* What the check of the network's health may say.
StatusOk(s) ==
  s.forked =>
    /\ Health!Cardinality(s.by) > 1
    /\ \A p \in s.by : ForkAt[p] = s.at
    /\ ~s.shrank => s.rollback \in 1..MaxRollback /\ s.height - s.rollback >= s.at

LEMMA StatusIsOk ==
  ASSUME Health!HealthAssumption, HealthTyped, HealthFresh, Health!Cleansed("health")
  PROVE  StatusOk(Health!NetworkStatus)
<1> DEFINE forks == {h \in Health!ForkHeights : Health!Outvoted(h)}
           at == CHOOSE h \in forks : \A k \in forks : Health!TextRank(k) <= Health!TextRank(h)
           by == Health!Forkers(at)
<1>1. CASE forks = {}
  BY <1>1 DEF Health!NetworkStatus, Health!Healthy, StatusOk
<1>2. CASE forks # {}
  <2>1. Health!NetworkStatus =
          [forked |-> TRUE, at |-> at,
           rollback |-> Health!Lesser(healthOurs.height - at, MaxRollback),
           height |-> healthOurs.height, by |-> by, shrank |-> healthOurs.shrank]
    BY <1>2 DEF Health!NetworkStatus
  <2>2. at \in forks
    <3>1. forks \in SUBSET (1..TopHeight)
      BY DEF Health!ForkHeights
    <3>2. \E h \in forks : \A k \in forks : Health!TextRank(k) <= Health!TextRank(h)
      <4> HIDE DEF forks
      <4> QED BY <1>2, <3>1, LastAsText
    <3> HIDE DEF forks
    <3> QED BY <3>2
  <2> HIDE DEF at
  <2>3. at \in 1..TopHeight /\ by # {} /\ Health!Outvoted(at)
    BY <2>2 DEF Health!ForkHeights
  <2>4. by \subseteq HealthPeers /\ IsFiniteSet(HealthPeers)
    BY HealthFiniteSets DEF Health!Forkers, Health!VerifiedPeers, Health!Known, Health!HealthAssumption
  <2>5. ASSUME NEW p \in by
        PROVE  /\ ForkAt[p] = at
               /\ ~healthOurs.shrank => at < healthOurs.height
    <3>1. /\ p \in Health!Known /\ known[p].result # Nothing
          /\ Health!Forked(known[p].result) /\ known[p].result.common = at
      BY DEF Health!Forkers, Health!VerifiedPeers
    <3>2. ForkAt[p] = at /\ at < known[p].result.my
      BY <3>1, ForkedIsElsewhere
    <3>3. ~healthOurs.shrank => known[p].result.my <= healthOurs.height
      BY <3>1 DEF HealthFresh, Health!Cleansed, Health!NotPinged, Health!Known
    <3>4. known[p].result.my \in Int
      BY <3>1, LearntOf
    <3>5. healthOurs.height \in Int
      BY DEF HealthTyped
    <3> QED
      BY <2>3, <3>2, <3>3, <3>4, <3>5
  <2>6. Health!Cardinality(by) > 1
    <3> DEFINE with == {p \in Health!VerifiedPeers : known[p].result.common > at}
    <3>1. with \subseteq HealthPeers
      BY DEF Health!VerifiedPeers, Health!Known
    <3>2. Cardinality(with) \in Nat /\ Cardinality(by) \in Nat
      <4> HIDE DEF with, by
      <4> QED BY <2>4, <3>1, FS_Subset, FS_CardinalityType
    <3>3. Health!Cardinality(by) > Health!Cardinality(with) + 1
      BY <2>3 DEF Health!Outvoted, Health!WithUs
    <3> HIDE DEF with, by
    <3> QED
      BY <3>2, <3>3, HealthFiniteSets
  <2>7. ASSUME ~healthOurs.shrank
        PROVE  LET n == Health!Lesser(healthOurs.height - at, MaxRollback)
               IN  n \in 1..MaxRollback /\ healthOurs.height - n >= at
    <3>1. at < healthOurs.height
      BY <2>3, <2>5, <2>7
    <3>2. healthOurs.height \in Int /\ MaxRollback \in Nat \ {0} /\ at \in Int
      BY <2>3 DEF HealthTyped, Health!HealthAssumption
    <3> QED
      BY <3>1, <3>2 DEF Health!Lesser
  <2> HIDE DEF by
  <2> QED
    BY <2>1, <2>5, <2>6, <2>7 DEF StatusOk
<1> QED
  BY <1>1, <1>2

\* What the network's state may say.
StateOk(s) ==
  /\ s.agree \cap s.over = {}
  /\ \A p \in s.of \ (s.agree \cup s.over) : ForkAt[p] # Nothing
  /\ s.status = "default" => Health!Cardinality(s.of) >= Reach

LEMMA StateIsOk ==
  ASSUME Health!HealthAssumption, HealthTyped
  PROVE  StateOk([status |-> IF monitor.cold THEN "cold start"
                             ELSE IF Health!Cardinality(Health!Known) < Reach
                                  THEN "below minimum peers" ELSE "default",
                  height |-> healthOurs.height, agree |-> Health!Quorum,
                  over |-> Health!OverHeight, of |-> Health!Known])
<1>1. Health!Quorum \cap Health!OverHeight = {}
  BY DEF Health!Quorum
<1>2. ASSUME NEW p \in Health!Known \ (Health!Quorum \cup Health!OverHeight)
      PROVE  ForkAt[p] # Nothing
  <2>1. Health!IsForked(p)
    BY <1>2 DEF Health!Quorum
  <2> QED
    BY <2>1, ForkedIsElsewhere DEF Health!IsForked
<1>3. Health!Cardinality(Health!Known) \in Nat
  <2>1. Health!Known \subseteq HealthPeers /\ IsFiniteSet(HealthPeers)
    BY HealthFiniteSets DEF Health!Known, Health!HealthAssumption
  <2> QED
    BY <2>1, HealthFiniteSets, FS_Subset, FS_CardinalityType
<1>4. Reach \in Nat
  BY DEF Health!HealthAssumption
<1> QED
  BY <1>1, <1>2, <1>3, <1>4 DEF StateOk

LEMMA HealthInit ==
  ASSUME Health!HealthAssumption, Health!Init
  PROVE  HealthInv
<1>1. HealthTyped
  <2>1. PICK accepted \in SUBSET HealthPeers :
          known = [p \in HealthPeers |-> IF p \in accepted THEN Health!Unpinged ELSE Nothing]
    BY DEF Health!Init
  <2>2. /\ known = [p \in HealthPeers |-> known[p]]
        /\ \A p \in HealthPeers : known[p] \in {Nothing, Health!Unpinged} \cup Learnt(p)
    BY <2>1
  <2>3. /\ healthOurs \in [height : 1..TopHeight, shrank : BOOLEAN]
        /\ theirs \in [HealthPeers -> 1..TopHeight]
    BY DEF Health!Init, Health!HealthAssumption
  <2>4. /\ healthPings \in [Health!Call -> [HealthPeers -> HealthPing]]
        /\ \A c \in Health!Call, p \in HealthPeers : healthPings[c][p].phase = "none"
    BY DEF Health!Init, Health!NotPinged, HealthPing
  <2>5. calls \in [Health!Call -> [made : Nat, runs : BOOLEAN]]
    BY DEF Health!Init
  <2>6. \E cold, state, health : monitor = [cold |-> cold, state |-> state, health |-> health]
    BY DEF Health!Init
  <2> QED
    BY <2>2, <2>3, <2>4, <2>5, <2>6 DEF HealthTyped
<1>2. HealthFresh
  BY DEF HealthFresh, Health!Init, Health!Call
<1>3. Health!QuorumIsOurs /\ Health!RollsBackToFork
  BY DEF Health!QuorumIsOurs, Health!RollsBackToFork, Health!Init, Health!Healthy
<1> QED
  BY <1>1, <1>2, <1>3 DEF HealthInv

\* What happens without either check's result.
LEMMA SayingNothing ==
  ASSUME HealthInv, HealthTyped', HealthFresh', UNCHANGED monitor
  PROVE  HealthInv'
  BY DEF HealthInv, Health!QuorumIsOurs, Health!RollsBackToFork

\* A ping goes on: what the node knows of its peer is what was known, nothing,
\* or what the ping has learnt now.
LEMMA PingedStep ==
  ASSUME Health!HealthAssumption, HealthTyped, HealthFresh, NEW c \in Health!Call, NEW p \in HealthPeers,
         UNCHANGED <<healthOurs, theirs, calls, monitor>>,
         NEW x \in HealthPing, x.phase = "answered" => x.height \in 1..TopHeight,
         healthPings' = [healthPings EXCEPT ![c][p] = x],
         NEW k \in {known[p], Nothing} \cup Learnt(p),
         known' = [known EXCEPT ![p] = k],
         \/ k = known[p] /\ x.phase # "none"
         \/ k = Nothing
         \/ k \in Learnt(p) /\ k.result.my <= healthOurs.height
  PROVE  HealthTyped' /\ HealthFresh'
<1>1. healthPings' \in [Health!Call -> [HealthPeers -> HealthPing]]
  BY DEF HealthTyped
<1>2. \A d \in Health!Call, q \in HealthPeers :
        healthPings'[d][q] = IF d = c /\ q = p THEN x ELSE healthPings[d][q]
  BY DEF HealthTyped
<1>3. \A q \in HealthPeers : known'[q] = IF q = p THEN k ELSE known[q]
  BY DEF HealthTyped
<1>4. known' = [q \in HealthPeers |-> known'[q]]
  BY DEF HealthTyped
<1>5. HealthTyped'
  BY <1>1, <1>2, <1>3, <1>4 DEF HealthTyped
<1>6. HealthFresh'
  <2> SUFFICES ASSUME calls["health"].runs, ~healthOurs.shrank, NEW q \in HealthPeers,
                      known'[q] # Nothing, known'[q].result # Nothing,
                      healthPings'["health"][q].phase = "none"
               PROVE  known'[q].result.my <= healthOurs.height
    BY DEF HealthFresh, Health!Known
  <2>1. CASE q # p
    BY <1>2, <1>3, <2>1 DEF HealthFresh, Health!Known, Health!Call
  <2>2. CASE q = p /\ k \in Learnt(p) /\ k.result.my <= healthOurs.height
    BY <1>3, <2>2
  <2>3. CASE q = p /\ k = known[p] /\ x.phase # "none"
    BY <1>2, <1>3, <2>3 DEF HealthFresh, Health!Known, Health!Call
  <2> QED
    BY <1>3, <2>1, <2>2, <2>3
<1> QED
  BY <1>5, <1>6

LEMMA HealthPings ==
  ASSUME Health!HealthAssumption, HealthInv, NEW c \in Health!Call, NEW p \in HealthPeers,
         Health!Answered(c, p) \/ Health!Verified(c, p) \/ Health!PingFails(c, p)
  PROVE  HealthInv'
<1> USE DEF HealthInv
<1>1. Health!NotPinged \in HealthPing /\ Health!NotPinged.phase = "none"
  BY DEF Health!NotPinged, HealthPing
<1>2. known = [known EXCEPT ![p] = known[p]]
  BY DEF HealthTyped
<1>3. CASE Health!Answered(c, p)
  <2> DEFINE x == [phase |-> "answered", height |-> theirs[p]]
  <2>1. x \in HealthPing /\ x.height \in 1..TopHeight /\ x.phase # "none"
    BY DEF HealthPing, HealthTyped
  <2>2. /\ healthPings' = [healthPings EXCEPT ![c][p] = x]
        /\ UNCHANGED <<healthOurs, theirs, known, calls, monitor>>
    BY <1>3 DEF Health!Answered
  <2> HIDE DEF x
  <2>3. HealthTyped' /\ HealthFresh'
    BY <1>2, <2>1, <2>2, PingedStep
  <2> QED
    BY <2>2, <2>3, SayingNothing
<1>4. CASE Health!Verified(c, p)
  <2> DEFINE k == IF known[p] = Nothing THEN Nothing
                  ELSE [height |-> healthPings[c][p].height,
                        result |-> Health!CheckState(p, healthPings[c][p].height)]
  <2>1. /\ healthPings' = [healthPings EXCEPT ![c][p] = Health!NotPinged]
        /\ known' = [known EXCEPT ![p] = k]
        /\ UNCHANGED <<healthOurs, theirs, calls, monitor>>
    BY <1>4 DEF Health!Verified
  <2>2. healthPings[c][p].height \in 1..TopHeight /\ healthOurs.height \in 1..TopHeight
    BY <1>4 DEF Health!Verified, HealthTyped
  <2>3. k = Nothing \/ (k \in Learnt(p) /\ k.result.my <= healthOurs.height)
    BY <2>2 DEF Health!CheckState, Learnt, CommonHeight
  <2> HIDE DEF k
  <2>4. HealthTyped' /\ HealthFresh'
    BY <1>1, <2>1, <2>3, PingedStep
  <2> QED
    BY <2>1, <2>4, SayingNothing
<1>5. CASE Health!PingFails(c, p)
  <2>1. /\ healthPings' = [healthPings EXCEPT ![c][p] = Health!NotPinged]
        /\ known' = [known EXCEPT ![p] = Nothing]
        /\ UNCHANGED <<healthOurs, theirs, calls, monitor>>
    BY <1>5 DEF Health!PingFails
  <2>2. HealthTyped' /\ HealthFresh'
    BY <1>1, <2>1, PingedStep
  <2> QED
    BY <2>1, <2>2, SayingNothing
<1> QED
  BY <1>3, <1>4, <1>5

LEMMA HealthStarts ==
  ASSUME Health!HealthAssumption, HealthInv, NEW c \in Health!Call, Health!StartCall(c)
  PROVE  HealthInv'
<1> USE DEF HealthInv
<1>1. UNCHANGED <<theirs, known, monitor>>
  BY DEF Health!StartCall
<1>2. \A d \in Health!Call :
        healthPings'[d] = IF d = c THEN [p \in HealthPeers |->
            IF p \in Health!Known THEN [phase |-> "asked", height |-> Nothing] ELSE Health!NotPinged]
          ELSE healthPings[d]
  BY DEF Health!StartCall, HealthTyped, Health!NotPinged
<1>3. healthPings' = [d \in Health!Call |-> healthPings'[d]]
  BY DEF Health!StartCall, HealthTyped
<1>4. /\ healthPings' \in [Health!Call -> [HealthPeers -> HealthPing]]
      /\ \A d \in Health!Call, p \in HealthPeers :
           healthPings'[d][p].phase = "answered" => healthPings'[d][p].height \in 1..TopHeight
  <2>1. ASSUME NEW d \in Health!Call, NEW p \in HealthPeers
        PROVE  /\ healthPings'[d][p] \in HealthPing
               /\ healthPings'[d][p].phase = "answered" => healthPings'[d][p].height \in 1..TopHeight
    <3>1. CASE d = c
      <4>1. healthPings'[d][p] \in {[phase |-> "asked", height |-> Nothing], Health!NotPinged}
        BY <1>2, <3>1
      <4> QED BY <4>1 DEF HealthPing, Health!NotPinged
    <3>2. CASE d # c
      <4>1. healthPings'[d][p] = healthPings[d][p]
        BY <1>2, <3>2
      <4> QED BY <4>1 DEF HealthTyped
    <3> QED BY <3>1, <3>2
  <2>2. \A d \in Health!Call : healthPings'[d] = [p \in HealthPeers |-> healthPings'[d][p]]
    BY <1>2 DEF HealthTyped
  <2> QED
    BY <1>3, <2>1, <2>2
<1>5. calls' \in [Health!Call -> [made : Nat, runs : BOOLEAN]]
  BY DEF Health!StartCall, HealthTyped
<1>6. healthOurs' \in [height : 1..TopHeight, shrank : BOOLEAN] /\ healthOurs'.height = healthOurs.height
  BY DEF Health!StartCall, HealthTyped
<1>7. HealthTyped'
  BY <1>1, <1>4, <1>5, <1>6 DEF HealthTyped
<1>8. HealthFresh'
  <2>1. CASE c = "health"
    <3>1. ASSUME NEW p \in HealthPeers, p \in Health!Known
          PROVE  healthPings'["health"][p].phase = "asked"
      <4>1. healthPings'["health"][p] = [phase |-> "asked", height |-> Nothing]
        BY <1>2, <2>1, <3>1
      <4> QED BY <4>1
    <3> QED
      BY <1>1, <3>1 DEF HealthFresh, Health!Known
  <2>2. CASE c # "health"
    <3>1. healthPings'["health"] = healthPings["health"] /\ healthOurs' = healthOurs
      BY <1>2, <2>2 DEF Health!StartCall, Health!Call
    <3>2. calls'["health"] = calls["health"]
      BY <2>2 DEF Health!StartCall, HealthTyped, Health!Call
    <3> QED
      BY <1>1, <3>1, <3>2 DEF HealthFresh, Health!Known
  <2> QED
    BY <2>1, <2>2
<1> QED
  BY <1>1, <1>7, <1>8, SayingNothing

LEMMA HealthConcludes ==
  ASSUME Health!HealthAssumption, HealthInv, Health!GetNetworkState \/ Health!CheckNetworkHealth
  PROVE  HealthInv'
<1> USE DEF HealthInv
<1> UNCHANGED <<healthOurs, theirs, known, healthPings>>
  BY DEF Health!GetNetworkState, Health!CheckNetworkHealth
<1>1. /\ calls' \in [Health!Call -> [made : Nat, runs : BOOLEAN]]
      /\ calls'["health"].runs => calls["health"].runs
  <2>1. \A c \in Health!Call : calls[c].made \in Nat /\ calls[c].runs \in BOOLEAN
    BY DEF HealthTyped
  <2>2. PICK c \in Health!Call : calls' = [calls EXCEPT ![c] = [calls[c] EXCEPT !.runs = FALSE]]
    BY DEF Health!GetNetworkState, Health!CheckNetworkHealth, Health!Ends, Health!Call
  <2>3. \A d \in Health!Call :
          calls'[d] = IF d = c THEN [calls[c] EXCEPT !.runs = FALSE] ELSE calls[d]
    BY <2>2 DEF HealthTyped
  <2>4. calls[c] \in [made : Nat, runs : BOOLEAN]
    BY DEF HealthTyped
  <2>5. /\ [calls[c] EXCEPT !.runs = FALSE] \in [made : Nat, runs : BOOLEAN]
        /\ ~[calls[c] EXCEPT !.runs = FALSE].runs
    BY <2>4
  <2>6. calls' \in [Health!Call -> [made : Nat, runs : BOOLEAN]]
    BY <2>2, <2>5 DEF HealthTyped
  <2>7. calls'["health"].runs => calls["health"].runs
    BY <2>3, <2>5 DEF Health!Call
  <2> QED
    BY <2>6, <2>7
<1>2. PICK cold, state, health : monitor = [cold |-> cold, state |-> state, health |-> health]
  BY DEF HealthTyped
<1>3. HealthFresh'
  BY <1>1 DEF HealthFresh, Health!Known
<1>4. CASE Health!GetNetworkState
  <2> DEFINE s == [status |-> IF monitor.cold THEN "cold start"
                              ELSE IF Health!Cardinality(Health!Known) < Reach
                                   THEN "below minimum peers" ELSE "default",
                   height |-> healthOurs.height, agree |-> Health!Quorum,
                   over |-> Health!OverHeight, of |-> Health!Known]
  <2>1. monitor' = [monitor EXCEPT !.cold = FALSE, !.state = s]
    BY <1>4 DEF Health!GetNetworkState
  <2>2. StateOk(s)
    BY StateIsOk
  <2> HIDE DEF s
  <2>3. monitor' = [cold |-> FALSE, state |-> s, health |-> health]
    BY <1>2, <2>1
  <2>4. HealthTyped'
    BY <1>1, <2>3 DEF HealthTyped
  <2>5. Health!QuorumIsOurs'
    BY <2>2, <2>3 DEF StateOk, Health!QuorumIsOurs
  <2>6. Health!RollsBackToFork'
    <3>1. monitor'.health = monitor.health
      BY <1>2, <2>3
    <3> QED
      BY <3>1 DEF Health!RollsBackToFork
  <2> QED
    BY <1>3, <2>4, <2>5, <2>6
<1>5. CASE Health!CheckNetworkHealth
  <2> DEFINE s == Health!NetworkStatus
  <2>1. monitor' = [monitor EXCEPT !.health = s]
    BY <1>5 DEF Health!CheckNetworkHealth
  <2>2. StatusOk(s)
    BY <1>5, StatusIsOk DEF Health!CheckNetworkHealth
  <2> HIDE DEF s
  <2>3. monitor' = [cold |-> cold, state |-> state, health |-> s]
    BY <1>2, <2>1
  <2>4. HealthTyped'
    BY <1>1, <2>3 DEF HealthTyped
  <2>5. Health!QuorumIsOurs'
    <3>1. monitor'.state = monitor.state
      BY <1>2, <2>3
    <3> QED
      BY <3>1 DEF Health!QuorumIsOurs
  <2>6. Health!RollsBackToFork'
    BY <2>2, <2>3 DEF StatusOk, Health!RollsBackToFork
  <2> QED
    BY <1>3, <2>4, <2>5, <2>6
<1> QED
  BY <1>4, <1>5

LEMMA HealthMoves ==
  ASSUME Health!HealthAssumption, HealthInv,
         Health!Grow \/ Health!Revert \/ \E p \in HealthPeers : Health!PeerGrows(p)
  PROVE  HealthInv'
<1> USE DEF HealthInv
<1>1. UNCHANGED <<known, healthPings, calls, monitor>>
  BY DEF Health!Grow, Health!Revert, Health!PeerGrows
<1>2. theirs' \in [HealthPeers -> 1..TopHeight]
  <2>1. CASE UNCHANGED theirs
    BY <2>1 DEF HealthTyped
  <2>2. ASSUME NEW p \in HealthPeers, Health!PeerGrows(p)
        PROVE  theirs' \in [HealthPeers -> 1..TopHeight]
    <3>1. theirs[p] + 1 \in 1..TopHeight
      <4>1. theirs[p] \in 1..TopHeight
        BY DEF HealthTyped
      <4>2. theirs[p] < TopHeight
        BY <2>2 DEF Health!PeerGrows
      <4>3. TopHeight \in Int
        BY DEF Health!HealthAssumption
      <4> QED BY <4>1, <4>2, <4>3
    <3> QED
      BY <2>2, <3>1 DEF Health!PeerGrows, HealthTyped
  <2> QED
    BY <2>1, <2>2 DEF Health!Grow, Health!Revert
<1>3. /\ healthOurs' \in [height : 1..TopHeight, shrank : BOOLEAN]
      /\ ~healthOurs'.shrank => ~healthOurs.shrank /\ healthOurs'.height >= healthOurs.height
  <2>1. healthOurs \in [height : 1..TopHeight, shrank : BOOLEAN] /\ healthOurs.height \in 1..TopHeight
    BY DEF HealthTyped
  <2>2. TopHeight \in Int /\ OurStart \in 1..TopHeight
    BY DEF Health!HealthAssumption
  <2>3. CASE Health!Grow
    BY <2>1, <2>2, <2>3 DEF Health!Grow
  <2>4. CASE Health!Revert
    BY <2>1, <2>2, <2>4 DEF Health!Revert
  <2>5. CASE \E p \in HealthPeers : Health!PeerGrows(p)
    BY <2>1, <2>5 DEF Health!PeerGrows
  <2> QED
    BY <2>3, <2>4, <2>5
<1>4. HealthTyped'
  BY <1>1, <1>2, <1>3 DEF HealthTyped
<1>5. HealthFresh'
  <2> SUFFICES ASSUME calls["health"].runs, ~healthOurs'.shrank, NEW p \in Health!Known,
                      known[p].result # Nothing, healthPings["health"][p].phase = "none"
               PROVE  known[p].result.my <= healthOurs'.height
    BY <1>1 DEF HealthFresh, Health!Known
  <2>1. known[p].result.my <= healthOurs.height
    BY <1>3 DEF HealthFresh
  <2>2. known[p].result.my \in Int
    BY LearntOf
  <2>3. healthOurs.height \in Int /\ healthOurs'.height \in Int
    BY <1>4 DEF HealthTyped
  <2> QED
    BY <1>3, <2>1, <2>2, <2>3
<1> QED
  BY <1>1, <1>4, <1>5, SayingNothing

LEMMA HealthNext ==
  ASSUME Health!HealthAssumption, HealthInv, [Health!Next]_(Health!vars)
  PROVE  HealthInv'
<1>1. CASE UNCHANGED Health!vars
  <2>1. UNCHANGED <<healthOurs, theirs, known, healthPings, calls, monitor>>
    BY <1>1 DEF Health!vars
  <2> QED
    BY <2>1 DEF HealthInv, HealthTyped, HealthFresh, Health!Known, Health!QuorumIsOurs,
       Health!RollsBackToFork
<1>2. CASE Health!Next
  BY <1>2, HealthPings, HealthStarts, HealthConcludes, HealthMoves DEF Health!Next
<1> QED
  BY <1>1, <1>2

\* What is known of a peer comes from one answer of it, a peer on our chain is
\* never counted as forked, and blocks are rolled back only to a fork that more
\* peers are of than agree with us (NetworkMonitor.checkNetworkHealth), for any
\* peers, forks and heights; and a peer is pending exactly while its
\* verification runs (PeerProcessor).
THEOREM PeersStayKnown ==
  ASSUME Known!PeersAssumption, Health!HealthAssumption
  PROVE  Known!Spec /\ Health!Spec => []PeersKnown
<1>1. Known!Spec => []PendingIsVerified
  BY PendingAreVerified
<1>2. Health!Init => HealthInv
  BY HealthInit
<1>3. HealthInv /\ [Health!Next]_(Health!vars) => HealthInv'
  BY HealthNext
<1>4. HealthInv => HealthIsTrue
  <2> SUFFICES ASSUME HealthInv PROVE Health!StateIsVerified
    BY DEF HealthInv, HealthIsTrue
  <2> QED
    BY LearntOf DEF HealthInv, Health!StateIsVerified
<1>5. PendingIsVerified /\ HealthIsTrue => PeersKnown
  BY DEF PeersKnown
<1> QED
  BY <1>1, <1>2, <1>3, <1>4, <1>5, PTL DEF Health!Spec

-----------------------------------------------------------------------------
(* The search for the highest element *)

\* A set of integers with a bound has a least, or a greatest, member.
LEMMA Least ==
  ASSUME NEW S \in SUBSET Int, S # {}, NEW low \in Int, \A x \in S : low <= x
  PROVE  \E m \in S : \A x \in S : m <= x
<1> DEFINE T == {x - low : x \in S}
<1>1. T \in SUBSET Nat /\ T # {}
  <2>1. \A x \in S : x - low \in Nat /\ x - low \in T
    OBVIOUS
  <2> QED BY <2>1
<1>2. PICK t \in T : \A u \in T : t <= u
  <2> HIDE DEF T
  <2> QED BY <1>1, NatMin
<1>3. PICK m \in S : t = m - low
  BY <1>2
<1>4. \A x \in S : m - low <= x - low
  BY <1>2, <1>3
<1> QED BY <1>3, <1>4

LEMMA Greatest ==
  ASSUME NEW S \in SUBSET Int, S # {}, NEW high \in Int, \A x \in S : x <= high
  PROVE  \E m \in S : \A x \in S : x <= m
<1> DEFINE T == {high - x : x \in S}
<1>1. T \in SUBSET Nat /\ T # {}
  <2>1. \A x \in S : high - x \in Nat /\ high - x \in T
    OBVIOUS
  <2> QED BY <2>1
<1>2. PICK t \in T : \A u \in T : t <= u
  <2> HIDE DEF T
  <2> QED BY <1>1, NatMin
<1>3. PICK m \in S : t = high - m
  BY <1>2
<1>4. \A x \in S : high - m <= high - x
  BY <1>2, <1>3
<1> QED BY <1>3, <1>4

\* The i-th of the n + 1 places that cut a range of d + 1 elements in n parts.
Cut(n, d, i) == (2 * (d * i) + n) \div (2 * n)

Cuts(n, low, high) == {low + Cut(n, high - low, i) : i \in 0..n}

LEMMA Quotient ==
  ASSUME NEW a \in Nat, NEW b \in Nat \ {0}
  PROVE  a \div b \in Nat /\ b * (a \div b) <= a /\ a < b * (a \div b) + b
OBVIOUS

LEMMA CutIs ==
  ASSUME NEW n \in Nat \ {0}, NEW d \in Nat, NEW i \in Nat
  PROVE  /\ Cut(n, d, i) \in Nat
         /\ 2 * (n * Cut(n, d, i)) <= 2 * (d * i) + n
         /\ 2 * (d * i) + n < 2 * (n * Cut(n, d, i)) + 2 * n
<1> DEFINE a == 2 * (d * i) + n
           q == a \div (2 * n)
<1>1. d * i \in Nat
  OBVIOUS
<1>2. a \in Nat /\ 2 * n \in Nat \ {0}
  BY <1>1
<1>3. q \in Nat /\ (2 * n) * q <= a /\ a < (2 * n) * q + 2 * n
  <2> HIDE DEF a
  <2> QED BY <1>2, Quotient
<1>4. (2 * n) * q = 2 * (n * q)
  <2> HIDE DEF q
  <2> QED BY <1>3
<1>5. q = Cut(n, d, i)
  BY DEF Cut
<1> HIDE DEF q
<1> QED BY <1>3, <1>4, <1>5

LEMMA Smaller ==
  ASSUME NEW n \in Nat \ {0}, NEW a \in Int, NEW b \in Int, n * a < n * b + n
  PROVE  a <= b
<1>1. SUFFICES ASSUME a >= b + 1 PROVE FALSE
  OBVIOUS
<1>2. n * (a - (b + 1)) >= 0
  BY <1>1
<1>3. n * (a - (b + 1)) = n * a - (n * b + n)
  OBVIOUS
<1> QED BY <1>2, <1>3

\* The first place is the lowest element, the last one the highest, and the
\* place that follows an element is less than a part of the range above it.
LEMMA CutsOf ==
  ASSUME NEW n \in Nat \ {0}, NEW low \in Int, NEW high \in Int, low <= high
  PROVE  /\ Cuts(n, low, high) \subseteq low..high
         /\ low \in Cuts(n, low, high) /\ high \in Cuts(n, low, high)
         /\ \A a \in low..high - 1 :
              \E b \in Cuts(n, low, high) : a < b /\ n * (b - a - 1) < high - low
<1> DEFINE d == high - low
<1>0. d \in Nat /\ high = low + d
  OBVIOUS
<1> HIDE DEF d
<1>1. Cuts(n, low, high) = {low + Cut(n, d, i) : i \in 0..n}
  BY DEF Cuts, d
<1>2. ASSUME NEW i \in 0..n PROVE Cut(n, d, i) \in 0..d
  <2>1. d * i <= n * d
    <3>1. d * (n - i) >= 0
      BY <1>0
    <3>2. d * (n - i) = n * d - d * i
      BY <1>0
    <3> QED BY <3>1, <3>2, <1>0
  <2>2. n * Cut(n, d, i) < n * d + n
    <3> DEFINE x == d * i
               y == n * Cut(n, d, i)
               z == n * d
    <3>1. Cut(n, d, i) \in Nat /\ 2 * y <= 2 * x + n
      BY CutIs, <1>0
    <3>2. x \in Int /\ y \in Int /\ z \in Int /\ x <= z
      BY <2>1, <3>1, <1>0
    <3> HIDE DEF x, y, z
    <3>3. y < z + n
      BY <3>1, <3>2
    <3> QED BY <3>3 DEF y, z
  <2>3. Cut(n, d, i) \in Nat
    BY CutIs, <1>0
  <2>4. Cut(n, d, i) <= d
    BY <2>2, <2>3, <1>0, Smaller
  <2> QED BY <2>3, <2>4, <1>0
<1>3. Cut(n, d, 0) = 0
  <2>1. Cut(n, d, 0) \in Nat /\ 2 * (n * Cut(n, d, 0)) <= 2 * (d * 0) + n
    BY CutIs, <1>0
  <2>2. n * Cut(n, d, 0) < n * 0 + n
    BY <2>1, <1>0
  <2>3. Cut(n, d, 0) <= 0
    BY <2>1, <2>2, Smaller
  <2> QED BY <2>1, <2>3
<1>4. Cut(n, d, n) = d
  <2>1. Cut(n, d, n) \in 0..d
    BY <1>2
  <2>2. 2 * (d * n) + n < 2 * (n * Cut(n, d, n)) + 2 * n
    BY CutIs, <1>0
  <2>3. n * d < n * Cut(n, d, n) + n
    BY <2>1, <2>2, <1>0
  <2>4. d <= Cut(n, d, n)
    BY <2>1, <2>3, <1>0, Smaller
  <2> QED BY <2>1, <2>4, <1>0
<1>5. ASSUME NEW a \in low..high - 1
      PROVE  \E b \in Cuts(n, low, high) : a < b /\ n * (b - a - 1) < high - low
  <2> DEFINE u == a - low
             i == (2 * (n * u) + n - 1) \div (2 * d)
  <2>1. u \in Nat /\ u < d /\ d \in Nat \ {0}
    BY <1>0
  <2> HIDE DEF u
  <2>2. 2 * (n * u) + n - 1 \in Nat /\ 2 * d \in Nat \ {0}
    BY <2>1
  <2>3. i \in Nat /\ (2 * d) * i <= 2 * (n * u) + n - 1 /\ 2 * (n * u) + n - 1 < (2 * d) * i + 2 * d
    BY <2>2, Quotient
  <2> HIDE DEF i
  <2>4. (2 * d) * i = 2 * (d * i)
    BY <2>1, <2>3
  <2>5. d * i \in Int /\ n * u \in Int /\ d * (i + 1) = d * i + d
    BY <2>1, <2>3
  <2>6. /\ 2 * (d * i) + n < 2 * (n * u) + 2 * n
        /\ 2 * (n * u) + n <= 2 * (d * (i + 1))
    <3> DEFINE x == d * i
               y == n * u
               z == (2 * d) * i
               w == d * (i + 1)
    <3>1. x \in Int /\ y \in Int /\ z = 2 * x /\ w = x + d
      BY <2>4, <2>5
    <3>2. z <= 2 * y + n - 1 /\ 2 * y + n - 1 < z + 2 * d
      BY <2>3
    <3> HIDE DEF x, y, z, w
    <3>3. 2 * x + n < 2 * y + 2 * n /\ 2 * y + n <= 2 * w
      BY <3>1, <3>2, <2>1
    <3> QED BY <3>3 DEF x, y, w
  <2>7. i < n
    <3>1. SUFFICES ASSUME i >= n PROVE FALSE
      BY <2>3
    <3>2. d * (i - n) >= 0 /\ n * (d - u - 1) >= 0
      BY <3>1, <2>1, <2>3
    <3>3. d * (i - n) = d * i - n * d /\ n * (d - u - 1) = n * d - n * u - n
      BY <2>1, <2>3
    <3>4. n * d \in Int
      BY <2>1
    <3> QED BY <3>2, <3>3, <3>4, <2>5, <2>6
  <2> DEFINE q == Cut(n, d, i + 1)
  <2>8. q \in Nat /\ 2 * (n * q) <= 2 * (d * (i + 1)) + n /\ 2 * (d * (i + 1)) + n < 2 * (n * q) + 2 * n
    BY CutIs, <2>1, <2>3
  <2>9. low + q \in Cuts(n, low, high)
    BY <1>1, <2>3, <2>7
  <2> HIDE DEF q
  <2> DEFINE x == n * u
             y == n * q
             w == d * (i + 1)
  <2>10. x \in Int /\ y \in Int /\ w \in Int /\ n * (u + 1) = x + n /\ n * (q - u - 1) = y - x - n
    BY <2>1, <2>3, <2>8
  <2>11. 2 * y <= 2 * w + n /\ 2 * w + n < 2 * y + 2 * n /\ 2 * x + n <= 2 * w /\ 2 * w < 2 * x + 2 * n + 2 * d - n
    <3> DEFINE v == d * i
    <3>1. v \in Int /\ w = v + d /\ 2 * v + n < 2 * x + 2 * n
      BY <2>5, <2>6
    <3>2. 2 * y <= 2 * w + n /\ 2 * w + n < 2 * y + 2 * n /\ 2 * x + n <= 2 * w
      BY <2>6, <2>8
    <3> HIDE DEF v, x, y, w
    <3> QED BY <3>1, <3>2, <2>1, <2>10
  <2>12. u + 1 <= q
    <3> HIDE DEF x, y, w
    <3>1. x + n < y + n
      BY <2>10, <2>11
    <3>2. n * (u + 1) < n * q + n
      BY <3>1, <2>10 DEF y
    <3> QED BY <3>2, <2>1, <2>8, Smaller
  <2>14. n * (q - u - 1) < d
    <3> HIDE DEF x, y, w
    <3> QED BY <2>1, <2>10, <2>11
  <2>15. (low + q) - a - 1 = q - u - 1 /\ a < low + q
    BY <2>12, <2>1, <2>8 DEF u
  <2>16. d = high - low
    BY <1>0
  <2> QED BY <2>9, <2>14, <2>15, <2>16
<1>6. Cuts(n, low, high) \subseteq low..high
  BY <1>0, <1>1, <1>2
<1>7. low \in Cuts(n, low, high) /\ high \in Cuts(n, low, high)
  BY <1>0, <1>1, <1>3, <1>4
<1> QED BY <1>5, <1>6, <1>7

-----------------------------------------------------------------------------
(* One turn of a search *)

Searches(none) ==
  [first : Int, last : Int, low : Int, high : Int, highest : Int \cup {none}, calls : Nat, ended : BOOLEAN]

\* NSect's After, with the places of Cuts.
Turn(n, none, s, answer) ==
  LET cuts == Cuts(n, s.low, s.high)
      next == Min({p \in cuts : p > answer})
  IN  IF answer = none THEN [s EXCEPT !.ended = TRUE, !.calls = @ + 1]
      ELSE IF s.low + n >= s.high \/ answer = Max(cuts) \/ answer + 1 = next
      THEN [s EXCEPT !.highest = answer, !.ended = TRUE, !.calls = @ + 1]
      ELSE [s EXCEPT !.highest = answer, !.low = answer + 1, !.high = next - 1, !.calls = @ + 1]

LEMMA SearchTurns ==
  /\ \A low, high : Search!Probes(low, high) = Cuts(SearchParts, low, high)
  /\ \A s, answer : Search!After(s, answer) = Turn(SearchParts, Nowhere, s, answer)
<1>1. \A low, high : Search!Probes(low, high) = Cuts(SearchParts, low, high)
  BY DEF Search!Probes, Search!Round, Cuts, Cut
<1>2. /\ \A S : Search!Min(S) = Min(S)
      /\ \A S : Search!Max(S) = Max(S)
  BY DEF Search!Min, Search!Max, Min, Max
<1> QED BY <1>1, <1>2 DEF Search!After, Turn

LEMMA VerifierTurns ==
  /\ \A low, high : Verifier!N!Probes(low, high) = Cuts(Parts, low, high)
  /\ \A s, answer : Verifier!N!After(s, answer) = Turn(Parts, Unknown, s, answer)
<1>1. \A low, high : Verifier!N!Probes(low, high) = Cuts(Parts, low, high)
  BY DEF Verifier!N!Probes, Verifier!N!Round, Cuts, Cut
<1>2. /\ \A S : Verifier!N!Min(S) = Min(S)
      /\ \A S : Verifier!N!Max(S) = Max(S)
  BY DEF Verifier!N!Min, Verifier!N!Max, Min, Max
<1> QED BY <1>1, <1>2 DEF Verifier!N!After, Turn

\* What a turn leaves of a search; the next place is of Cuts.
Turned(n, none, s, answer, t) ==
  /\ t \in Searches(none) /\ t.first = s.first /\ t.last = s.last /\ t.calls = s.calls + 1
  /\ answer = none => t.ended /\ t.highest = s.highest
  /\ answer # none => answer \in s.low..s.high /\ t.highest = answer
  /\ answer = s.high => t.ended
  /\ answer # none /\ answer # s.high =>
       \E next \in Cuts(n, s.low, s.high) :
          /\ answer < next /\ n * (next - answer - 1) < s.high - s.low
          /\ t.ended => next = answer + 1
          /\ ~t.ended => t.low = answer + 1 /\ t.high = next - 1 /\ t.low <= t.high

LEMMA TurnOf ==
  ASSUME NEW n \in Nat \ {0}, NEW none, none \notin Int, NEW s \in Searches(none), s.low <= s.high, ~s.ended,
         NEW answer \in Cuts(n, s.low, s.high) \cup {none}
  PROVE  Turned(n, none, s, answer, Turn(n, none, s, answer))
<1> DEFINE t == Turn(n, none, s, answer)
           cuts == Cuts(n, s.low, s.high)
           next == Min({p \in cuts : p > answer})
<1>1. s.low \in Int /\ s.high \in Int /\ s.calls \in Nat
  BY DEF Searches
<1>2. CASE answer = none
  <2>1. t = [s EXCEPT !.ended = TRUE, !.calls = @ + 1]
    BY <1>2 DEF Turn
  <2> HIDE DEF t
  <2>2. none # s.high
    BY <1>1
  <2>3. /\ t \in Searches(none) /\ t.first = s.first /\ t.last = s.last /\ t.calls = s.calls + 1
        /\ t.ended /\ t.highest = s.highest
    <3>1. s.calls + 1 \in Nat /\ TRUE \in BOOLEAN
      BY <1>1
    <3> QED BY <2>1, <3>1 DEF Searches
  <2>4. Turned(n, none, s, answer, t)
    BY <2>2, <2>3, <1>2 DEF Turned
  <2> QED BY <2>4 DEF t
<1>3. CASE answer # none
  <2>1. cuts \subseteq s.low..s.high /\ s.high \in cuts /\ answer \in cuts
    BY <1>1, <1>3, CutsOf
  <2>2. answer \in s.low..s.high
    BY <2>1
  <2>3. Max(cuts) = s.high
    <3> HIDE DEF cuts
    <3>1. \A x \in cuts : x <= s.high
      BY <2>1
    <3>2. \A m \in cuts : (\A x \in cuts : m >= x) => m = s.high
      BY <2>1, <1>1
    <3>3. Max(cuts) \in cuts /\ \A x \in cuts : Max(cuts) >= x
      <4>1. \E m \in cuts : \A x \in cuts : m >= x
        BY <3>1, <2>1, <1>1
      <4> QED BY <4>1 DEF Max
    <3> QED BY <3>2, <3>3
  <2>4. t = IF s.low + n >= s.high \/ answer = Max(cuts) \/ answer + 1 = next
            THEN [s EXCEPT !.highest = answer, !.ended = TRUE, !.calls = @ + 1]
            ELSE [s EXCEPT !.highest = answer, !.low = answer + 1, !.high = next - 1, !.calls = @ + 1]
    BY <1>3 DEF Turn
  <2>5. CASE answer = s.high
    <3>1. t = [s EXCEPT !.highest = answer, !.ended = TRUE, !.calls = @ + 1]
      BY <2>3, <2>4, <2>5
    <3> HIDE DEF t
    <3>2. /\ t \in Searches(none) /\ t.first = s.first /\ t.last = s.last /\ t.calls = s.calls + 1
          /\ t.ended /\ t.highest = answer
      <4>1. s.calls + 1 \in Nat /\ TRUE \in BOOLEAN /\ answer \in Int
        BY <1>1, <2>2
      <4> QED BY <3>1, <4>1 DEF Searches
    <3>3. Turned(n, none, s, answer, t)
      BY <3>2, <2>2, <2>5, <1>3 DEF Turned
    <3> QED BY <3>3 DEF t
  <2>6. CASE answer # s.high
    <3>1. answer \in s.low..s.high - 1
      BY <2>2, <2>6, <1>1
    <3>2. PICK b \in cuts : answer < b /\ n * (b - answer - 1) < s.high - s.low
      BY <3>1, <1>1, CutsOf
    <3>3. /\ next \in cuts /\ next > answer /\ next <= b
      <4> DEFINE above == {p \in cuts : p > answer}
      <4>1. above \in SUBSET Int /\ b \in above /\ \A x \in above : answer <= x
        BY <2>1, <2>2, <3>2
      <4>2. \E m \in above : \A x \in above : m <= x
        <5> HIDE DEF above
        <5>1. answer \in Int
          BY <2>2
        <5> QED BY <4>1, <5>1, Least
      <4>3. Min(above) \in above /\ \A x \in above : Min(above) <= x
        <5> HIDE DEF above
        <5> QED BY <4>2 DEF Min
      <4>4. Min(above) \in above /\ Min(above) <= b
        BY <4>1, <4>3
      <4> QED BY <4>4
    <3>4. next \in Int /\ b \in Int /\ answer \in Int /\ n \in Nat \ {0}
      BY <3>3, <2>1, <2>2, <3>2
    <3> HIDE DEF next, cuts
    <3>5. n * (next - answer - 1) < s.high - s.low
      <4>1. n * (b - next) >= 0
        BY <3>3, <3>4
      <4>2. n * (b - next) = n * (b - answer - 1) - n * (next - answer - 1)
        BY <3>4
      <4>3. n * (b - answer - 1) \in Int /\ n * (next - answer - 1) \in Int
        BY <3>4
      <4> QED BY <4>1, <4>2, <4>3, <3>2, <1>1
    <3>6. s.low + n >= s.high => answer + 1 = next
      <4>1. SUFFICES ASSUME s.low + n >= s.high PROVE next <= answer + 1
        BY <3>3, <3>4
      <4>2. n * (next - answer - 1) < n * 0 + n
        BY <4>1, <3>5, <3>4, <1>1
      <4>3. next - answer - 1 <= 0
        BY <4>2, <3>4, Smaller
      <4> QED BY <4>3, <3>4
    <3>7. t = IF answer + 1 = next
              THEN [s EXCEPT !.highest = answer, !.ended = TRUE, !.calls = @ + 1]
              ELSE [s EXCEPT !.highest = answer, !.low = answer + 1, !.high = next - 1, !.calls = @ + 1]
      BY <2>3, <2>4, <2>6, <3>6
    <3> HIDE DEF t
    <3>8. /\ t \in Searches(none) /\ t.first = s.first /\ t.last = s.last /\ t.calls = s.calls + 1
          /\ t.highest = answer
      <4>1. CASE answer + 1 = next
        <5>1. t = [s EXCEPT !.highest = answer, !.ended = TRUE, !.calls = @ + 1]
          BY <3>7, <4>1
        <5>2. s.calls + 1 \in Nat /\ TRUE \in BOOLEAN
          BY <1>1
        <5> QED BY <5>1, <5>2, <3>4 DEF Searches
      <4>2. CASE answer + 1 # next
        <5>1. t = [s EXCEPT !.highest = answer, !.low = answer + 1, !.high = next - 1, !.calls = @ + 1]
          BY <3>7, <4>2
        <5>2. answer + 1 \in Int /\ next - 1 \in Int /\ s.calls + 1 \in Nat
          BY <3>4, <1>1
        <5> QED BY <5>1, <5>2, <3>4 DEF Searches
      <4> QED BY <4>1, <4>2
    <3>9. /\ t.ended => next = answer + 1
          /\ ~t.ended => t.low = answer + 1 /\ t.high = next - 1 /\ t.low <= t.high
      BY <3>7, <3>3, <3>4 DEF Searches
    <3>10. Turned(n, none, s, answer, t)
      BY <3>3, <3>5, <3>8, <3>9, <2>2, <2>6, <1>3 DEF Turned, cuts
    <3> QED BY <3>10 DEF t
  <2> QED BY <2>5, <2>6
<1> QED BY <1>2, <1>3

\* What holds of a search between its turns, whatever is answered.
Ranged(none, s) ==
  /\ s \in Searches(none) /\ s.first <= s.last
  /\ s.highest # none => s.highest \in s.first..s.last
  /\ ~s.ended =>
       /\ s.first <= s.low /\ s.low <= s.high /\ s.high <= s.last
       /\ s.highest = none => s.low = s.first /\ s.high = s.last
       /\ s.highest # none => s.highest = s.low - 1

LEMMA TurnRanged ==
  ASSUME NEW n \in Nat \ {0}, NEW none, none \notin Int, NEW s, Ranged(none, s), ~s.ended,
         NEW answer \in Cuts(n, s.low, s.high) \cup {none}
  PROVE  Ranged(none, Turn(n, none, s, answer))
<1> DEFINE t == Turn(n, none, s, answer)
<1>1. s \in Searches(none) /\ s.low <= s.high /\ s.first <= s.low /\ s.high <= s.last
  BY DEF Ranged
<1>2. Turned(n, none, s, answer, t)
  BY <1>1, TurnOf
<1> HIDE DEF t
<1>3. s.low \in Int /\ s.high \in Int /\ s.first \in Int /\ s.last \in Int
  BY <1>1 DEF Searches
<1>4. Cuts(n, s.low, s.high) \subseteq s.low..s.high
  BY <1>1, <1>3, CutsOf
<1>5. t \in Searches(none) /\ t.first = s.first /\ t.last = s.last
  BY <1>2 DEF Turned
<1>6. CASE answer = none
  BY <1>2, <1>5, <1>6 DEF Turned, Ranged, t
<1>7. CASE answer # none
  <2>1. answer \in s.low..s.high /\ t.highest = answer
    BY <1>2, <1>7 DEF Turned
  <2>2. answer \in s.first..s.last
    BY <2>1, <1>1, <1>3
  <2>3. ASSUME ~t.ended
        PROVE  t.low = answer + 1 /\ t.low <= t.high /\ t.high <= s.last
    <3>1. PICK next \in Cuts(n, s.low, s.high) : t.low = answer + 1 /\ t.high = next - 1 /\ t.low <= t.high
      BY <2>3, <1>2, <1>7 DEF Turned
    <3>2. next \in s.low..s.high
      BY <1>4
    <3> QED BY <3>1, <3>2, <1>1, <1>3
  <2>4. ~t.ended => s.first <= t.low /\ t.highest = t.low - 1
    BY <2>1, <2>2, <2>3, <1>1, <1>3
  <2>5. Ranged(none, t)
    BY <2>1, <2>2, <2>3, <2>4, <1>5, <1>1, <1>7 DEF Ranged
  <2> QED BY <2>5 DEF t
<1> QED BY <1>6, <1>7

-----------------------------------------------------------------------------
(* Powers *)

Powers(n, p, k) == p = [i \in 0..k |-> IF i = 0 THEN 1 ELSE n * p[i - 1]]

\* The recursion has a solution, one value of which is a power.
LEMMA PowersExist ==
  ASSUME NEW n \in Nat, NEW k \in Nat
  PROVE  \E p : Powers(n, p, k) /\ p[k] \in Nat
<1> DEFINE Good == {m \in Nat : \E p : Powers(n, p, m) /\ p[m] \in Nat}
<1>1. 0 \in Good
  <2> DEFINE p == [i \in 0..0 |-> 1]
  <2>1. p = [i \in 0..0 |-> IF i = 0 THEN 1 ELSE n * p[i - 1]] /\ p[0] = 1
    OBVIOUS
  <2>2. Powers(n, p, 0) /\ p[0] \in Nat
    BY <2>1 DEF Powers
  <2> HIDE DEF p
  <2> QED BY <2>2
<1>2. ASSUME NEW m \in Nat, m \in Good PROVE m + 1 \in Good
  <2>1. PICK p : Powers(n, p, m) /\ p[m] \in Nat
    BY <1>2
  <2>2. \A i \in 0..m : p[i] = IF i = 0 THEN 1 ELSE n * p[i - 1]
    BY <2>1 DEF Powers
  <2> DEFINE q == [i \in 0..m + 1 |-> IF i = m + 1 THEN n * p[m] ELSE p[i]]
  <2>3. \A i \in 0..m : i \in 0..m + 1 /\ i # m + 1 /\ q[i] = p[i]
    BY <1>2
  <2>4. q[m + 1] = n * p[m]
    BY <1>2
  <2>5. \A i \in 0..m + 1 : q[i] = IF i = 0 THEN 1 ELSE n * q[i - 1]
    <3> TAKE i \in 0..m + 1
    <3> HIDE DEF q
    <3>1. CASE i = m + 1
      BY <3>1, <2>3, <2>4, <1>2
    <3>2. CASE i # m + 1
      <4>1. i \in 0..m /\ (i # 0 => i - 1 \in 0..m)
        BY <3>2, <1>2
      <4> QED BY <4>1, <2>2, <2>3
    <3> QED BY <3>1, <3>2
  <2>6. q = [i \in 0..m + 1 |-> q[i]]
    OBVIOUS
  <2> HIDE DEF q
  <2>7. Powers(n, q, m + 1)
    BY <2>5, <2>6 DEF Powers
  <2>8. q[m + 1] \in Nat
    BY <2>1, <2>4
  <2> QED BY <2>7, <2>8, <1>2
<1>3. Nat \subseteq Good
  <2> HIDE DEF Good
  <2> QED BY <1>1, <1>2, CountUp
<1> QED BY <1>3

\* Two solutions agree where both are.
LEMMA PowersAgree ==
  ASSUME NEW n \in Nat, NEW k \in Nat, NEW m \in Nat, NEW p, NEW q, Powers(n, p, k), Powers(n, q, m)
  PROVE  \A i \in Nat : i <= k /\ i <= m => p[i] = q[i]
<1>0. /\ \A i \in 0..k : p[i] = IF i = 0 THEN 1 ELSE n * p[i - 1]
      /\ \A i \in 0..m : q[i] = IF i = 0 THEN 1 ELSE n * q[i - 1]
  BY DEF Powers
<1> DEFINE Good == {i \in Nat : i <= k /\ i <= m => p[i] = q[i]}
<1>1. 0 \in Good
  BY <1>0
<1>2. ASSUME NEW i \in Nat, i \in Good PROVE i + 1 \in Good
  <2> SUFFICES ASSUME i + 1 <= k, i + 1 <= m PROVE p[i + 1] = q[i + 1]
    BY <1>2
  <2>1. p[i] = q[i] /\ i + 1 \in 0..k /\ i + 1 \in 0..m /\ i + 1 # 0 /\ (i + 1) - 1 = i
    BY <1>2
  <2> QED BY <2>1, <1>0
<1>3. Nat \subseteq Good
  <2> HIDE DEF Good
  <2> QED BY <1>1, <1>2, CountUp
<1> QED BY <1>3

LEMMA PowerRecursion ==
  ASSUME Search!NSectAssumption, NEW k \in Nat
  PROVE  /\ Search!Power(0) = 1
         /\ Search!Power(k) \in Nat \ {0}
         /\ Search!Power(k + 1) = SearchParts * Search!Power(k)
<1>0. SearchParts \in Nat \ {0}
  BY DEF Search!NSectAssumption
<1>1. ASSUME NEW m \in Nat
      PROVE  \E p : Powers(SearchParts, p, m) /\ Search!Power(m) = p[m] /\ p[m] \in Nat
  <2>1. \E p : Powers(SearchParts, p, m)
    BY <1>0, PowersExist
  <2> DEFINE power == CHOOSE p : Powers(SearchParts, p, m)
  <2>2. Powers(SearchParts, power, m)
    BY <2>1
  <2>3. Search!Power(m) = power[m]
    BY DEF Search!Power, Powers
  <2>4. PICK q : Powers(SearchParts, q, m) /\ q[m] \in Nat
    BY <1>0, PowersExist
  <2> HIDE DEF power
  <2>5. power[m] = q[m]
    BY <1>0, <2>2, <2>4, PowersAgree
  <2> QED BY <2>2, <2>3, <2>4, <2>5
<1>2. Search!Power(0) = 1
  <2>1. PICK p : Powers(SearchParts, p, 0) /\ Search!Power(0) = p[0]
    BY <1>1
  <2> QED BY <2>1 DEF Powers
<1>3. ASSUME NEW m \in Nat
      PROVE  Search!Power(m + 1) = SearchParts * Search!Power(m)
  <2>1. PICK p : Powers(SearchParts, p, m) /\ Search!Power(m) = p[m]
    BY <1>1
  <2>2. PICK q : Powers(SearchParts, q, m + 1) /\ Search!Power(m + 1) = q[m + 1]
    BY <1>1
  <2>3. p[m] = q[m]
    BY <1>0, <2>1, <2>2, PowersAgree
  <2>4. m + 1 \in 0..m + 1 /\ m + 1 # 0 /\ (m + 1) - 1 = m
    OBVIOUS
  <2>5. q[m + 1] = SearchParts * q[m]
    BY <2>2, <2>4 DEF Powers
  <2> QED BY <2>1, <2>2, <2>3, <2>5
<1>4. Nat \subseteq {m \in Nat : Search!Power(m) \in Nat \ {0}}
  <2> DEFINE Good == {m \in Nat : Search!Power(m) \in Nat \ {0}}
  <2>1. 0 \in Good
    BY <1>2
  <2>2. \A m \in Nat : m \in Good => m + 1 \in Good
    <3> TAKE m \in Nat
    <3> HAVE m \in Good
    <3>1. SearchParts * Search!Power(m) \in Nat \ {0}
      BY <1>0
    <3> QED BY <3>1, <1>3
  <2> HIDE DEF Good
  <2>3. Nat \subseteq Good
    BY <2>1, <2>2, CountUp
  <2> QED BY <2>3 DEF Good
<1> QED BY <1>2, <1>3, <1>4

-----------------------------------------------------------------------------
(* The search finds the highest match *)

\* Each turn leaves less than a part of the range.
CallsCount ==
  IF search.ended
  THEN search.calls \in Nat \ {0} /\ Search!FewCalls
  ELSE IF search.calls = 0 THEN search.highest = Nowhere
  ELSE Search!Power(search.calls) * (search.high - search.low + 1) < search.last - search.first + 1

\* What an honest prober was not asked for yet is in the range that is left.
StillFound ==
  honest => IF search.ended
            THEN Search!FindsHighest
            ELSE search.highest # Nowhere => matching \in search.low - 1..search.high

SearchInv ==
  /\ Ranged(Nowhere, search) /\ matching \in Int /\ honest \in BOOLEAN
  /\ CallsCount /\ StillFound

LEMMA SearchBegins ==
  ASSUME Search!NSectAssumption, Search!Init
  PROVE  SearchInv
<1>1. PICK low, high \in 1..Elements : low <= high /\ search = Search!Begun(low, high)
  BY DEF Search!Init
<1>2. /\ search.first = low /\ search.last = high /\ search.low = low /\ search.high = high
      /\ search.highest = Nowhere /\ search.calls = 0 /\ search.ended = FALSE
      /\ search \in Searches(Nowhere)
  BY <1>1 DEF Search!Begun, Searches
<1>3. Ranged(Nowhere, search)
  BY <1>1, <1>2 DEF Ranged
<1> QED
  BY <1>2, <1>3 DEF Search!Init, SearchInv, CallsCount, StillFound

\* The turn of an honest prober is about the range the match is in.
LEMMA TruthIs ==
  ASSUME Search!NSectAssumption, SearchInv, ~search.ended
  PROVE  \/ Search!Truth = Nowhere /\ matching < search.low
         \/ /\ Search!Truth \in Cuts(SearchParts, search.low, search.high)
            /\ Search!Truth <= matching
            /\ \A p \in Cuts(SearchParts, search.low, search.high) : p <= matching => p <= Search!Truth
<1> DEFINE cuts == Cuts(SearchParts, search.low, search.high)
           below == {p \in cuts : p <= matching}
<1>1. /\ SearchParts \in Nat \ {0} /\ matching \in Int
      /\ search.low \in Int /\ search.high \in Int /\ search.low <= search.high
  BY DEF Search!NSectAssumption, SearchInv, Ranged, Searches
<1>2. cuts \subseteq search.low..search.high /\ search.low \in cuts
  BY <1>1, CutsOf
<1>3. Search!Truth = IF below = {} THEN Nowhere ELSE Search!Max(below)
  BY SearchTurns DEF Search!Truth
<1>4. CASE below = {}
  BY <1>1, <1>2, <1>3, <1>4
<1>5. CASE below # {}
  <2>1. below \in SUBSET Int /\ \A x \in below : x <= matching
    BY <1>2
  <2>2. \E m \in below : \A x \in below : x <= m
    <3> HIDE DEF below
    <3> QED BY <1>1, <1>5, <2>1, Greatest
  <2>3. Search!Max(below) \in below /\ \A x \in below : x <= Search!Max(below)
    <3>1. \E m \in below : \A x \in below : m >= x
      <4> HIDE DEF below
      <4> QED BY <2>1, <2>2
    <3> HIDE DEF below
    <3>2. Search!Max(below) \in below /\ \A x \in below : Search!Max(below) >= x
      BY <3>1 DEF Search!Max
    <3> QED BY <3>2, <2>1
  <2>4. Search!Truth = Search!Max(below)
    BY <1>3, <1>5
  <2> QED BY <2>3, <2>4
<1> QED BY <1>4, <1>5

LEMMA CallsStayFew ==
  ASSUME Search!NSectAssumption, SearchInv, ~search.ended,
         NEW answer \in Cuts(SearchParts, search.low, search.high) \cup {Nowhere},
         search' = Turn(SearchParts, Nowhere, search, answer)
  PROVE  CallsCount'
<1> DEFINE k == search.calls
           len == search.last - search.first + 1
           d == search.high - search.low
           P == Search!Power(k)
<1>1. /\ SearchParts \in Nat \ {0} /\ Nowhere \notin Int
      /\ search \in Searches(Nowhere) /\ search.low <= search.high
      /\ k \in Nat /\ len \in Int /\ d \in Nat /\ search.low \in Int /\ search.high \in Int
  BY DEF Search!NSectAssumption, SearchInv, Ranged, Searches
<1>2. Turned(SearchParts, Nowhere, search, answer, search')
  BY <1>1, TurnOf
<1>3. search.first' = search.first /\ search.last' = search.last /\ search.calls' = k + 1
  BY <1>2 DEF Turned
<1>4. P \in Nat \ {0} /\ Search!Power(k + 1) = SearchParts * P
  BY <1>1, PowerRecursion
<1>5. P * (d + 1) <= len /\ (k # 0 => P * (d + 1) < len)
  <2>1. CASE k = 0
    <3>1. P = 1
      BY <2>1, PowerRecursion
    <3>2. search.low = search.first /\ search.high = search.last
      BY <2>1 DEF SearchInv, CallsCount, Ranged
    <3>3. d + 1 = len
      BY <3>2, <1>1
    <3> HIDE DEF P, d, len
    <3> QED BY <2>1, <3>1, <3>3, <1>1
  <2>2. CASE k # 0
    <3>1. P * (d + 1) < len
      BY <2>2 DEF SearchInv, CallsCount
    <3> HIDE DEF P, d, len
    <3> QED BY <3>1, <1>1, <1>4
  <2> QED BY <2>1, <2>2
<1>6. CASE search'.ended
  <2>1. k # 0 => P < len
    <3> HIDE DEF P, d, len
    <3>1. P <= P * (d + 1)
      <4>1. P * d >= 0 /\ P * (d + 1) = P * d + P
        BY <1>1, <1>4
      <4> QED BY <4>1, <1>1, <1>4
    <3> QED BY <1>1, <1>4, <1>5, <3>1
  <2>2. (k + 1) - 1 = k /\ k + 1 \in Nat \ {0} /\ (k = 0 => k + 1 <= 1)
    BY <1>1
  <2>3. (Search!FewCalls)' <=> (k + 1 <= 1 \/ Search!Power((k + 1) - 1) < len)
    BY <1>3 DEF Search!FewCalls, Search!Power
  <2> QED BY <1>3, <1>6, <2>1, <2>2, <2>3 DEF CallsCount
<1>7. CASE ~search'.ended
  <2>1. answer # Nowhere /\ answer # search.high
    BY <1>2, <1>7 DEF Turned
  <2>2. PICK next \in Cuts(SearchParts, search.low, search.high) :
          /\ answer < next /\ SearchParts * (next - answer - 1) < d
          /\ search'.low = answer + 1 /\ search'.high = next - 1
    BY <1>2, <1>7, <2>1 DEF Turned
  <2>3. next \in Int /\ answer \in Int
    <3>1. Cuts(SearchParts, search.low, search.high) \subseteq search.low..search.high
      BY <1>1, CutsOf
    <3> QED BY <3>1, <2>1, <1>1
  <2> DEFINE e == next - answer - 1
  <2>4. e \in Int /\ search'.high - search'.low + 1 = e
    BY <2>2, <2>3
  <2>5. (SearchParts * P) * e < len
    <3> HIDE DEF P, d, len, e
    <3>0. e \in Int /\ SearchParts * e < d
      BY <2>2, <2>4 DEF e
    <3>1. (SearchParts * P) * e = P * (SearchParts * e)
      BY <1>1, <1>4, <2>4
    <3>2. P * (SearchParts * e) < P * (d + 1)
      <4> DEFINE f == SearchParts * e
      <4>1. f \in Int /\ f < d + 1
        BY <3>0, <1>1
      <4> HIDE DEF f
      <4>2. P * ((d + 1) - f) > 0
        BY <4>1, <1>1, <1>4
      <4>3. P * ((d + 1) - f) = P * (d + 1) - P * f
        BY <4>1, <1>1, <1>4
      <4>4. P * (d + 1) \in Int /\ P * f \in Int
        BY <4>1, <1>1, <1>4
      <4>5. P * f < P * (d + 1)
        BY <4>2, <4>3, <4>4
      <4> QED BY <4>5 DEF f
    <3>3. P * (SearchParts * e) \in Int /\ P * (d + 1) \in Int
      BY <3>0, <1>1, <1>4
    <3> QED BY <3>1, <3>2, <3>3, <1>5, <1>1
  <2>6. k + 1 # 0
    BY <1>1
  <2>7. (Search!Power(search.calls))' = SearchParts * P
    BY <1>3, <1>4 DEF Search!Power
  <2> QED BY <1>3, <1>7, <2>4, <2>5, <2>6, <2>7 DEF CallsCount
<1> QED BY <1>6, <1>7

LEMMA MatchStaysFound ==
  ASSUME Search!NSectAssumption, SearchInv, ~search.ended, honest,
         search' = Turn(SearchParts, Nowhere, search, Search!Truth), UNCHANGED <<matching, honest>>
  PROVE  StillFound'
<1> DEFINE answer == Search!Truth
<1>1. /\ SearchParts \in Nat \ {0} /\ Nowhere \notin Int /\ matching \in Int
      /\ search \in Searches(Nowhere) /\ search.low <= search.high
      /\ search.first <= search.low /\ search.high <= search.last
      /\ search.low \in Int /\ search.high \in Int /\ search.first \in Int /\ search.last \in Int
      /\ search.highest = Nowhere => search.low = search.first /\ search.high = search.last
      /\ search.highest # Nowhere => search.highest = search.low - 1 /\ matching \in search.low - 1..search.high
                                     /\ search.highest \in search.first..search.last
  BY DEF Search!NSectAssumption, SearchInv, Ranged, Searches, StillFound
<1>2. \/ answer = Nowhere /\ matching < search.low
      \/ /\ answer \in Cuts(SearchParts, search.low, search.high)
         /\ answer <= matching
         /\ \A p \in Cuts(SearchParts, search.low, search.high) : p <= matching => p <= answer
  BY TruthIs
<1> HIDE DEF answer
<1>3. Turned(SearchParts, Nowhere, search, answer, search')
  <2>1. answer \in Cuts(SearchParts, search.low, search.high) \cup {Nowhere}
    BY <1>2
  <2> QED BY <2>1, <1>1, TurnOf DEF answer
<1>4. search.first' = search.first /\ search.last' = search.last
  BY <1>3 DEF Turned
<1>5. \A x \in Int : /\ x <= search.last => Search!Min({x, search.last}) = x
                     /\ x >= search.last => Search!Min({x, search.last}) = search.last
  <2> TAKE x \in Int
  <2>1. Search!Min({x, search.last}) \in {x, search.last}
        /\ \A y \in {x, search.last} : Search!Min({x, search.last}) <= y
    <3>1. \E m \in {x, search.last} : \A y \in {x, search.last} : m <= y
      BY <1>1
    <3> QED BY <3>1 DEF Search!Min
  <2> QED BY <2>1, <1>1
<1>6. (Search!FindsHighest)' <=>
        (search'.ended => search'.highest = IF matching < search.first THEN Nowhere ELSE Search!Min({matching, search.last}))
  BY <1>4 DEF Search!FindsHighest, Search!Min
<1>7. CASE answer = Nowhere
  <2>1. search'.ended /\ search'.highest = search.highest
    BY <1>3, <1>7 DEF Turned
  <2>2. matching < search.low
    <3>1. Cuts(SearchParts, search.low, search.high) \subseteq search.low..search.high
      BY <1>1, CutsOf
    <3> QED BY <3>1, <1>2, <1>7, <1>1
  <2>3. CASE search.highest = Nowhere
    BY <2>1, <2>2, <2>3, <1>1, <1>6 DEF StillFound
  <2>4. CASE search.highest # Nowhere
    <3>1. matching = search.low - 1 /\ matching <= search.last /\ ~(matching < search.first)
      BY <2>2, <2>4, <1>1
    <3> QED BY <2>1, <2>4, <3>1, <1>1, <1>5, <1>6 DEF StillFound
  <2> QED BY <2>3, <2>4
<1>8. CASE answer # Nowhere
  <2>1. /\ answer \in search.low..search.high /\ search'.highest = answer /\ answer <= matching
        /\ \A p \in Cuts(SearchParts, search.low, search.high) : p <= matching => p <= answer
    BY <1>2, <1>3, <1>8 DEF Turned
  <2>2. ~(matching < search.first)
    BY <2>1, <1>1
  <2>3. CASE answer = search.high
    <3>1. search'.ended
      BY <1>3, <2>3 DEF Turned
    <3>2. Search!Min({matching, search.last}) = answer
      <4>1. CASE search.highest = Nowhere
        BY <4>1, <2>1, <2>3, <1>1, <1>5
      <4>2. CASE search.highest # Nowhere
        BY <4>2, <2>1, <2>3, <1>1, <1>5
      <4> QED BY <4>1, <4>2
    <3> QED BY <3>1, <3>2, <2>1, <2>2, <1>6 DEF StillFound
  <2>4. CASE answer # search.high
    <3>1. PICK next \in Cuts(SearchParts, search.low, search.high) :
            /\ answer < next
            /\ search'.ended => next = answer + 1
            /\ ~search'.ended => search'.low = answer + 1 /\ search'.high = next - 1
      BY <1>3, <1>8, <2>4 DEF Turned
    <3>2. next \in search.low..search.high
      BY <1>1, CutsOf
    <3>3. matching < next
      BY <2>1, <3>1, <3>2, <1>1
    <3>4. CASE search'.ended
      <4>1. matching = answer /\ matching <= search.last
        BY <3>1, <3>2, <3>3, <3>4, <2>1, <1>1
      <4> QED BY <4>1, <3>4, <2>1, <2>2, <1>1, <1>5, <1>6 DEF StillFound
    <3>5. CASE ~search'.ended
      <4>1. matching \in search'.low - 1..search'.high
        BY <3>1, <3>2, <3>3, <3>5, <2>1, <1>1
      <4> QED BY <4>1, <3>5 DEF StillFound
    <3> QED BY <3>4, <3>5
  <2> QED BY <2>3, <2>4
<1> QED BY <1>7, <1>8

LEMMA SearchNext ==
  ASSUME Search!NSectAssumption, SearchInv, [Search!Next]_(Search!vars)
  PROVE  SearchInv'
<1>1. CASE UNCHANGED Search!vars
  BY <1>1 DEF Search!vars, SearchInv, CallsCount, StillFound, Ranged, Search!FewCalls, Search!FindsHighest
<1>2. CASE Search!Probe
  <2>1. PICK answer \in Search!Probes(search.low, search.high) \cup {Nowhere} :
          (honest => answer = Search!Truth) /\ search' = Search!After(search, answer)
    BY <1>2 DEF Search!Probe
  <2>2. ~search.ended /\ UNCHANGED <<matching, honest>>
    BY <1>2 DEF Search!Probe
  <2>3. /\ answer \in Cuts(SearchParts, search.low, search.high) \cup {Nowhere}
        /\ search' = Turn(SearchParts, Nowhere, search, answer)
    BY <2>1, SearchTurns
  <2>4. SearchParts \in Nat \ {0} /\ Nowhere \notin Int /\ Ranged(Nowhere, search)
    BY DEF Search!NSectAssumption, SearchInv
  <2>5. Ranged(Nowhere, search')
    BY <2>2, <2>3, <2>4, TurnRanged
  <2>6. CallsCount'
    BY <2>2, <2>3, CallsStayFew
  <2>7. StillFound'
    <3>1. CASE honest
      BY <3>1, <2>1, <2>2, <2>3, MatchStaysFound
    <3>2. CASE ~honest
      BY <3>2, <2>2 DEF StillFound
    <3> QED BY <3>1, <3>2
  <2> QED BY <2>2, <2>5, <2>6, <2>7 DEF SearchInv, Ranged
<1> QED BY <1>1, <1>2 DEF Search!Next

\* However the search begins, and whatever is answered, it takes at most one call
\* more than a range of so many elements can be cut, and an honest prober's
\* highest match is found (NSect.find).
LEMMA SearchStays ==
  ASSUME Search!NSectAssumption
  PROVE  Search!Spec => []SearchFinds
<1>1. Search!Init => SearchInv
  BY SearchBegins
<1>2. SearchInv /\ [Search!Next]_(Search!vars) => SearchInv'
  BY SearchNext
<1>3. ASSUME SearchInv PROVE SearchFinds
  <2>1. Search!FindsHighest
    BY <1>3 DEF SearchInv, StillFound, Search!FindsHighest
  <2>2. ASSUME search.ended PROVE Search!FewCalls
    BY <1>3, <2>2 DEF SearchInv, CallsCount
  <2>3. ASSUME ~search.ended PROVE Search!FewCalls
    <3> DEFINE k == search.calls
               d == search.high - search.low + 1
               len == search.last - search.first + 1
    <3>1. k \in Nat /\ d \in Nat \ {0} /\ len \in Int /\ SearchParts \in Nat \ {0, 1}
      BY <1>3, <2>3 DEF SearchInv, Ranged, Searches, Search!NSectAssumption
    <3>2. SUFFICES ASSUME k > 1 PROVE Search!Power(k - 1) < len
      <4>1. k <= 1 \/ k > 1
        BY <3>1
      <4> QED BY <4>1 DEF Search!FewCalls
    <3> DEFINE P == Search!Power(k - 1)
    <3>3. Search!Power(k) * d < len
      BY <1>3, <2>3, <3>2, <3>1 DEF SearchInv, CallsCount
    <3>4. P \in Nat \ {0} /\ Search!Power(k) = SearchParts * P
      <4>1. k - 1 \in Nat /\ (k - 1) + 1 = k
        BY <3>1, <3>2
      <4> QED BY <4>1, PowerRecursion
    <3> HIDE DEF P, d, len
    <3>5. P <= (SearchParts * P) * d
      <4> DEFINE Q == SearchParts * P
      <4>1. Q \in Nat /\ P <= Q
        <5>1. (SearchParts - 1) * P >= 0
          BY <3>1, <3>4
        <5>2. (SearchParts - 1) * P = SearchParts * P - P
          BY <3>1, <3>4
        <5>3. SearchParts * P \in Nat
          BY <3>1, <3>4
        <5> QED BY <5>1, <5>2, <5>3, <3>4
      <4> HIDE DEF Q
      <4>2. Q * (d - 1) >= 0 /\ Q * (d - 1) = Q * d - Q /\ Q * d \in Int
        BY <4>1, <3>1
      <4>3. P <= Q * d
        BY <4>1, <4>2, <3>4
      <4> QED BY <4>3 DEF Q
    <3>6. (SearchParts * P) * d \in Int
      BY <3>1, <3>4
    <3> QED BY <3>1, <3>3, <3>4, <3>5, <3>6 DEF P
  <2> QED BY <2>1, <2>2, <2>3 DEF SearchFinds
<1> QED
  BY <1>1, <1>2, <1>3, PTL DEF Search!Spec

-----------------------------------------------------------------------------
(* The check of a peer *)

His(h) == Verifier!Block(h, "his")

\* The end of the range the highest common block of a peer is in.
Common(p, our) == IF p.claim.height <= our THEN p.claim.height ELSE our

\* Our height was read.
Measured == verifierPc \in {"have", "probe", "asked", "verify", "fetch"} \/ Verifier!Verified

NoneOurs(blocks) == \A b \in blocks : b.chain # "ours"

VerifierTyped ==
  /\ verifierOurs \in [height : 1..LastHeight, branch : {"ours", "his"}]
  /\ peer \in [honest : BOOLEAN, height : 1..LastHeight, claim : Verifier!Blocks]
  /\ verifierPc \in {"header", "have", "probe", "asked", "verify", "fetch", "done"}
  /\ changes \in Nat
  /\ Measured => ourHeight \in 1..LastHeight

\* The history has our chain, and no more while it does not change.
HadOurs ==
  /\ Verifier!OurBlocks \subseteq had
  /\ changes = 0 => had = Verifier!OurBlocks /\ (Measured => ourHeight = verifierOurs.height)

HonestClaims == peer.honest => peer.claim.height <= peer.height /\ peer.claim = His(peer.claim.height)

\* Of an honest peer: a block it has is one of those we had, none above it is
\* while our chain did not change, and there is none above it to ask for if ours
\* never left its chain.
Reached(c, p, our, blocks, n) ==
  /\ c \in 1..Common(p, our)
  /\ p.honest =>
       /\ His(c) \in blocks
       /\ n = 0 => \A h \in c + 1..Common(p, our) : His(h) \notin blocks
       /\ NoneOurs(blocks) => c = Common(p, our)

\* The same of a search that has not ended.
Underway(s, p, our, blocks, n) ==
  /\ Ranged(Unknown, s) /\ ~s.ended /\ s.first = 1 /\ s.last = Common(p, our)
  /\ p.honest =>
       /\ s.highest # Unknown => His(s.highest) \in blocks
       /\ n = 0 => \A h \in s.high + 1..Common(p, our) : His(h) \notin blocks
       /\ NoneOurs(blocks) => s.highest = Unknown

\* The peer is asked for the blocks of one state of our chain.
Asked(blocks, s, mine, seen, n) ==
  /\ blocks \subseteq seen
  /\ \E side \in {"ours", "his"} :
       /\ blocks = {Verifier!Block(h, side) : h \in Cuts(Parts, s.low, s.high)}
       /\ n = 0 => side = mine.branch

Searched ==
  /\ verifierPc \in {"probe", "asked"} => Underway(verifierSearch, peer, ourHeight, had, changes)
  /\ verifierPc = "asked" => Asked(asked, verifierSearch, verifierOurs, had, changes)

Found ==
  /\ verifierPc \in {"verify", "fetch"} =>
       verify.from \in Int /\ Reached(verify.from - 1, peer, ourHeight, had, changes)
  /\ Verifier!Verified =>
       /\ result.my = ourHeight /\ result.his = peer.claim.height
       /\ Reached(result.common, peer, ourHeight, had, changes)

VerifierInv == VerifierTyped /\ HadOurs /\ HonestClaims /\ Searched /\ Found

\* The same chains up to a height are the same below it.
LEMMA SameBelow ==
  ASSUME Verifier!VerifierAssumption, NEW h \in Int, NEW k \in Int, k <= h, NEW a, NEW b,
         Verifier!Block(h, a) = Verifier!Block(h, b)
  PROVE  Verifier!Block(k, a) = Verifier!Block(k, b)
<1>1. Fork \in Int
  BY DEF Verifier!VerifierAssumption
<1> QED BY <1>1 DEF Verifier!Block

LEMMA BlocksAre ==
  ASSUME NEW h \in Int, NEW k \in Int, NEW a, NEW b, Verifier!Block(h, a) = Verifier!Block(k, b)
  PROVE  h = k
BY DEF Verifier!Block

\* Our block at a height is the peer's if the peer's block there is one of ours.
LEMMA OursIsHis ==
  ASSUME VerifierTyped, NEW h \in Int
  PROVE  His(h) \in Verifier!OurBlocks <=>
           h \in 1..verifierOurs.height /\ Verifier!Block(h, verifierOurs.branch) = His(h)
<1>1. verifierOurs.height \in Int
  BY DEF VerifierTyped
<1>2. ASSUME His(h) \in Verifier!OurBlocks
      PROVE  h \in 1..verifierOurs.height /\ Verifier!Block(h, verifierOurs.branch) = His(h)
  <2>1. PICK k \in 1..verifierOurs.height : Verifier!Block(k, verifierOurs.branch) = His(h)
    BY <1>2 DEF Verifier!OurBlocks
  <2>2. k = h
    BY <2>1, <1>1, BlocksAre DEF His
  <2> QED BY <2>1, <2>2
<1>3. ASSUME h \in 1..verifierOurs.height /\ Verifier!Block(h, verifierOurs.branch) = His(h)
      PROVE  His(h) \in Verifier!OurBlocks
  BY <1>3 DEF Verifier!OurBlocks
<1> QED BY <1>2, <1>3

\* What we had and the changes of our chain may grow.
LEMMA ReachedStays ==
  ASSUME NEW c, NEW p, NEW q, q.claim = p.claim, q.honest = p.honest, NEW our,
         NEW blocks, NEW more, blocks \subseteq more, NEW n, NEW m, m = 0 => n = 0 /\ more = blocks
  PROVE  /\ Reached(c, p, our, blocks, n) => Reached(c, q, our, more, m)
         /\ \A s : Underway(s, p, our, blocks, n) => Underway(s, q, our, more, m)
         /\ \A x, s, mine, ours2 : Asked(x, s, mine, blocks, n) /\ (m = 0 => ours2 = mine) => Asked(x, s, ours2, more, m)
<1>1. Common(q, our) = Common(p, our)
  BY DEF Common
<1>2. NoneOurs(more) => NoneOurs(blocks)
  BY DEF NoneOurs
<1>3. Reached(c, p, our, blocks, n) => Reached(c, q, our, more, m)
  BY <1>1, <1>2 DEF Reached
<1>4. \A s : Underway(s, p, our, blocks, n) => Underway(s, q, our, more, m)
  BY <1>1, <1>2 DEF Underway
<1>5. \A x, s, mine, ours2 : Asked(x, s, mine, blocks, n) /\ (m = 0 => ours2 = mine) => Asked(x, s, ours2, more, m)
  BY DEF Asked
<1> QED BY <1>3, <1>4, <1>5

LEMMA VerifierBegins ==
  ASSUME Verifier!VerifierAssumption, Verifier!Init
  PROVE  VerifierInv
<1>1. verifierPc = "header" /\ changes = 0 /\ had = Verifier!OurBlocks
  BY DEF Verifier!Init
<1>2. ~Measured /\ ~Verifier!Verified
  BY <1>1 DEF Measured, Verifier!Verified
<1>3. VerifierTyped
  BY <1>1, <1>2 DEF Verifier!Init, VerifierTyped
<1>4. HonestClaims
  BY DEF Verifier!Init, HonestClaims, His, Verifier!Block
<1> QED
  BY <1>1, <1>2, <1>3, <1>4 DEF VerifierInv, HadOurs, Searched, Found

\* What leaves the check where it is.
LEMMA CheckStays ==
  ASSUME VerifierInv, VerifierTyped', HadOurs', HonestClaims',
         peer'.claim = peer.claim, peer'.honest = peer.honest,
         UNCHANGED <<verifierPc, ourHeight, verifierSearch, asked, verify, result>>,
         had \subseteq had', changes' = 0 => changes = 0 /\ had' = had /\ verifierOurs' = verifierOurs
  PROVE  VerifierInv'
<1>1. (Verifier!Verified)' <=> Verifier!Verified
  BY DEF Verifier!Verified
<1>2. Searched'
  BY ReachedStays DEF VerifierInv, Searched
<1>3. Found'
  BY <1>1, ReachedStays DEF VerifierInv, Found
<1> QED
  BY <1>2, <1>3 DEF VerifierInv

LEMMA OurChainMoves ==
  ASSUME VerifierInv, NEW chain2 \in [height : 1..LastHeight, branch : {"ours", "his"}],
         Verifier!OurChain(chain2),
         \A h \in 1..chain2.height : \/ h = chain2.height
                                     \/ Verifier!Block(h, chain2.branch) \in Verifier!OurBlocks
  PROVE  VerifierInv'
<1>1. /\ verifierOurs' = chain2 /\ changes' = changes + 1
      /\ had' = had \cup {Verifier!Block(chain2.height, chain2.branch)}
      /\ UNCHANGED <<peer, verifierPc, ourHeight, verifierSearch, asked, verify, result>>
  BY DEF Verifier!OurChain
<1>2. changes' \in Nat /\ changes' # 0
  BY <1>1 DEF VerifierInv, VerifierTyped
<1>3. (Verifier!Verified)' <=> Verifier!Verified
  BY <1>1 DEF Verifier!Verified
<1>4. VerifierTyped'
  BY <1>1, <1>2, <1>3 DEF VerifierInv, VerifierTyped, Measured, Verifier!Blocks
<1>5. HadOurs'
  <2>1. (Verifier!OurBlocks)' = {Verifier!Block(h, chain2.branch) : h \in 1..chain2.height}
    BY <1>1 DEF Verifier!OurBlocks, Verifier!Block
  <2>2. (Verifier!OurBlocks)' \subseteq had'
    BY <2>1, <1>1 DEF VerifierInv, HadOurs
  <2> QED BY <2>2, <1>2 DEF HadOurs
<1>6. HonestClaims'
  BY <1>1 DEF VerifierInv, HonestClaims, His, Verifier!Block
<1> QED
  BY <1>1, <1>2, <1>4, <1>5, <1>6, CheckStays

LEMMA MeanwhileKeeps ==
  ASSUME Verifier!VerifierAssumption, VerifierInv,
         Verifier!Late \/ Verifier!Grow \/ Verifier!Revert \/ Verifier!PeerGrows
  PROVE  VerifierInv'
<1>0. /\ verifierOurs \in [height : 1..LastHeight, branch : {"ours", "his"}]
      /\ verifierOurs.height \in 1..LastHeight /\ LastHeight \in Nat \ {0} /\ Fork \in 1..LastHeight
  BY DEF VerifierInv, VerifierTyped, Verifier!VerifierAssumption, Verifier!N!NSectAssumption
<1>1. CASE Verifier!Late
  <2>1. UNCHANGED <<verifierOurs, peer, verifierPc, ourHeight, verifierSearch, asked, verify, result, had, changes>>
    BY <1>1 DEF Verifier!Late
  <2> QED
    BY <2>1 DEF VerifierInv, VerifierTyped, HadOurs, HonestClaims, Searched, Found, Measured,
       Verifier!Verified, Verifier!OurBlocks, Verifier!Blocks, Verifier!Block
<1>2. CASE Verifier!Grow
  <2>1. PICK side \in {"ours", "his"} :
          /\ verifierOurs.height > Fork => side = verifierOurs.branch
          /\ Verifier!OurChain([height |-> verifierOurs.height + 1, branch |-> side])
    BY <1>2 DEF Verifier!Grow
  <2> DEFINE chain2 == [height |-> verifierOurs.height + 1, branch |-> side]
  <2>2. chain2 \in [height : 1..LastHeight, branch : {"ours", "his"}]
    BY <1>0, <1>2 DEF Verifier!Grow
  <2>3. \A h \in 1..chain2.height : \/ h = chain2.height
                                    \/ Verifier!Block(h, chain2.branch) \in Verifier!OurBlocks
    <3> SUFFICES ASSUME NEW h \in 1..verifierOurs.height
                 PROVE  Verifier!Block(h, side) \in Verifier!OurBlocks
      BY <1>0
    <3>1. Verifier!Block(h, side) = Verifier!Block(h, verifierOurs.branch)
      BY <2>1, <1>0 DEF Verifier!Block
    <3> QED BY <3>1 DEF Verifier!OurBlocks
  <2> HIDE DEF chain2
  <2>4. Verifier!OurChain(chain2)
    BY <2>1 DEF chain2
  <2> QED BY <2>2, <2>3, <2>4, OurChainMoves
<1>3. CASE Verifier!Revert
  <2> DEFINE chain2 == [verifierOurs EXCEPT !.height = @ - 1]
  <2>1. verifierOurs.height > 1 /\ Verifier!OurChain(chain2)
    BY <1>3 DEF Verifier!Revert
  <2>2. /\ chain2 \in [height : 1..LastHeight, branch : {"ours", "his"}]
        /\ chain2.height = verifierOurs.height - 1 /\ chain2.branch = verifierOurs.branch
    BY <2>1, <1>0
  <2>3. \A h \in 1..chain2.height : Verifier!Block(h, chain2.branch) \in Verifier!OurBlocks
    BY <2>2, <1>0 DEF Verifier!OurBlocks
  <2> HIDE DEF chain2
  <2> QED BY <2>1, <2>2, <2>3, OurChainMoves
<1>4. CASE Verifier!PeerGrows
  <2>1. /\ peer.honest /\ peer.height < LastHeight /\ peer' = [peer EXCEPT !.height = @ + 1]
        /\ UNCHANGED <<verifierOurs, verifierPc, ourHeight, verifierSearch, asked, verify, result, had, changes>>
    BY <1>4 DEF Verifier!PeerGrows
  <2>2. /\ peer'.claim = peer.claim /\ peer'.honest = peer.honest /\ peer'.height = peer.height + 1
        /\ peer' \in [honest : BOOLEAN, height : 1..LastHeight, claim : Verifier!Blocks]
    <3>1. peer \in [honest : BOOLEAN, height : 1..LastHeight, claim : Verifier!Blocks]
      BY DEF VerifierInv, VerifierTyped
    <3>2. peer.height + 1 \in 1..LastHeight
      BY <2>1, <3>1, <1>0
    <3> QED BY <2>1, <3>1, <3>2
  <2>3. (Verifier!Verified)' <=> Verifier!Verified
    BY <2>1 DEF Verifier!Verified
  <2>4. VerifierTyped'
    BY <2>1, <2>2, <2>3 DEF VerifierInv, VerifierTyped, Measured, Verifier!Blocks
  <2>5. HadOurs'
    BY <2>1, <2>3 DEF VerifierInv, HadOurs, Measured, Verifier!OurBlocks, Verifier!Block
  <2>6. HonestClaims'
    <3>1. peer.claim.height <= peer.height => peer.claim.height <= peer.height + 1
      BY DEF VerifierInv, VerifierTyped, Verifier!Blocks
    <3> QED BY <2>2, <3>1 DEF VerifierInv, HonestClaims, His, Verifier!Block
  <2> QED BY <2>1, <2>2, <2>4, <2>5, <2>6, CheckStays
<1> QED BY <1>1, <1>2, <1>3, <1>4

-----------------------------------------------------------------------------
(* The steps of the check *)

\* A step of the check leaves both chains.
LEMMA CheckMoves ==
  ASSUME VerifierInv, UNCHANGED <<verifierOurs, peer, had, changes>>,
         verifierPc' \in {"header", "have", "probe", "asked", "verify", "fetch", "done"},
         Measured' => ourHeight' \in 1..LastHeight /\ (changes = 0 => ourHeight' = verifierOurs.height),
         Searched', Found'
  PROVE  VerifierInv'
<1>1. VerifierTyped'
  BY DEF VerifierInv, VerifierTyped, Verifier!Blocks
<1>2. HadOurs'
  BY DEF VerifierInv, HadOurs, Verifier!OurBlocks, Verifier!Block
<1>3. HonestClaims'
  BY DEF VerifierInv, HonestClaims, His, Verifier!Block
<1> QED
  BY <1>1, <1>2, <1>3 DEF VerifierInv

\* A check that fails leaves nothing to hold.
LEMMA CheckFails ==
  ASSUME VerifierInv, UNCHANGED <<verifierOurs, peer, had, changes>>,
         verifierPc' = "done", result' \in {Undefined, Thrown}
  PROVE  VerifierInv'
<1>1. ~Measured' /\ ~(Verifier!Verified)'
  BY DEF Measured, Verifier!Verified
<1>2. Searched' /\ Found'
  BY <1>1 DEF Searched, Found
<1> QED BY <1>1, <1>2, CheckMoves

LEMMA VerifierRanges ==
  ASSUME Verifier!VerifierAssumption, VerifierInv
  PROVE  /\ Parts \in Nat \ {0} /\ Unknown \notin Int /\ Fork \in Int /\ LastHeight \in Nat
         /\ verifierOurs.height \in 1..LastHeight /\ verifierOurs.branch \in {"ours", "his"}
         /\ peer.height \in 1..LastHeight /\ peer.claim.height \in 1..LastHeight /\ peer.honest \in BOOLEAN
         /\ Measured => /\ ourHeight \in 1..LastHeight /\ Common(peer, ourHeight) \in 1..LastHeight
                        /\ Common(peer, ourHeight) <= ourHeight /\ Common(peer, ourHeight) <= peer.claim.height
                        /\ Verifier!Min({peer.claim.height, ourHeight}) = Common(peer, ourHeight)
<1>1. /\ Parts \in Nat \ {0} /\ Unknown \notin Int /\ Fork \in Int /\ LastHeight \in Nat
  BY DEF Verifier!VerifierAssumption, Verifier!N!NSectAssumption
<1>2. /\ verifierOurs.height \in 1..LastHeight /\ verifierOurs.branch \in {"ours", "his"}
      /\ peer.height \in 1..LastHeight /\ peer.claim.height \in 1..LastHeight /\ peer.honest \in BOOLEAN
  BY DEF VerifierInv, VerifierTyped, Verifier!Blocks
<1>3. ASSUME Measured
      PROVE  /\ ourHeight \in 1..LastHeight /\ Common(peer, ourHeight) \in 1..LastHeight
             /\ Common(peer, ourHeight) <= ourHeight /\ Common(peer, ourHeight) <= peer.claim.height
             /\ Verifier!Min({peer.claim.height, ourHeight}) = Common(peer, ourHeight)
  <2>1. ourHeight \in 1..LastHeight
    BY <1>3 DEF VerifierInv, VerifierTyped
  <2>2. /\ Common(peer, ourHeight) \in {peer.claim.height, ourHeight}
        /\ \A y \in {peer.claim.height, ourHeight} : Common(peer, ourHeight) <= y
    BY <2>1, <1>1, <1>2 DEF Common
  <2> DEFINE both == {peer.claim.height, ourHeight}
             least == Common(peer, ourHeight)
  <2>3. \A x \in both : x \in Int
    BY <2>1, <1>1, <1>2
  <2>4. least \in both /\ \A y \in both : least <= y
    BY <2>2
  <2>5. Verifier!Min(both) = least
    <3> HIDE DEF both, least
    <3>1. Verifier!Min(both) \in both /\ \A y \in both : Verifier!Min(both) <= y
      BY <2>4 DEF Verifier!Min
    <3> QED BY <3>1, <2>3, <2>4
  <2> QED BY <2>1, <2>2, <2>5, <1>1, <1>2
<1> QED BY <1>1, <1>2, <1>3

LEMMA HeaderKeeps ==
  ASSUME Verifier!VerifierAssumption, VerifierInv, Verifier!CheckStateHeader
  PROVE  VerifierInv'
<1>1. UNCHANGED <<verifierOurs, peer, had, changes>>
  BY DEF Verifier!CheckStateHeader
<1>2. CASE verifierPc' = "have" /\ ourHeight' = verifierOurs.height
  <2>1. ~(Verifier!Verified)'
    BY <1>2 DEF Verifier!Verified
  <2>2. Searched' /\ Found'
    BY <1>2, <2>1 DEF Searched, Found
  <2>3. ourHeight' \in 1..LastHeight
    BY <1>2, VerifierRanges
  <2> QED BY <1>1, <1>2, <2>2, <2>3, CheckMoves
<1>3. CASE verifierPc' = "done" /\ result' = Undefined
  BY <1>1, <1>3, CheckFails
<1> QED
  BY <1>2, <1>3 DEF Verifier!CheckStateHeader, Verifier!End

LEMMA HighestBlockKeeps ==
  ASSUME Verifier!VerifierAssumption, VerifierInv, Verifier!WeHavePeersHighestBlock
  PROVE  VerifierInv'
<1>1. /\ UNCHANGED <<verifierOurs, peer, ourHeight, had, changes>> /\ verifierPc = "have"
  BY DEF Verifier!WeHavePeersHighestBlock
<1>2. /\ Measured /\ ourHeight \in 1..LastHeight
      /\ changes = 0 => ourHeight = verifierOurs.height
  BY <1>1 DEF Measured, VerifierInv, VerifierTyped, HadOurs
<1>3. CASE verifierPc' = "done" /\ result' = Thrown
  BY <1>1, <1>3, CheckFails
<1>4. CASE /\ peer.claim.height <= ourHeight /\ peer.claim \in Verifier!OurBlocks
           /\ verifierPc' = "done" /\ result' = Verifier!Result(peer.claim.height)
  <2>1. /\ result'.my = ourHeight /\ result'.his = peer.claim.height
        /\ result'.common = peer.claim.height
    BY <1>4 DEF Verifier!Result
  <2>2. Common(peer, ourHeight) = peer.claim.height
    BY <1>4 DEF Common
  <2>3. Reached(peer.claim.height, peer, ourHeight, had, changes)
    <3>1. peer.claim.height \in 1..Common(peer, ourHeight)
      BY <2>2, VerifierRanges
    <3>2. peer.honest => His(peer.claim.height) \in had
      BY <1>4 DEF VerifierInv, HonestClaims, HadOurs
    <3>3. \A h \in peer.claim.height + 1..Common(peer, ourHeight) : FALSE
      BY <2>2, VerifierRanges
    <3> QED BY <2>2, <3>1, <3>2, <3>3 DEF Reached
  <2>4. Searched'
    BY <1>4 DEF Searched
  <2>5. Found'
    BY <1>1, <1>4, <2>1, <2>3 DEF Found
  <2> QED BY <1>1, <1>2, <1>4, <2>4, <2>5, CheckMoves
<1>5. CASE /\ verifierPc' = "probe"
           /\ verifierSearch' = Verifier!N!Begun(1, Verifier!Min({peer.claim.height, ourHeight}))
  <2> DEFINE top == Common(peer, ourHeight)
  <2>1. top \in Int /\ 1 <= top /\ Verifier!Min({peer.claim.height, ourHeight}) = top
    BY <1>2, VerifierRanges
  <2>2. verifierSearch' = [first |-> 1, last |-> top, low |-> 1, high |-> top,
                           highest |-> Unknown, calls |-> 0, ended |-> FALSE]
    BY <1>5, <2>1 DEF Verifier!N!Begun
  <2> HIDE DEF top
  <2>3. Ranged(Unknown, verifierSearch') /\ ~verifierSearch'.ended
        /\ verifierSearch'.first = 1 /\ verifierSearch'.last = top /\ verifierSearch'.high = top
        /\ verifierSearch'.highest = Unknown
    BY <2>1, <2>2 DEF Ranged, Searches
  <2>4. \A h \in top + 1..top : FALSE
    BY <2>1
  <2>5. Underway(verifierSearch', peer, ourHeight, had, changes)
    BY <2>3, <2>4 DEF Underway, top
  <2>6. Searched'
    BY <1>1, <1>5, <2>5 DEF Searched
  <2>7. Found'
    BY <1>5 DEF Found, Verifier!Verified
  <2> QED BY <1>1, <1>2, <1>5, <2>6, <2>7, CheckMoves
<1> QED
  BY <1>3, <1>4, <1>5 DEF Verifier!WeHavePeersHighestBlock, Verifier!End

LEMMA ProbeKeeps ==
  ASSUME Verifier!VerifierAssumption, VerifierInv, Verifier!Probe
  PROVE  VerifierInv'
<1>1. /\ UNCHANGED <<verifierOurs, peer, ourHeight, verifierSearch, had, changes>> /\ verifierPc = "probe"
  BY DEF Verifier!Probe
<1>2. /\ Measured /\ ourHeight \in 1..LastHeight
      /\ changes = 0 => ourHeight = verifierOurs.height
  BY <1>1 DEF Measured, VerifierInv, VerifierTyped, HadOurs
<1> DEFINE heights == Cuts(Parts, verifierSearch.low, verifierSearch.high)
<1>3. Verifier!N!Probes(verifierSearch.low, verifierSearch.high) = heights
  BY VerifierTurns
<1>4. CASE verifierPc' = "done" /\ result' = Thrown
  BY <1>1, <1>4, CheckFails
<1>5. CASE /\ ~(Verifier!Max(heights) > verifierOurs.height) /\ verifierPc' = "asked"
           /\ asked' = {b \in Verifier!OurBlocks : b.height \in heights}
  <2>1. Underway(verifierSearch, peer, ourHeight, had, changes)
    BY <1>1 DEF VerifierInv, Searched
  <2>2. /\ verifierSearch.low \in Int /\ verifierSearch.high \in Int
        /\ verifierSearch.low <= verifierSearch.high /\ 1 <= verifierSearch.low
        /\ Parts \in Nat \ {0} /\ verifierOurs.height \in Int
    <3>1. verifierOurs.height \in Int /\ Parts \in Nat \ {0}
      BY VerifierRanges
    <3> QED BY <2>1, <3>1 DEF Underway, Ranged, Searches
  <2>3. heights \subseteq verifierSearch.low..verifierSearch.high /\ verifierSearch.high \in heights
    BY <2>2, CutsOf
  <2>4. \A h \in heights : h \in 1..verifierOurs.height
    <3> HIDE DEF heights
    <3>1. \E m \in heights : \A x \in heights : m >= x
      BY <2>2, <2>3
    <3>2. Verifier!Max(heights) \in heights /\ \A x \in heights : Verifier!Max(heights) >= x
      BY <3>1 DEF Verifier!Max
    <3>3. \A x \in heights : x \in Int /\ 1 <= x
      BY <2>2, <2>3
    <3>4. Verifier!Max(heights) <= verifierOurs.height
      BY <3>2, <3>3, <2>2, <1>5
    <3> QED BY <3>2, <3>3, <3>4, <2>2
  <2> HIDE DEF heights
  <2> DEFINE of == {Verifier!Block(h, verifierOurs.branch) : h \in heights}
  <2>5. asked' = of
    <3>1. \A h \in heights : Verifier!Block(h, verifierOurs.branch).height = h
      BY DEF Verifier!Block
    <3>2. of \subseteq asked'
      BY <1>5, <2>4, <3>1 DEF Verifier!OurBlocks
    <3>3. asked' \subseteq of
      <4> SUFFICES ASSUME NEW b \in Verifier!OurBlocks, b.height \in heights PROVE b \in of
        BY <1>5
      <4>1. PICK h \in 1..verifierOurs.height : b = Verifier!Block(h, verifierOurs.branch)
        BY DEF Verifier!OurBlocks
      <4>2. b.height = h
        BY <4>1 DEF Verifier!Block
      <4> QED BY <4>1, <4>2
    <3> QED BY <3>2, <3>3
  <2>6. asked' \subseteq had
    BY <1>5 DEF VerifierInv, HadOurs
  <2>7. Asked(asked', verifierSearch, verifierOurs, had, changes)
    BY <2>5, <2>6, VerifierRanges DEF Asked, heights
  <2>8. Searched'
    BY <1>1, <1>5, <2>1, <2>7 DEF Searched
  <2>9. Found'
    BY <1>5 DEF Found, Verifier!Verified
  <2> QED BY <1>1, <1>2, <1>5, <2>8, <2>9, CheckMoves
<1> QED
  BY <1>3, <1>4, <1>5 DEF Verifier!Probe, Verifier!End

\* What an honest peer answers of the blocks it was asked for.
LEMMA HonestAnswer ==
  ASSUME Verifier!VerifierAssumption, VerifierInv, verifierPc = "asked", peer.honest,
         NEW side, asked = {Verifier!Block(h, side) : h \in Cuts(Parts, verifierSearch.low, verifierSearch.high)},
         NEW answer \in Verifier!Answers
  PROVE  /\ answer \in Cuts(Parts, verifierSearch.low, verifierSearch.high)
         /\ His(answer) = Verifier!Block(answer, side) /\ His(answer) \in asked
         /\ \A h \in Cuts(Parts, verifierSearch.low, verifierSearch.high) :
              His(h) = Verifier!Block(h, side) => h <= answer
<1> DEFINE cuts == Cuts(Parts, verifierSearch.low, verifierSearch.high)
           same == Verifier!Heights(asked \cap Verifier!HisBlocks)
<1>1. Measured /\ Underway(verifierSearch, peer, ourHeight, had, changes)
  BY DEF VerifierInv, Searched, Measured
<1>2. /\ Common(peer, ourHeight) \in Int /\ Common(peer, ourHeight) <= peer.claim.height
      /\ peer.claim.height \in Int /\ peer.height \in Int /\ Parts \in Nat \ {0}
  BY <1>1, VerifierRanges
<1>3. /\ verifierSearch.low \in Int /\ verifierSearch.high \in Int
      /\ verifierSearch.low <= verifierSearch.high /\ 1 <= verifierSearch.low
      /\ verifierSearch.high <= Common(peer, ourHeight)
  BY <1>1 DEF Underway, Ranged, Searches
<1>4. cuts \subseteq verifierSearch.low..verifierSearch.high
  BY <1>2, <1>3, CutsOf
<1>5. peer.claim.height <= peer.height
  BY DEF VerifierInv, HonestClaims
<1>6. \A h \in cuts : h \in Int /\ h \in 1..peer.height /\ His(h) \in Verifier!HisBlocks
  <2>1. \A h \in cuts : h \in Int /\ h \in 1..peer.height
    BY <1>2, <1>3, <1>4, <1>5
  <2> HIDE DEF cuts
  <2> QED BY <2>1 DEF Verifier!HisBlocks, His
<1> HIDE DEF cuts
<1>7. \A h \in same : h \in cuts /\ His(h) = Verifier!Block(h, side) /\ His(h) \in asked
  <2> TAKE h \in same
  <2>1. PICK b \in asked \cap Verifier!HisBlocks : b.height = h
    BY DEF Verifier!Heights
  <2>2. PICK k \in cuts : b = Verifier!Block(k, side)
    BY <2>1 DEF cuts
  <2>3. PICK j \in 1..peer.height : b = Verifier!Block(j, "his")
    BY <2>1 DEF Verifier!HisBlocks
  <2>4. k = h /\ j = h
    BY <2>1, <2>2, <2>3 DEF Verifier!Block
  <2> QED BY <2>1, <2>2, <2>3, <2>4 DEF His
<1>8. \A h \in cuts : His(h) = Verifier!Block(h, side) => h \in same
  <2> TAKE h \in cuts
  <2> HAVE His(h) = Verifier!Block(h, side)
  <2>1. His(h) \in asked \cap Verifier!HisBlocks
    BY <1>6 DEF cuts
  <2>2. His(h).height = h
    BY DEF His, Verifier!Block
  <2> QED BY <2>1, <2>2 DEF Verifier!Heights
<1>9. same # {} /\ answer = Verifier!Max(same)
  <2>1. asked \cap Verifier!HisBlocks # {} /\ answer = Verifier!Max(same)
    BY DEF Verifier!Answers
  <2> QED BY <2>1 DEF Verifier!Heights
<1> HIDE DEF same
<1>10. answer \in same /\ \A x \in same : x <= answer
  <2>1. same \in SUBSET Int
    BY <1>6, <1>7
  <2>2. \A x \in same : x <= peer.height
    BY <1>2, <1>6, <1>7
  <2>3. \E m \in same : \A x \in same : x <= m
    BY <2>1, <2>2, <1>2, <1>9, Greatest
  <2>4. \E m \in same : \A x \in same : m >= x
    BY <2>1, <2>3
  <2>5. answer \in same /\ \A x \in same : answer >= x
    BY <2>4, <1>9 DEF Verifier!Max
  <2> QED BY <2>1, <2>5
<1> QED BY <1>7, <1>8, <1>10 DEF cuts

\* What an answer leaves of the search, or finds.
LEMMA AnswerFinds ==
  ASSUME Verifier!VerifierAssumption, VerifierInv, verifierPc = "asked",
         NEW answer \in Verifier!Answers, NEW s, s = Turn(Parts, Unknown, verifierSearch, answer)
  PROVE  /\ ~s.ended => Underway(s, peer, ourHeight, had, changes)
         /\ s.ended /\ s.highest # Unknown =>
              s.highest \in Int /\ Reached(s.highest, peer, ourHeight, had, changes)
<1> DEFINE cuts == Cuts(Parts, verifierSearch.low, verifierSearch.high)
           top == Common(peer, ourHeight)
<1>1. /\ Measured /\ Underway(verifierSearch, peer, ourHeight, had, changes)
      /\ Asked(asked, verifierSearch, verifierOurs, had, changes)
  BY DEF VerifierInv, Searched, Measured
<1>2. /\ top \in Int /\ Parts \in Nat \ {0} /\ Unknown \notin Int
  BY <1>1, VerifierRanges
<1>3. PICK side \in {"ours", "his"} :
        /\ asked = {Verifier!Block(h, side) : h \in cuts}
        /\ changes = 0 => side = verifierOurs.branch
  BY <1>1 DEF Asked
<1>4. asked \subseteq had
  BY <1>1 DEF Asked
<1>5. /\ Ranged(Unknown, verifierSearch) /\ verifierSearch \in Searches(Unknown) /\ ~verifierSearch.ended
      /\ verifierSearch.first = 1 /\ verifierSearch.last = top
      /\ verifierSearch.low \in Int /\ verifierSearch.high \in Int
      /\ verifierSearch.low <= verifierSearch.high /\ 1 <= verifierSearch.low /\ verifierSearch.high <= top
      /\ verifierSearch.highest = Unknown => verifierSearch.high = top
  BY <1>1 DEF Underway, Ranged, Searches
<1>6. cuts \subseteq verifierSearch.low..verifierSearch.high /\ verifierSearch.high \in cuts
  BY <1>2, <1>5, CutsOf
<1>7. answer \in cuts \cup {Unknown}
  <2>1. CASE peer.honest
    <3>1. answer \in cuts
      BY <2>1, <1>3, HonestAnswer
    <3> QED BY <3>1
  <2>2. CASE ~peer.honest
    <3>1. answer \in Verifier!Heights(asked) \cup {Unknown}
      BY <2>2 DEF Verifier!Answers
    <3>2. Verifier!Heights(asked) \subseteq cuts
      BY <1>3 DEF Verifier!Heights, Verifier!Block
    <3> QED BY <3>1, <3>2
  <2> QED BY <2>1, <2>2
<1>8. Ranged(Unknown, s)
  BY <1>2, <1>5, <1>7, TurnRanged
<1>9. Turned(Parts, Unknown, verifierSearch, answer, s)
  BY <1>2, <1>5, <1>7, TurnOf
<1>10. s.first = 1 /\ s.last = top
  BY <1>5, <1>9 DEF Turned
<1>11. s.highest # Unknown => s.highest \in 1..top /\ s.highest \in Int
  BY <1>8, <1>10, <1>2 DEF Ranged
<1>12. CASE ~peer.honest
  BY <1>8, <1>10, <1>11, <1>12 DEF Underway, Reached, top
<1>13. CASE peer.honest
  <2>1. /\ answer \in cuts /\ His(answer) = Verifier!Block(answer, side) /\ His(answer) \in had
        /\ \A h \in cuts : His(h) = Verifier!Block(h, side) => h <= answer
    BY <1>3, <1>4, <1>13, HonestAnswer
  <2>2. answer \in verifierSearch.low..verifierSearch.high /\ answer # Unknown /\ s.highest = answer
    BY <2>1, <1>2, <1>5, <1>6, <1>9 DEF Turned
  \* No block above the next place is the peer's while our chain stays.
  <2>3. ASSUME changes = 0, NEW next \in cuts, answer < next, NEW h \in next..top
        PROVE  His(h) \notin had
    <3>1. next \in Int /\ h \in Int /\ next <= h
      BY <2>3, <1>2, <1>5, <1>6
    <3>2. SUFFICES ASSUME His(h) \in had PROVE FALSE
      OBVIOUS
    <3>3. His(h) \in Verifier!OurBlocks /\ side = verifierOurs.branch
      BY <2>3, <3>2, <1>3 DEF VerifierInv, HadOurs
    <3>4. Verifier!Block(h, side) = His(h)
      BY <3>1, <3>3, OursIsHis DEF VerifierInv
    <3>5. Verifier!Block(next, side) = His(next)
      BY <3>1, <3>4, SameBelow DEF His
    <3>6. next <= answer
      BY <3>5, <2>1
    <3> QED BY <3>1, <3>6, <2>2, <2>3, <1>5
  \* A chain of ours that never left the peer's has all it is asked for.
  <2>4. NoneOurs(had) => answer = verifierSearch.high /\ verifierSearch.high = top
    <3> SUFFICES ASSUME NoneOurs(had) PROVE answer = verifierSearch.high /\ verifierSearch.high = top
      OBVIOUS
    <3>1. verifierSearch.highest = Unknown
      BY <1>1, <1>13 DEF Underway
    <3>2. Verifier!Block(verifierSearch.high, side) \in had
      BY <1>3, <1>4, <1>6
    <3>3. Verifier!Block(verifierSearch.high, side).chain # "ours"
      BY <3>2 DEF NoneOurs
    <3>4. His(verifierSearch.high) = Verifier!Block(verifierSearch.high, side)
      BY <3>3 DEF His, Verifier!Block
    <3>5. verifierSearch.high <= answer
      BY <3>4, <2>1, <1>6
    <3> QED BY <3>1, <3>5, <2>2, <1>5
  <2>5. CASE answer = verifierSearch.high
    <3>1. s.ended
      BY <2>5, <1>9 DEF Turned
    <3>2. changes = 0 => \A h \in answer + 1..top : His(h) \notin had
      BY <2>5, <1>1, <1>13 DEF Underway
    <3>3. Reached(answer, peer, ourHeight, had, changes)
      BY <3>2, <2>1, <2>2, <2>4, <1>11 DEF Reached
    <3> QED BY <3>1, <3>3, <2>2, <1>11
  <2>6. CASE answer # verifierSearch.high
    <3>1. PICK next \in cuts :
            /\ answer < next
            /\ s.ended => next = answer + 1
            /\ ~s.ended => s.low = answer + 1 /\ s.high = next - 1
      BY <1>9, <2>2, <2>6 DEF Turned
    <3>2. ~NoneOurs(had)
      BY <2>4, <2>6
    <3>3. next \in Int
      BY <1>5, <1>6
    <3>4. CASE s.ended
      <4>1. changes = 0 => \A h \in answer + 1..top : His(h) \notin had
        BY <3>1, <3>4, <2>3
      <4>2. Reached(answer, peer, ourHeight, had, changes)
        BY <4>1, <3>2, <2>1, <2>2, <1>11 DEF Reached
      <4> QED BY <4>2, <3>4, <2>2, <1>11
    <3>5. CASE ~s.ended
      <4>1. s.high + 1 = next
        BY <3>1, <3>3, <3>5
      <4>2. changes = 0 => \A h \in s.high + 1..top : His(h) \notin had
        BY <4>1, <3>1, <2>3
      <4>3. Underway(s, peer, ourHeight, had, changes)
        BY <4>2, <3>2, <3>5, <2>1, <2>2, <1>8, <1>10 DEF Underway
      <4> QED BY <4>3, <3>5
    <3> QED BY <3>4, <3>5
  <2> QED BY <2>5, <2>6
<1> QED BY <1>12, <1>13

LEMMA CommonBlocksKeep ==
  ASSUME Verifier!VerifierAssumption, VerifierInv, Verifier!HasCommonBlocks
  PROVE  VerifierInv'
<1>1. /\ UNCHANGED <<verifierOurs, peer, ourHeight, had, changes>> /\ verifierPc = "asked"
  BY DEF Verifier!HasCommonBlocks
<1>2. /\ Measured /\ ourHeight \in 1..LastHeight
      /\ changes = 0 => ourHeight = verifierOurs.height
  BY <1>1 DEF Measured, VerifierInv, VerifierTyped, HadOurs
<1>3. PICK answer \in Verifier!Answers :
        LET s == Turn(Parts, Unknown, verifierSearch, answer)
        IN  /\ verifierSearch' = s
            /\ \/ ~s.ended /\ verifierPc' = "probe"
               \/ s.ended /\ s.highest = Unknown /\ verifierPc' = "done" /\ result' = Undefined
               \/ /\ s.ended /\ s.highest # Unknown /\ verifierPc' = "verify"
                  /\ verify' = [from |-> s.highest + 1, next |-> s.highest + 1, fetched |-> s.highest, bad |-> FALSE]
  BY VerifierTurns DEF Verifier!HasCommonBlocks, Verifier!End
<1> DEFINE s == Turn(Parts, Unknown, verifierSearch, answer)
<1>4. /\ ~s.ended => Underway(s, peer, ourHeight, had, changes)
      /\ s.ended /\ s.highest # Unknown => s.highest \in Int /\ Reached(s.highest, peer, ourHeight, had, changes)
  BY <1>1, AnswerFinds
<1> HIDE DEF s
<1>5. CASE verifierPc' = "done" /\ result' = Undefined
  BY <1>1, <1>5, CheckFails
<1>6. CASE ~s.ended /\ verifierPc' = "probe" /\ verifierSearch' = s
  <2>1. Searched'
    BY <1>1, <1>4, <1>6 DEF Searched
  <2>2. Found'
    BY <1>6 DEF Found, Verifier!Verified
  <2> QED BY <1>1, <1>2, <1>6, <2>1, <2>2, CheckMoves
<1>7. CASE /\ s.ended /\ s.highest # Unknown /\ verifierPc' = "verify"
           /\ verify' = [from |-> s.highest + 1, next |-> s.highest + 1, fetched |-> s.highest, bad |-> FALSE]
  <2>1. s.highest \in Int /\ verify'.from = s.highest + 1
    BY <1>4, <1>7
  <2>2. verify'.from - 1 = s.highest /\ verify'.from \in Int
    BY <2>1
  <2>3. Found'
    BY <1>1, <1>4, <1>7, <2>2 DEF Found, Verifier!Verified
  <2>4. Searched'
    BY <1>7 DEF Searched
  <2> QED BY <1>1, <1>2, <1>7, <2>3, <2>4, CheckMoves
<1> QED
  BY <1>3, <1>5, <1>6, <1>7 DEF s

LEMMA VerifyKeeps ==
  ASSUME Verifier!VerifierAssumption, VerifierInv,
         \/ Verifier!RequestFails \/ Verifier!VerifyPeerBlocks \/ Verifier!NoValidators
         \/ Verifier!FetchBlocksFromHeight
  PROVE  VerifierInv'
<1>1. /\ UNCHANGED <<verifierOurs, peer, ourHeight, had, changes>>
  BY DEF Verifier!RequestFails, Verifier!VerifyPeerBlocks, Verifier!NoValidators, Verifier!FetchBlocksFromHeight
<1>2. CASE verifierPc' = "done" /\ result' \in {Undefined, Thrown}
  BY <1>1, <1>2, CheckFails
<1>3. ASSUME verifierPc \in {"verify", "fetch"}
      PROVE  /\ Measured /\ ourHeight \in 1..LastHeight
             /\ changes = 0 => ourHeight = verifierOurs.height
             /\ verify.from \in Int /\ Reached(verify.from - 1, peer, ourHeight, had, changes)
  BY <1>3 DEF Measured, VerifierInv, VerifierTyped, HadOurs, Found
<1>4. CASE /\ verifierPc \in {"verify", "fetch"} /\ verifierPc' \in {"verify", "fetch"}
           /\ verify'.from = verify.from
  <2>1. Searched'
    BY <1>4 DEF Searched
  <2>2. Found'
    BY <1>1, <1>3, <1>4 DEF Found, Verifier!Verified
  <2> QED BY <1>1, <1>3, <1>4, <2>1, <2>2, CheckMoves
<1>5. CASE /\ verifierPc = "verify" /\ verifierPc' = "done" /\ result' = Verifier!Result(verify.from - 1)
  <2>1. /\ result'.my = ourHeight /\ result'.his = peer.claim.height
        /\ result'.common = verify.from - 1
    BY <1>5 DEF Verifier!Result
  <2>2. Searched'
    BY <1>5 DEF Searched
  <2>3. Found'
    BY <1>1, <1>3, <1>5, <2>1 DEF Found
  <2> QED BY <1>1, <1>3, <1>5, <2>2, <2>3, CheckMoves
<1>6. CASE Verifier!RequestFails
  BY <1>2, <1>6 DEF Verifier!RequestFails, Verifier!End
<1>7. CASE Verifier!VerifyPeerBlocks
  <2>1. \/ verifierPc' = "done" /\ result' = Verifier!Result(verify.from - 1)
        \/ verify' = [verify EXCEPT !.next = @ + 1] /\ verifierPc' = verifierPc
        \/ verifierPc' = "done" /\ result' = Undefined
        \/ verifierPc' = "fetch" /\ verify' = verify
    BY <1>7 DEF Verifier!VerifyPeerBlocks, Verifier!End
  <2>2. verifierPc = "verify"
    BY <1>7 DEF Verifier!VerifyPeerBlocks
  <2>3. verify' = [verify EXCEPT !.next = @ + 1] => verify'.from = verify.from
    OBVIOUS
  <2> QED BY <1>2, <1>4, <1>5, <2>1, <2>2, <2>3
<1>8. CASE Verifier!NoValidators
  BY <1>2, <1>8 DEF Verifier!NoValidators, Verifier!End
<1>9. CASE Verifier!FetchBlocksFromHeight
  <2>1. PICK to, bad : verify' = [verify EXCEPT !.fetched = to, !.bad = @ \/ bad]
    BY <1>9 DEF Verifier!FetchBlocksFromHeight
  <2>2. verify'.from = verify.from
    BY <2>1
  <2>3. verifierPc = "fetch" /\ verifierPc' = "verify"
    BY <1>9 DEF Verifier!FetchBlocksFromHeight
  <2> QED BY <1>4, <2>2, <2>3
<1> QED BY <1>6, <1>7, <1>8, <1>9

LEMMA VerifierNext ==
  ASSUME Verifier!VerifierAssumption, VerifierInv, [Verifier!Next]_(Verifier!vars)
  PROVE  VerifierInv'
<1>1. CASE UNCHANGED Verifier!vars
  BY <1>1 DEF Verifier!vars, VerifierInv, VerifierTyped, HadOurs, HonestClaims, Searched, Found,
     Measured, Verifier!Verified, Verifier!OurBlocks, Verifier!Blocks, Verifier!Block
<1>2. CASE Verifier!Step
  BY <1>2, HeaderKeeps, HighestBlockKeeps, ProbeKeeps, CommonBlocksKeep, VerifyKeeps DEF Verifier!Step
<1>3. CASE Verifier!Late \/ Verifier!Grow \/ Verifier!Revert \/ Verifier!PeerGrows
  BY <1>3, MeanwhileKeeps
<1> QED
  BY <1>1, <1>2, <1>3 DEF Verifier!Next

-----------------------------------------------------------------------------
(* What a check that ended says *)

\* Our chain at the common height, while it did not change.
LEMMA ExactIfUnchanged ==
  ASSUME Verifier!VerifierAssumption, VerifierInv
  PROVE  Verifier!ExactWhenUnchanged
<1> SUFFICES ASSUME Verifier!Verified, peer.honest, changes = 0
             PROVE  /\ result.common = Verifier!Max({h \in 1..peer.claim.height :
                                                       Verifier!Block(h, "his") \in Verifier!OurBlocks})
                    /\ Verifier!Forked <=> /\ Verifier!OurBlocks \ Verifier!HisBlocks # {}
                                           /\ result.common < peer.claim.height
  BY DEF Verifier!ExactWhenUnchanged
<1> DEFINE c == result.common
           top == Common(peer, ourHeight)
           shared == {h \in 1..peer.claim.height : His(h) \in Verifier!OurBlocks}
<1>1. /\ c \in 1..top /\ His(c) \in Verifier!OurBlocks
      /\ \A h \in c + 1..top : His(h) \notin Verifier!OurBlocks
      /\ ourHeight = verifierOurs.height /\ result.my = ourHeight /\ result.his = peer.claim.height
  BY DEF VerifierInv, Found, Reached, HadOurs, Measured
<1>2. /\ top \in Int /\ top <= ourHeight /\ top <= peer.claim.height /\ ourHeight \in Int
      /\ peer.claim.height \in Int /\ peer.height \in Int /\ Fork \in Int
  BY VerifierRanges DEF Measured
<1>3. top = peer.claim.height \/ top = ourHeight
  BY DEF Common
<1> HIDE DEF top, c
<1>4. \A h \in shared : h \in Int /\ h <= c
  <2> TAKE h \in shared
  <2>1. h \in 1..peer.claim.height /\ His(h) \in Verifier!OurBlocks
    OBVIOUS
  <2>2. h \in Int /\ h <= ourHeight
    BY <2>1, <1>1, <1>2, OursIsHis DEF VerifierInv
  <2>3. h <= top
    BY <2>1, <2>2, <1>2, <1>3
  <2> QED BY <2>1, <2>2, <2>3, <1>1, <1>2
<1>5. c \in shared
  BY <1>1, <1>2
<1>6. c = Verifier!Max(shared)
  <2> HIDE DEF shared
  <2>1. \E m \in shared : \A x \in shared : m >= x
    BY <1>4, <1>5
  <2>2. Verifier!Max(shared) \in shared /\ \A x \in shared : Verifier!Max(shared) >= x
    BY <2>1 DEF Verifier!Max
  <2>3. Verifier!Max(shared) \in Int /\ Verifier!Max(shared) <= c /\ Verifier!Max(shared) >= c /\ c \in Int
    BY <2>2, <1>4, <1>5
  <2> QED BY <2>3
<1>7. Verifier!Block(c, verifierOurs.branch) = His(c)
  BY <1>1, <1>2, OursIsHis DEF VerifierInv
<1>8. ASSUME c # ourHeight, c # peer.claim.height
      PROVE  Verifier!OurBlocks \ Verifier!HisBlocks # {} /\ c < peer.claim.height
  <2>1. c + 1 \in 1..ourHeight /\ c + 1 \in 1..top /\ c < peer.claim.height
    BY <1>1, <1>2, <1>3, <1>8
  <2> DEFINE next == Verifier!Block(c + 1, verifierOurs.branch)
  <2>2. next \in Verifier!OurBlocks
    BY <2>1, <1>1 DEF Verifier!OurBlocks
  <2>3. ASSUME next \in Verifier!HisBlocks PROVE FALSE
    <3>1. PICK k \in 1..peer.height : next = Verifier!Block(k, "his")
      BY <2>3 DEF Verifier!HisBlocks
    <3>2. k = c + 1
      BY <3>1, <2>1, <1>2, BlocksAre
    <3>3. His(c + 1) \in Verifier!OurBlocks
      BY <3>1, <3>2, <2>2 DEF His
    <3>4. c + 1 \in c + 1..top
      BY <2>1, <1>2
    <3> QED BY <3>3, <3>4, <1>1 DEF c
  <2> QED BY <2>1, <2>2, <2>3
<1>9. ASSUME Verifier!OurBlocks \ Verifier!HisBlocks # {} PROVE c # ourHeight
  <2>1. PICK h \in 1..verifierOurs.height : Verifier!Block(h, verifierOurs.branch) \notin Verifier!HisBlocks
    BY <1>9 DEF Verifier!OurBlocks
  <2>2. SUFFICES ASSUME c = ourHeight PROVE FALSE
    OBVIOUS
  <2>3. h \in Int /\ h <= c /\ c \in Int
    BY <2>1, <2>2, <1>1, <1>2
  <2>4. Verifier!Block(h, verifierOurs.branch) = His(h)
    BY <2>3, <1>7, SameBelow DEF His
  <2>5. h \in 1..peer.height
    <3>1. peer.claim.height <= peer.height
      BY DEF VerifierInv, HonestClaims
    <3> QED BY <3>1, <2>1, <2>3, <1>1, <1>2
  <2>6. His(h) \in Verifier!HisBlocks
    BY <2>5 DEF Verifier!HisBlocks, His
  <2> QED BY <2>1, <2>4, <2>6
<1>10. Verifier!Forked <=> c # ourHeight /\ c # peer.claim.height
  BY <1>1 DEF Verifier!Forked, c
<1>11. c < peer.claim.height => c # peer.claim.height
  BY <1>2
<1> QED
  BY <1>6, <1>8, <1>9, <1>10, <1>11 DEF His, c

LEMMA VerifiedIsTrue ==
  ASSUME Verifier!VerifierAssumption, VerifierInv
  PROVE  CommonIsTrue
<1>1. Verifier!ExactWhenUnchanged
  BY ExactIfUnchanged
<1>2. ASSUME Verifier!Verified
      PROVE  /\ result.my = ourHeight /\ result.his = peer.claim.height
             /\ Reached(result.common, peer, ourHeight, had, changes)
             /\ Common(peer, ourHeight) \in {ourHeight, peer.claim.height}
             /\ Verifier!Min({result.my, result.his}) = Common(peer, ourHeight)
  <2>1. /\ result.my = ourHeight /\ result.his = peer.claim.height
        /\ Reached(result.common, peer, ourHeight, had, changes)
    BY <1>2 DEF VerifierInv, Found
  <2>2. Verifier!Min({peer.claim.height, ourHeight}) = Common(peer, ourHeight)
    BY <1>2, VerifierRanges DEF Measured
  <2>3. {result.my, result.his} = {peer.claim.height, ourHeight}
    BY <2>1
  <2> QED BY <2>1, <2>2, <2>3 DEF Common
<1>3. Verifier!CommonWasOurs
  BY <1>2 DEF Verifier!CommonWasOurs, Reached, His
<1>4. Verifier!ForkedMeansDiverged
  <2> SUFFICES ASSUME Verifier!Verified, peer.honest, Verifier!Forked, NoneOurs(had) PROVE FALSE
    BY DEF Verifier!ForkedMeansDiverged, NoneOurs
  <2>1. result.common = Common(peer, ourHeight)
    BY <1>2 DEF Reached
  <2> QED BY <2>1, <1>2 DEF Verifier!Forked
<1>5. Verifier!CommonInRange
  BY <1>2 DEF Verifier!CommonInRange, Reached
<1> QED
  BY <1>1, <1>3, <1>4, <1>5 DEF CommonIsTrue

\* A peer that answers honestly is found to share the highest block it shares
\* with us, or one it shared while our chain moved under the check, and is
\* counted as forked only if our chains did part (PeerVerifier.checkState); the
\* search asks it no more than logarithmically often, whatever it answers
\* (NSect.find). For any chains, ranges and numbers of parts.
THEOREM PeersStayVerified ==
  ASSUME Search!NSectAssumption, Verifier!VerifierAssumption
  PROVE  Search!Spec /\ Verifier!Spec => []PeersVerified
<1>1. Search!Spec => []SearchFinds
  BY SearchStays
<1>2. Verifier!Init => VerifierInv
  BY VerifierBegins
<1>3. VerifierInv /\ [Verifier!Next]_(Verifier!vars) => VerifierInv'
  BY VerifierNext
<1>4. VerifierInv => CommonIsTrue
  BY VerifiedIsTrue
<1>5. SearchFinds /\ CommonIsTrue => PeersVerified
  BY DEF PeersVerified
<1> QED
  BY <1>1, <1>2, <1>3, <1>4, <1>5, PTL DEF Verifier!Spec
=============================================================================
