------------------------------- MODULE Gossip -------------------------------
(* How a forged block spreads (core-p2p PostBlockController and                *)
(* NetworkMonitor.broadcastBlock, core-blockchain handleIncomingBlock and      *)
(* ProcessBlocksJob, core-state block pings). Every node runs this code; all   *)
(* blocks are of one chain, so a block is its height. Messages may be late and *)
(* overtake each other.                                                        *)
EXTENDS Integers, Sequences, FiniteSets, FiniteSetsExt, Functions

CONSTANTS Nodes, Peers,   \* Peers[n]: the nodes n has as peers
          MaxHeight,        \* bound: the height of the last block
          MaxHop,         \* maxHop (4)
          MaxWork,        \* bound: requests a node serves at once
          NoPing

GossipAssumption == /\ MaxHeight \in Nat \ {0} /\ MaxHop \in Nat \ {0}
                           /\ MaxWork \in Nat /\ Peers \in [Nodes -> SUBSET Nodes]

VARIABLES chain,    \* the last block of each node
          ping,     \* #blockPing: [block, count, fromForger]
          serving,  \* blocks that were let in and wait for their slot numbers, see PushPing
          queue,    \* blocks to be processed
          waiting,  \* broadcasts that wait because they are early
          msgs,     \* [to, block] under way
          relays    \* history: how often a node broadcast a block

vars == <<chain, ping, serving, queue, waiting, msgs, relays>>

Blocks == 1..MaxHeight

\* Faulty variant: the copy that brought a block is not counted.
PingOfNone(b, fromForger) == [block |-> b, count |-> 0, fromForger |-> fromForger]

PingOf(b, fromForger) == [block |-> b, count |-> IF fromForger THEN 0 ELSE 1, fromForger |-> fromForger]

\* A ping is counted; from MaxHop on its count makes no difference.
Pinged(p) == [p EXCEPT !.count = Min({MaxHop, @ + 1})]

\* Math.ceil of the quota of our peers.
Portion(n) == ((MaxHop - ping[n].count) * Cardinality(Peers[n]) + MaxHop - 1) \div MaxHop

IsPing(n, b) == ping[n] # NoPing /\ ping[n].block = b

-----------------------------------------------------------------------------
(* PostBlockController. isBlockChained is not awaited, so any block is let in. *)

Receive(n, b) ==
    /\ [to |-> n, block |-> b] \in msgs
    /\ msgs' = msgs \ {[to |-> n, block |-> b]}
    /\ IF IsPing(n, b)
       THEN ping' = [ping EXCEPT ![n] = Pinged(@)] /\ UNCHANGED serving
       ELSE /\ Len(serving[n]) < MaxWork
            /\ serving' = [serving EXCEPT ![n] = Append(@, b)] /\ UNCHANGED ping
    /\ UNCHANGED <<chain, queue, waiting, relays>>

\* handleIncomingBlock after its waits.
PushPing(n) ==
    /\ serving[n] # <<>>
    /\ LET b == Head(serving[n])
       IN  ping' = [ping EXCEPT ![n] = PingOf(b, FALSE)] /\ queue' = [queue EXCEPT ![n] = Append(@, b)]
    /\ serving' = [serving EXCEPT ![n] = Tail(@)]
    /\ UNCHANGED <<chain, waiting, msgs, relays>>

\* Our forger's block comes the same way, unless it comes too late.
Forge(n) ==
    /\ chain[n] < MaxHeight /\ \A m \in Nodes : chain[m] <= chain[n]
    /\ \A m \in Nodes : chain[n] + 1 \notin Range(queue[m])
    /\ ping' = [ping EXCEPT ![n] = PingOf(chain[n] + 1, TRUE)]
    /\ queue' = [queue EXCEPT ![n] = Append(@, chain[n] + 1)]
    /\ UNCHANGED <<chain, serving, waiting, msgs, relays>>

Send(n, b, to) ==
    /\ msgs' = msgs \union {[to |-> m, block |-> b] : m \in to}
    /\ relays' = IF to = {} THEN relays ELSE [relays EXCEPT ![n][b] = Min({2, @ + 1})]

\* broadcastBlock: to all peers if the block is not the one that was pinged, or
\* is our forger's; else to the portion that its pings leave, after a while if
\* they came within half a second, as a single ping does.
BroadcastBlock(n, b) ==
    IF ~IsPing(n, b) \/ ping[n].fromForger
    THEN Send(n, b, Peers[n]) /\ UNCHANGED waiting
    ELSE \/ /\ ping[n].count > 1
            /\ \E to \in kSubset(Portion(n), Peers[n]) : Send(n, b, to)
            /\ UNCHANGED waiting
         \/ /\ Portion(n) > 0 /\ waiting' = [waiting EXCEPT ![n] = @ \union {b}]
            /\ UNCHANGED <<msgs, relays>>

\* Faulty variant: the wait is an interval, which goes on.
AfterWaitAgain(n, b) ==
    /\ b \in waiting[n]
    /\ IF ping[n].block # b THEN UNCHANGED <<msgs, relays>>
       ELSE \E to \in kSubset(Portion(n), Peers[n]) : Send(n, b, to)
    /\ UNCHANGED <<chain, ping, serving, queue, waiting>>

AfterWait(n, b) ==
    /\ b \in waiting[n] /\ waiting' = [waiting EXCEPT ![n] = @ \ {b}]
    /\ IF ping[n].block # b THEN UNCHANGED <<msgs, relays>>
       ELSE \E to \in kSubset(Portion(n), Peers[n]) : Send(n, b, to)
    /\ UNCHANGED <<chain, ping, serving, queue>>

\* Faulty variant: a block that is not accepted is broadcast too.
CanBeBroadcastAlways(n, b) == TRUE

\* The block was accepted, or is ours already (UnchainedHandler).
CanBeBroadcast(n, b) == b <= chain[n] + 1

\* ProcessBlocksJob with one received block. The machine may be in another
\* state than newBlock by then, and then nothing is broadcast.
ProcessBlock(n) ==
    /\ queue[n] # <<>>
    /\ LET b == Head(queue[n])
       IN  /\ queue' = [queue EXCEPT ![n] = IF b = chain[n] + 1 THEN Tail(@) ELSE <<>>]
           /\ chain' = [chain EXCEPT ![n] = IF b = @ + 1 THEN b ELSE @]
           /\ \/ CanBeBroadcast(n, b) /\ BroadcastBlock(n, b)
              \/ UNCHANGED <<waiting, msgs, relays>>
    /\ UNCHANGED <<ping, serving>>

\* Blocks that did not come this way are downloaded.
Download(n) ==
    /\ queue[n] = <<>>
    /\ \E m \in Peers[n] : chain[m] > chain[n] /\ chain' = [chain EXCEPT ![n] = chain[m]]
    /\ UNCHANGED <<ping, serving, queue, waiting, msgs, relays>>

Init ==
    /\ chain = [n \in Nodes |-> 0] /\ ping = [n \in Nodes |-> NoPing]
    /\ serving = [n \in Nodes |-> <<>>] /\ queue = [n \in Nodes |-> <<>>]
    /\ waiting = [n \in Nodes |-> {}] /\ msgs = {}
    /\ relays = [n \in Nodes |-> [b \in Blocks |-> 0]]

Handle(n) == PushPing(n) \/ ProcessBlock(n) \/ \E b \in Blocks : Receive(n, b) \/ AfterWait(n, b)

Next == \E n \in Nodes : Handle(n) \/ Forge(n) \/ Download(n)

\* Requests are served, jobs run and timers fire.
Spec == Init /\ [][Next]_vars /\ \A n \in Nodes : WF_vars(Handle(n)) /\ WF_vars(Download(n))

-----------------------------------------------------------------------------
\* Types; a ping that is not our forger's was counted.
TypeOK ==
    /\ \A n \in Nodes : ping[n] = NoPing \/ ping[n].fromForger \/ ping[n].count \in 1..MaxHop
    /\ chain \in [Nodes -> 0..MaxHeight] /\ msgs \subseteq [to : Nodes, block : Blocks]
    /\ \A n \in Nodes : waiting[n] \subseteq Blocks /\ Len(serving[n]) <= MaxWork

\* Nobody is sent a block before some peer of it has accepted it.
RelayedByHolders == \A m \in msgs : \E n \in Nodes : m.to \in Peers[n] /\ chain[n] >= m.block

\* Broadcasts come to an end ("got aleady a new block, no broadcast",
\* network-monitor.ts; "disregarded because already in blockchain",
\* unchained-handler.ts).
BroadcastsEnd == <>[](msgs = {} /\ \A n \in Nodes : waiting[n] = {} /\ queue[n] = <<>>)

\* Does not hold (README, section 5):
\* A node broadcasts a block once: any other copy of it is a ping ("Previous
\* block ... pinged blockchain ... times", state.ts).
RelaysOnce == \A n \in Nodes, b \in Blocks : relays[n][b] <= 1
=============================================================================
