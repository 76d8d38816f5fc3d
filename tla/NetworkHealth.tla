--------------------------- MODULE NetworkHealth ---------------------------
(* What the others say of themselves and what the node concludes: pings of the  *)
(* accepted peers, the state of the network that the forger asks for, and the   *)
(* check of the network's health that decides how many blocks are rolled back.  *)
(* Our chain and the peers' chains move while the pings run. (How peers are     *)
(* accepted is the subject of Peers, how one is verified of PeerVerifier.)      *)
EXTENDS Integers, FiniteSets

CONSTANTS
  Peers,       \* the peers; those of them that are accepted at first are known
  ForkAt,      \* the last height each shares with us, None if on our chain
  Version,     \* the version each announces, None if it is not a version
  Foreign,     \* the peers of another network
  Required,    \* the version that the milestone of a height requires at least
  Reach,       \* minimumNetworkReach
  MaxRollback, \* blocks rolled back at most (5000)
  Start,       \* the height of our chain at first
  MaxHeight,   \* bound: heights
  MaxCalls,    \* bound: how often each call is made
  None

HealthAssumption ==
  /\ IsFiniteSet(Peers) /\ Start \in 1..MaxHeight /\ MaxHeight \in Nat
  /\ ForkAt \in [Peers -> 1..MaxHeight \cup {None}] /\ Foreign \subseteq Peers
  /\ Required \in [1..MaxHeight -> Nat] /\ Reach \in Nat /\ MaxRollback \in Nat \ {0}
  /\ MaxCalls \in [{"state", "health"} -> Nat]

VARIABLES
  ours,    \* our chain: its last height, whether it lost a block during a check
  theirs,  \* the last height of each peer
  known,   \* the repository: what each peer's object holds, None once removed
  pings,   \* the ping of each call to each peer
  calls,   \* how often each call was made, whether it runs
  monitor  \* cold start, and what the last calls returned

vars == <<ours, theirs, known, pings, calls, monitor>>

Call == {"state", "health"}
Unpinged == [height |-> None, result |-> None]
NotPinged == [phase |-> "none", height |-> None]

Known == {p \in Peers : known[p] # None}

-----------------------------------------------------------------------------
\* isValidVersion: a version, and one of the minimum versions is satisfied.
IsValidVersion(p) == Version[p] # None /\ Version[p] >= Required[ours.height]

ValidConfig(p) == p \notin Foreign /\ IsValidVersion(p)

Lesser(m, n) == IF m < n THEN m ELSE n

\* PeerVerifier.checkState, of a chain at rest: the highest common height.
CheckState(p, his) ==
  LET both == Lesser(ours.height, his)
  IN  [my |-> ours.height, his |-> his,
       common |-> IF ForkAt[p] = None THEN both ELSE Lesser(ForkAt[p], both)]

Forked(result) == result.common # result.my /\ result.common # result.his

\* Both calls ping every peer again, however recently it was pinged.
StartCall(c) ==
  /\ ~calls[c].runs /\ calls[c].made < MaxCalls[c]
  /\ calls' = [calls EXCEPT ![c] = [made |-> @.made + 1, runs |-> TRUE]]
  /\ pings' = [pings EXCEPT ![c] = [p \in Peers |->
                 IF p \in Known THEN [NotPinged EXCEPT !.phase = "asked"] ELSE NotPinged]]
  /\ ours' = IF c = "health" THEN [ours EXCEPT !.shrank = FALSE] ELSE ours
  /\ UNCHANGED <<theirs, known, monitor>>

\* The peer says its height; the ping goes on to verify it.
Answered(c, p) ==
  /\ pings[c][p].phase = "asked" /\ ValidConfig(p)
  /\ pings' = [pings EXCEPT ![c][p] = [phase |-> "answered", height |-> theirs[p]]]
  /\ UNCHANGED <<ours, theirs, known, calls, monitor>>

\* Verified: what the peer said counts from now on.
Verified(c, p) ==
  /\ pings[c][p].phase = "answered"
  /\ known' = [known EXCEPT ![p] = IF @ = None THEN None ELSE
       [height |-> pings[c][p].height, result |-> CheckState(p, pings[c][p].height)]]
  /\ pings' = [pings EXCEPT ![c][p] = NotPinged]
  /\ UNCHANGED <<ours, theirs, calls, monitor>>

\* No answer, a config that is not valid, no time left, not verified: the peer
\* is removed.
PingFails(c, p) ==
  /\ pings[c][p].phase # "none"
  /\ known' = [known EXCEPT ![p] = None]
  /\ pings' = [pings EXCEPT ![c][p] = NotPinged]
  /\ UNCHANGED <<ours, theirs, calls, monitor>>

\* cleansePeers waits for all pings of its own.
Cleansed(c) == calls[c].runs /\ \A p \in Peers : pings[c][p] = NotPinged
Ends(c) == calls' = [calls EXCEPT ![c].runs = FALSE]

-----------------------------------------------------------------------------
\* NetworkState: a peer above us is not of the quorum, nor is a forked one.
IsForked(p) == known[p].result # None /\ Forked(known[p].result)
OverHeight == {p \in Known : known[p].height > ours.height}
Quorum == {p \in Known \ OverHeight : ~IsForked(p)}

\* The first state after a cold start says only that.
GetNetworkState ==
  /\ Cleansed("state") /\ Ends("state")
  /\ \A p \in Known : known[p].height # None
  /\ monitor' = [monitor EXCEPT !.cold = FALSE, !.state =
       [status |-> IF monitor.cold THEN "cold start"
                   ELSE IF Cardinality(Known) < Reach THEN "below minimum peers" ELSE "default",
        height |-> ours.height, agree |-> Quorum, over |-> OverHeight, of |-> Known]]
  /\ UNCHANGED <<ours, theirs, known, pings>>

\* getNetworkHeight: the median of the heights that peers said.
Saying == {p \in Known : known[p].height # None}
GetNetworkHeight ==
  IF Saying = {} THEN 0
  ELSE CHOOSE h \in {known[p].height : p \in Saying} :
         /\ Cardinality({p \in Saying : known[p].height < h}) <= Cardinality(Saying) \div 2
         /\ Cardinality({p \in Saying : known[p].height <= h}) > Cardinality(Saying) \div 2

-----------------------------------------------------------------------------
\* checkNetworkHealth.

VerifiedPeers == {p \in Known : known[p].result # None}
Forkers(h) == {p \in VerifiedPeers : Forked(known[p].result) /\ known[p].result.common = h}
\* Those that have a higher block in common with us, and we.
WithUs(h) == Cardinality({p \in VerifiedPeers : known[p].result.common > h}) + 1
ForkHeights == {h \in 1..MaxHeight : Forkers(h) # {}}
Outvoted(h) == Cardinality(Forkers(h)) > WithUs(h)

\* sort() compares the heights as texts: 1 < 10 < 11 < 2.
Digits(n) == CHOOSE d \in 1..n : 10^(d - 1) <= n /\ n < 10^d
TextBefore(m, n) ==
  IF Digits(m) <= Digits(n) THEN m # n /\ m <= n \div 10^(Digits(n) - Digits(m))
  ELSE m \div 10^(Digits(m) - Digits(n)) < n
TextRank(n) == Cardinality({m \in 1..MaxHeight : TextBefore(m, n)})

Healthy == [forked |-> FALSE, at |-> None, rollback |-> 0, height |-> ours.height, by |-> {},
            shrank |-> ours.shrank]

\* Faulty variant: the peers that agree with us are not counted.
NetworkStatusOfForks ==
  IF ForkHeights = {} THEN Healthy
  ELSE LET at == CHOOSE h \in ForkHeights : \A k \in ForkHeights : TextRank(k) <= TextRank(h)
       IN  [forked |-> TRUE, at |-> at, rollback |-> Lesser(ours.height - at, MaxRollback),
            height |-> ours.height, by |-> Forkers(at), shrank |-> ours.shrank]

\* The first fork with more peers than are with us; not more than MaxRollback.
NetworkStatus ==
  LET forks == {h \in ForkHeights : Outvoted(h)}
  IN  IF forks = {} THEN Healthy
      ELSE LET at == CHOOSE h \in forks : \A k \in forks : TextRank(k) <= TextRank(h)
           IN  [forked |-> TRUE, at |-> at, rollback |-> Lesser(ours.height - at, MaxRollback),
                height |-> ours.height, by |-> Forkers(at), shrank |-> ours.shrank]

CheckNetworkHealth ==
  /\ Cleansed("health") /\ Ends("health")
  /\ monitor' = [monitor EXCEPT !.health = NetworkStatus]
  /\ UNCHANGED <<ours, theirs, known, pings>>

-----------------------------------------------------------------------------
\* What moves meanwhile.
Grow ==
  /\ ours.height < MaxHeight /\ ours' = [ours EXCEPT !.height = @ + 1]
  /\ UNCHANGED <<theirs, known, pings, calls, monitor>>
Revert ==
  /\ ours.height > Start /\ ours' = [height |-> ours.height - 1, shrank |-> TRUE]
  /\ UNCHANGED <<theirs, known, pings, calls, monitor>>
PeerGrows(p) ==
  /\ theirs[p] < MaxHeight /\ theirs' = [theirs EXCEPT ![p] = @ + 1]
  /\ UNCHANGED <<ours, known, pings, calls, monitor>>

Init ==
  /\ ours = [height |-> Start, shrank |-> FALSE] /\ theirs = [p \in Peers |-> Start]
  /\ \E accepted \in SUBSET Peers : known = [p \in Peers |-> IF p \in accepted THEN Unpinged ELSE None]
  /\ pings = [c \in Call |-> [p \in Peers |-> NotPinged]]
  /\ calls = [c \in Call |-> [made |-> 0, runs |-> FALSE]]
  /\ monitor = [cold |-> TRUE, state |-> None, health |-> Healthy]

Next ==
  \/ \E c \in Call : StartCall(c) \/ \E p \in Peers : Answered(c, p) \/ Verified(c, p) \/ PingFails(c, p)
  \/ GetNetworkState \/ CheckNetworkHealth
  \/ Grow \/ Revert \/ \E p \in Peers : PeerGrows(p)

Spec == Init /\ [][Next]_vars

-----------------------------------------------------------------------------
\* Properties.

\* The values the variables take.
TypeOK ==
  /\ ours.height \in 1..MaxHeight /\ theirs \in [Peers -> 1..MaxHeight]
  /\ \A p \in Known : known[p].height \in 1..MaxHeight \cup {None}
  /\ \A c \in Call, p \in Peers : pings[c][p].phase \in {"none", "asked", "answered"}
  /\ GetNetworkHeight \in 0..MaxHeight

\* However the pings of two calls mix, what a peer says of its height and what
\* was verified of it come from the same answer.
StateIsVerified ==
  \A p \in Known : known[p].result # None => known[p].result.his = known[p].height

\* A state of the network counts each peer it saw once, and counts a peer on our
\* chain as forked in no case.
QuorumIsOurs ==
  monitor.state # None =>
    /\ monitor.state.agree \cap monitor.state.over = {}
    /\ \A p \in monitor.state.of \ (monitor.state.agree \cup monitor.state.over) : ForkAt[p] # None
    /\ monitor.state.status = "default" => Cardinality(monitor.state.of) >= Reach

\* Blocks are rolled back only for peers that are on another branch since that
\* height and outnumber us, and, if our chain lost no block during the check,
\* at least one block is and none below the fork.
RollsBackToFork ==
  monitor.health.forked =>
    /\ Cardinality(monitor.health.by) > 1
    /\ \A p \in monitor.health.by : ForkAt[p] = monitor.health.at
    /\ ~monitor.health.shrank =>
          /\ monitor.health.rollback \in 1..MaxRollback
          /\ monitor.health.height - monitor.health.rollback >= monitor.health.at
=============================================================================
