-------------------------------- MODULE Peers --------------------------------
(* The table of peers (core-p2p PeerRepository, PeerProcessor) and what fills  *)
(* and empties it: NetworkMonitor's update of the network status, which starts *)
(* itself again after a while, other checks of all peers beside it, and the    *)
(* listeners of the disconnect event. Peers are known by their ip.             *)
EXTENDS Integers, FiniteSets, FiniteSetsExt

CONSTANTS Ips, Seeds,   \* the seeds of peers.json
          Subnet,       \* Subnet[p]: the /24 network of p
          MaxSameSubnet, MinimumReach,
          PingDelay     \* ticks a check of all peers is to take at most

PeersAssumption == /\ IsFiniteSet(Ips) /\ Seeds \subseteq Ips /\ Seeds # {} /\ DOMAIN Subnet = Ips
                          /\ MaxSameSubnet \in Nat /\ MinimumReach \in Nat \ {0} /\ PingDelay \in Nat

VARIABLES pc,         \* of updateNetworkStatus, which starts with boot
          repo,       \* #peers
          pending,    \* #peersPending
          verifying,  \* runs of #acceptNewPeer of each ip
          awaited,    \* the runs that the update waits for
          own,        \* peers there were when the update asked for more
          pings,      \* pings under way of the update and of another check
          age,        \* ticks the update's check takes
          up          \* peers that answer, are valid and verified

vars == <<pc, repo, pending, verifying, awaited, own, pings, age, up>>

Checks == {"update", "other"}

-----------------------------------------------------------------------------

HasMinimumPeers == Cardinality(repo) >= MinimumReach

SameSubnetPeers(p) == {q \in repo : Subnet[q] = Subnet[p]}

\* validatePeerIp.
ValidPeer(p, seed) == p \notin pending /\ (seed \/ Cardinality(SameSubnetPeers(p)) < MaxSameSubnet)

\* #acceptNewPeer of each, up to the ping.
Accept(ps, waits) == LET new == ps \ repo' IN
    /\ pending' = pending \union new /\ awaited' = waits \intersect pending'
    /\ verifying' = [p \in Ips |-> IF p \in new THEN verifying[p] + 1 ELSE verifying[p]]

\* #populateSeedPeers: the seeds are forgotten first.
PopulateSeedPeers ==
    /\ repo' = repo \ Seeds
    /\ LET new == {p \in Seeds : ValidPeer(p, TRUE)} IN Accept(new, new)

Boot == /\ pc = "boot" /\ pc' = "bootSeeds" /\ PopulateSeedPeers
        /\ UNCHANGED <<own, pings, age, up>>

\* discoverPeers: up to eight peers are asked for theirs.
AskPeers ==
    /\ (pc = "bootSeeds" /\ awaited = {} /\ pc' = "bootAnswers") \/ (pc = "asleep" /\ pc' = "answers")
    /\ own' = Cardinality(repo)
    /\ UNCHANGED <<repo, pending, verifying, awaited, pings, age, up>>

\* Their answers; a peer of the table is not accepted again. Limits are looked
\* at for one after the other, but acceptances do not end between.
Answers ==
    /\ pc \in {"bootAnswers", "answers"}
    /\ \E theirs \in SUBSET Ips :
          /\ repo = {} => theirs = {}
          /\ IF pc = "bootAnswers" \/ ~HasMinimumPeers \/ 4 * own < 3 * Cardinality(theirs)
             THEN /\ pc' = "accepting" /\ UNCHANGED repo
                  /\ LET new == {p \in theirs : ValidPeer(p, FALSE)} IN Accept(new, new)
             ELSE pc' = "minimum" /\ UNCHANGED <<repo, pending, verifying, awaited>>
    /\ UNCHANGED <<own, pings, age, up>>

\* cleansePeers of the update pings all peers.
CleansePeers ==
    /\ pc = "accepting" /\ awaited = {} /\ pc' = "cleanse" /\ age' = 0
    /\ pings' = [pings EXCEPT !["update"] = repo]
    /\ UNCHANGED <<repo, pending, verifying, awaited, own, up>>

Cleansed ==
    /\ pc = "cleanse" /\ pings["update"] = {} /\ pc' = "minimum" /\ age' = 0
    /\ UNCHANGED <<repo, pending, verifying, awaited, own, pings, up>>

\* Fall back to seed peers, or schedule the next update.
Minimum ==
    /\ pc = "minimum"
    /\ IF HasMinimumPeers THEN pc' = "asleep" /\ UNCHANGED <<repo, pending, verifying, awaited>>
       ELSE pc' = "seeds" /\ PopulateSeedPeers
    /\ UNCHANGED <<own, pings, age, up>>

Schedule ==
    /\ pc = "seeds" /\ awaited = {} /\ pc' = "asleep"
    /\ UNCHANGED <<repo, pending, verifying, awaited, own, pings, age, up>>

Update == Boot \/ AskPeers \/ Answers \/ CleansePeers \/ Cleansed \/ Minimum \/ Schedule

-----------------------------------------------------------------------------
\* Faulty variant: only what succeeds is tidied up.
ForgetPendingAccepted(p, ok) == IF ok THEN pending \ {p} ELSE pending

\* forgetPendingPeer, in finally.
ForgetPending(p, ok) == pending \ {p}

\* The ping of a new peer ends.
Accepted(p) ==
    /\ verifying[p] > 0 /\ verifying' = [verifying EXCEPT ![p] = @ - 1]
    /\ repo' = IF p \in up THEN repo \union {p} ELSE repo
    /\ pending' = ForgetPending(p, p \in up) /\ awaited' = awaited \ {p}
    /\ UNCHANGED <<pc, own, pings, age, up>>

\* checkNetworkHealth discovers peers beside the update.
OtherDiscovery ==
    /\ repo # {}
    /\ UNCHANGED <<pc, repo, own, pings, age, up>>
    /\ \E theirs \in SUBSET Ips : Accept({p \in theirs : ValidPeer(p, FALSE)}, awaited)

\* It and refreshPeersAfterFork check all peers, too.
OtherCheck ==
    /\ pings["other"] = {} /\ repo # {}
    /\ pings' = [pings EXCEPT !["other"] = repo]
    /\ UNCHANGED <<pc, repo, pending, verifying, awaited, own, age, up>>

\* A ping ends; one that failed disconnects the peer and forgets its ip. The
\* update does not ping again what was pinged within two minutes.
Pinged(c, p) ==
    /\ p \in pings[c] /\ pings' = [pings EXCEPT ![c] = @ \ {p}]
    /\ \/ p \in up /\ UNCHANGED repo
       \/ p \notin up /\ repo' = repo \ {p}
       \/ c = "update" /\ UNCHANGED repo
    /\ UNCHANGED <<pc, pending, verifying, awaited, own, age, up>>

\* A peer fails too many requests, or its version is not valid any more.
Disconnect(p) ==
    /\ p \in repo \ up /\ repo' = repo \ {p}
    /\ UNCHANGED <<pc, pending, verifying, awaited, own, pings, age, up>>

Tick ==
    /\ pc = "cleanse" /\ age <= PingDelay /\ age' = age + 1
    /\ UNCHANGED <<pc, repo, pending, verifying, awaited, own, pings, up>>

UpOrDown ==
    /\ \E ps \in SUBSET Ips : ps # up /\ up' = ps
    /\ UNCHANGED <<pc, repo, pending, verifying, awaited, own, pings, age>>

Init ==
    /\ pc = "boot" /\ repo = {} /\ pending = {} /\ verifying = [p \in Ips |-> 0]
    /\ awaited = {} /\ own = 0 /\ pings = [c \in Checks |-> {}] /\ age = 0 /\ up = {}

Next ==
    \/ Update \/ OtherDiscovery \/ OtherCheck \/ Tick \/ UpOrDown
    \/ \E p \in Ips : Accepted(p) \/ Disconnect(p) \/ \E c \in Checks : Pinged(c, p)

\* Requests end and timers fire.
Spec == /\ Init /\ [][Next]_vars /\ WF_vars(Update)
        /\ \A p \in Ips : WF_vars(Accepted(p)) /\ \A c \in Checks : WF_vars(Pinged(c, p))

-----------------------------------------------------------------------------
\* No ip is verified twice at a time, whoever found it.
TypeOK ==
    /\ pc \in {"boot", "bootSeeds", "bootAnswers", "answers", "accepting", "cleanse", "minimum", "seeds", "asleep"}
    /\ verifying \in [Ips -> 0..1] /\ awaited \subseteq pending /\ own \in 0..Cardinality(Ips)
    /\ pings \in [Checks -> SUBSET Ips] /\ up \subseteq Ips /\ age \in 0..(PingDelay + 1)

\* A pending ip is one whose verification runs, so that none is refused for
\* ever, and is not in the table.
PendingIsVerified == \A p \in Ips : (p \in pending <=> verifying[p] = 1) /\ (p \in pending => p \notin repo)

\* Seeds that answer are peers again and again, or others are.
NeverAlone == <>[](Seeds \subseteq up) => []<>(repo # {})

\* Below the minimum, seeds are asked, or the minimum is reached before.
FallsBackToSeeds == (Cardinality(repo) < MinimumReach) ~> (Cardinality(repo) >= MinimumReach \/ pc = "seeds")

\* Does not hold (README, section 5):
\* The limit of peers of a subnet holds for all but seeds ("we are already at
\* the ... limit for peers sharing the same /24 subnet", peer-processor.ts).
SubnetLimit == \A p \in repo \ Seeds : Cardinality(SameSubnetPeers(p) \ Seeds) <= MaxSameSubnet

\* Does not hold (README, section 5):
\* The check of all peers ends in time ("we use Promise.race to cut loose in
\* case some communicator.ping() does not resolve within the delay",
\* network-monitor.ts).
CutsLoose == age <= PingDelay
=============================================================================
