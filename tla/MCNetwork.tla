------------------------------ MODULE MCNetwork -----------------------------
(* What a node knows of the others: how it verifies a peer, downloads blocks,  *)
(* relays new ones, paces its requests and keeps its peers. A behaviour is one  *)
(* of one component; each has its own small instance.                          *)
EXTENDS Network, TLC

VARIABLE component   \* the component this behaviour is of: no other one moves

NodePair == {"a", "b"}
OtherNode == [n \in NodePair |-> NodePair \ {n}]
ThreeSends == 1..3
ThreeIps == 1..3
Subnets == <<1, 2, 2>>

\* Two of three peers left our chain at height 9; one runs an old version.
ThreePeers == {"p1", "p2", "p3"}
HealthForks == "p1" :> 9 @@ "p2" :> 9 @@ "p3" :> Nothing
HealthVersions == "p1" :> 2 @@ "p2" :> 2 @@ "p3" :> 1
HealthVersionNeeded == [h \in 1..10 |-> IF h < 10 THEN 1 ELSE 2]
HealthCalls == [state |-> 2, health |-> 2]

ASSUME NetworkInstance == NetworkAssumption

verifierVars == <<verifierOurs, peer, verifierPc, ourHeight, verifierSearch, asked, verify,
    result, late, had, changes>>
searchVars == <<search, matching, honest>>
downloadVars == <<size, cache, call, branch>>
gossipVars == <<chain, ping, serving, queue, waiting, msgs, relays>>
requestsVars == <<requestsPc, left, used, connected, requestsAge, timers, errors, sent,
    failures, created>>
peersVars == <<peersPc, repo, pending, verifying, awaited, own, pings, peersAge, up>>
healthVars == <<healthOurs, theirs, known, healthPings, calls, monitor>>
networkVars == <<component, verifierVars, searchVars, downloadVars, gossipVars, requestsVars,
    peersVars, healthVars>>

NetworkInit ==
    /\ component \in {"verifier", "search", "download", "gossip", "requests", "peers", "health", "both"}
    /\ Verifier!Init
       /\ (component # "verifier" =>
             verifierOurs = [height |-> 1, branch |-> "his"] /\ ~peer.honest /\ peer.claim.height = 1)
    /\ IF component = "search" THEN Search!Init
       ELSE search = Search!Begun(1, 1) /\ matching = 1 /\ honest = TRUE
    /\ Downloads!Init
    /\ Init
    /\ Requests!Init
    /\ Known!Init
    /\ Health!Init /\ Health!Known = IF component = "both" THEN {"p1", "p3"} ELSE HealthPeers

NetworkNext ==
    \/ component = "verifier" /\ Verifier!Next
       /\ UNCHANGED <<component, searchVars, downloadVars, gossipVars, requestsVars, peersVars,
          healthVars>>
    \/ component = "search" /\ Search!Next
       /\ UNCHANGED <<component, verifierVars, downloadVars, gossipVars, requestsVars, peersVars,
          healthVars>>
    \/ component = "download" /\ Downloads!Next
       /\ UNCHANGED <<component, verifierVars, searchVars, gossipVars, requestsVars, peersVars,
          healthVars>>
    \/ component = "gossip" /\ Next
       /\ UNCHANGED <<component, verifierVars, searchVars, downloadVars, requestsVars, peersVars,
          healthVars>>
    \/ component = "requests" /\ Requests!Next
       /\ UNCHANGED <<component, verifierVars, searchVars, downloadVars, gossipVars, peersVars,
          healthVars>>
    \/ component = "peers" /\ Known!Next
       /\ UNCHANGED <<component, verifierVars, searchVars, downloadVars, gossipVars, requestsVars,
          healthVars>>
    \/ component = "health" /\ Health!Next /\ calls'["state"].made = 0
       /\ UNCHANGED <<component, verifierVars, searchVars, downloadVars, gossipVars, requestsVars,
          peersVars>>
    \/ component = "both" /\ Health!Next /\ calls'["health"].made <= 1 /\ theirs'["p2"] = OurStart
       /\ UNCHANGED <<component, verifierVars, searchVars, downloadVars, gossipVars, requestsVars,
          peersVars>>

NetworkSpec == NetworkInit /\ [][NetworkNext]_networkVars

\* The values the variables of each component take.
NetworkTypeOK ==
    /\ Search!TypeOK
    /\ Verifier!TypeOK
    /\ Downloads!TypeOK
    /\ TypeOK
    /\ Requests!TypeOK
    /\ Known!TypeOK
    /\ Health!TypeOK

=============================================================================
