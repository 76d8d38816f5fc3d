------------------------------- MODULE MCEnds -------------------------------
(* What must end or go on: the liveness of the components, on instances small  *)
(* enough for it. A behaviour is one of one component, with the fairness of its *)
(* own specification.                                                          *)
EXTENDS Integers, Sequences, FiniteSets, TLC

CONSTANTS anna, bert, None, Undefined, Threw, NoBlockPing

VARIABLES
    component,   \* the component this behaviour is of: no other one moves
    storage, mempool, calls, blocks, accepted, cleaning, failed, readding, node, count,
    size, cache, call, branch,
    chain, ping, serving, queue, waiting, msgs, relays,
    pc, left, used, connected, age, timers, errors, sent, failures, created,
    peersPc, repo, pending, verifying, awaited, own, pings, peersAge, up,
    ours, peer, verifierPc, ourHeight, search, asked, verify, result, late, had, changes,
    phase, at, config, aliases, bound, loaded, bootFailed, deferred, active, listeners,
    bootCalls, closing, after, booted, bootBlocks, reboots

Transfer(s, n, fee) ==
    [sender |-> s, nonce |-> n, fee |-> fee, kind |-> "transfer", name |-> None, expiration |-> 0]
PoolTransactions == {Transfer(anna, 1, 1), [Transfer(anna, 2, 2) EXCEPT !.kind = "vote"], Transfer(bert, 1, 2)}
Nodes == 1..3
BootPlugins == <<"state", "database", "chain", "hooks">>
BootProviders == {"state", "database", "chain", "hooks"}
PluginAlias == [p \in BootProviders |-> IF p = "database" THEN "db" ELSE None]
PluginOptions == [p \in BootProviders |-> IF p = "hooks" THEN [enabled |-> "yes"] ELSE <<>>]
NoOptions == [p \in BootProviders |-> <<>>]
Needs(name, required) == [name |-> name, required |-> required, inRange |-> TRUE]
PluginNeeds ==
    [p \in BootProviders |-> CASE p = "chain" -> <<Needs("state", TRUE)>> [] p = "hooks" -> <<Needs("gone", TRUE)>>
                              [] OTHER -> <<>>]
BootsWhen == [p \in BootProviders |-> IF p = "state" THEN {"database"} ELSE {None}]
Never == [p \in BootProviders |-> {}]

Pool == INSTANCE TransactionPool WITH Tx <- PoolTransactions, Unfit <- {},
    Sender <- {anna, bert}, Call <- {1, 2}, MaxTransactionsInPool <- 1,
    MaxTransactionsPerSender <- 2, MaxTransactionAge <- 2, Racing <- FALSE, MaxHeight <- 1,
    MaxReverts <- 0, MaxRestarts <- 0, MaxReadds <- 0, None <- None
ASSUME PoolInstance == Pool!PoolAssumption
Download == INSTANCE BlockDownload WITH Peers <- {"p1", "p2"}, Branches <- {"b1"},
    DefaultSize <- 2, Shrink <- 10, Parallel <- 3, CacheMax <- 1, MaxHeight <- 6,
    Froms <- {0, 2}, MaxCalls <- 2, Overlapping <- 1, ShortAnswers <- TRUE, None <- None
ASSUME DownloadInstance == Download!DownloadAssumption
Gossip == INSTANCE Gossip WITH Nodes <- Nodes, Peers <- [n \in Nodes |-> Nodes \ {n}],
    MaxHeight <- 1, MaxHop <- 4, MaxWork <- 1, NoPing <- NoBlockPing
ASSUME GossipInstance == Gossip!GossipAssumption
Requests == INSTANCE PeerRequests WITH Requests <- 1..3, RateLimit <- 2, MaxErrors <- 3,
    Pause <- 3, Repeat <- FALSE
ASSUME RequestsInstance == Requests!RequestsAssumption
Peers == INSTANCE Peers WITH Ips <- 1..2, Seeds <- {1}, Subnet <- <<1, 2>>, MaxSameSubnet <- 1,
    MinimumReach <- 2, PingDelay <- 0, pc <- peersPc, age <- peersAge
ASSUME PeersInstance == Peers!PeersAssumption
Verifier == INSTANCE PeerVerifier WITH Fork <- 2, MaxHeight <- 4, NAry <- 2, RoundLength <- 2,
    BlockLimit <- 2, None <- None, Undefined <- Undefined, Thrown <- Threw, MaxChanges <- 1,
    pc <- verifierPc
ASSUME VerifierInstance == Verifier!VerifierAssumption
Booting == INSTANCE ServiceProviders WITH Plugins <- BootPlugins, Alias <- PluginAlias,
    Defaults <- NoOptions, Globals <- NoOptions, Options <- PluginOptions, Invalid <- {"no"},
    Required <- {"state", "database", "chain"}, Dependencies <- PluginNeeds,
    BootWhen <- BootsWhen, DisposeWhen <- Never, MayThrow <- {"state", "hooks"},
    Moody <- {"hooks"}, Chain <- "chain", Overlapping <- FALSE, None <- None, MaxBlocks <- 1,
    MaxReboots <- 0, MaxTasks <- 6, failed <- bootFailed, calls <- bootCalls,
    blocks <- bootBlocks
ASSUME BootingInstance == Booting!ProvidersAssumption

poolVars == <<storage, mempool, calls, blocks, accepted, cleaning, failed, readding, node,
    count>>
downloadVars == <<size, cache, call, branch>>
gossipVars == <<chain, ping, serving, queue, waiting, msgs, relays>>
requestsVars == <<pc, left, used, connected, age, timers, errors, sent, failures, created>>
peersVars == <<peersPc, repo, pending, verifying, awaited, own, pings, peersAge, up>>
verifierVars == <<ours, peer, verifierPc, ourHeight, search, asked, verify, result, late, had,
    changes>>
bootVars == <<phase, at, config, aliases, bound, loaded, bootFailed, deferred, active,
    listeners, bootCalls, closing, after, booted, bootBlocks, reboots>>
vars == <<component, poolVars, downloadVars, gossipVars, requestsVars, peersVars, verifierVars,
    bootVars>>

Idle == "idle"

Init ==
    /\ component \in {"pool", "download", "gossip", "requests", "peers", "verifier", "boot"}
    /\ Pool!Init
    /\ Download!Init
    /\ Gossip!Init
    /\ Requests!Init
    /\ Peers!Init
    /\ IF component = "verifier" THEN Verifier!Init
       ELSE ours = Idle /\ peer = Idle /\ verifierPc = Idle /\ ourHeight = Idle /\
            search = Idle /\ asked = Idle /\ verify = Idle /\ result = Idle /\ late = Idle /\
            had = Idle /\ changes = Idle
    /\ IF component = "boot" THEN Booting!Init
       ELSE phase = Idle /\ at = Idle /\ config = Idle /\ aliases = Idle /\ bound = Idle /\
            loaded = Idle /\ bootFailed = Idle /\ deferred = Idle /\ active = Idle /\
            listeners = Idle /\ bootCalls = Idle /\ closing = Idle /\ after = Idle /\
            booted = Idle /\ bootBlocks = Idle /\ reboots = Idle

Next ==
    \/ component = "pool" /\ Pool!Next
       /\ UNCHANGED <<component, downloadVars, gossipVars, requestsVars, peersVars, verifierVars,
          bootVars>>
    \/ component = "download" /\ Download!Next
       /\ UNCHANGED <<component, poolVars, gossipVars, requestsVars, peersVars, verifierVars,
          bootVars>>
    \/ component = "gossip" /\ Gossip!Next
       /\ UNCHANGED <<component, poolVars, downloadVars, requestsVars, peersVars, verifierVars,
          bootVars>>
    \/ component = "requests" /\ Requests!Next
       /\ UNCHANGED <<component, poolVars, downloadVars, gossipVars, peersVars, verifierVars,
          bootVars>>
    \/ component = "peers" /\ Peers!Next
       /\ UNCHANGED <<component, poolVars, downloadVars, gossipVars, requestsVars, verifierVars,
          bootVars>>
    \/ component = "verifier" /\ Verifier!Next
       /\ UNCHANGED <<component, poolVars, downloadVars, gossipVars, requestsVars, peersVars,
          bootVars>>
    \/ component = "boot" /\ Booting!Next
       /\ UNCHANGED <<component, poolVars, downloadVars, gossipVars, requestsVars, peersVars,
          verifierVars>>

\* The fairness of each component's own specification.
Fairness ==
    /\ \A c \in {1, 2} : SF_vars(component = "pool" /\ Pool!AddStep(c)
                /\ UNCHANGED <<component, downloadVars, gossipVars, requestsVars, peersVars, verifierVars,
                      bootVars>>)
    /\ WF_vars(component = "pool" /\ Pool!RemoveForged
                /\ UNCHANGED <<component, downloadVars, gossipVars, requestsVars, peersVars, verifierVars,
                      bootVars>>)
    /\ WF_vars(component = "pool" /\ Pool!CleanUp
                /\ UNCHANGED <<component, downloadVars, gossipVars, requestsVars, peersVars, verifierVars,
                      bootVars>>)
    /\ WF_vars(component = "pool" /\ Pool!ReaddNext
                /\ UNCHANGED <<component, downloadVars, gossipVars, requestsVars, peersVars, verifierVars,
                      bootVars>>)
    /\ WF_vars(component = "pool" /\ Pool!EndReadding
                /\ UNCHANGED <<component, downloadVars, gossipVars, requestsVars, peersVars, verifierVars,
                      bootVars>>)
    /\ WF_vars(component = "download" /\ Download!JobStep
                /\ UNCHANGED <<component, poolVars, gossipVars, requestsVars, peersVars, verifierVars,
                      bootVars>>)
    /\ WF_vars(component = "download" /\ Download!FinishStep
                /\ UNCHANGED <<component, poolVars, gossipVars, requestsVars, peersVars, verifierVars,
                      bootVars>>)
    /\ \A n \in Nodes : WF_vars(component = "gossip" /\ Gossip!Handle(n)
                /\ UNCHANGED <<component, poolVars, downloadVars, requestsVars, peersVars, verifierVars,
                      bootVars>>)
    /\ \A n \in Nodes : WF_vars(component = "gossip" /\ Gossip!Download(n)
                /\ UNCHANGED <<component, poolVars, downloadVars, requestsVars, peersVars, verifierVars,
                      bootVars>>)
    /\ \A r \in 1..3 : WF_vars(component = "requests" /\ Requests!Step(r)
                /\ UNCHANGED <<component, poolVars, downloadVars, gossipVars, peersVars, verifierVars,
                      bootVars>>)
    /\ WF_vars(component = "requests" /\ Requests!Timer
                /\ UNCHANGED <<component, poolVars, downloadVars, gossipVars, peersVars, verifierVars,
                      bootVars>>)
    /\ WF_vars(component = "requests" /\ Requests!Tick
                /\ UNCHANGED <<component, poolVars, downloadVars, gossipVars, peersVars, verifierVars,
                      bootVars>>)
    /\ WF_vars(component = "peers" /\ Peers!Update
                /\ UNCHANGED <<component, poolVars, downloadVars, gossipVars, requestsVars, verifierVars,
                      bootVars>>)
    /\ \A p \in 1..2 : WF_vars(component = "peers" /\ Peers!Accepted(p)
                /\ UNCHANGED <<component, poolVars, downloadVars, gossipVars, requestsVars, verifierVars,
                      bootVars>>)
    /\ \A p \in 1..2, k \in {"update", "other"} : WF_vars(component = "peers" /\ Peers!Pinged(k, p)
                /\ UNCHANGED <<component, poolVars, downloadVars, gossipVars, requestsVars, verifierVars,
                      bootVars>>)
    /\ WF_vars(component = "verifier" /\ Verifier!Step
                /\ UNCHANGED <<component, poolVars, downloadVars, gossipVars, requestsVars, peersVars,
                      bootVars>>)
    /\ WF_vars(component = "boot" /\ Booting!AppStep
                /\ UNCHANGED <<component, poolVars, downloadVars, gossipVars, requestsVars, peersVars,
                      verifierVars>>)
    /\ \A i \in 0..6 : WF_vars(component = "boot" /\ Booting!CallStep(i)
                /\ UNCHANGED <<component, poolVars, downloadVars, gossipVars, requestsVars, peersVars,
                      verifierVars>>)

Spec == Init /\ [][Next]_vars /\ Fairness

\* Every call ends: one that adds a transaction, whoever holds its sender's lock;
\* a download and a request, whatever the peer answers; and the check of a peer's
\* state, though our chain moves meanwhile; and the boot of the application.
CallsEnd ==
    /\ component = "pool" => Pool!CallsEnd
    /\ component = "download" => Download!CallsEnd
    /\ component = "requests" => Requests!RequestsEnd
    /\ component = "verifier" => Verifier!CheckEnds
    /\ component = "boot" => Booting!BootEnds

\* Every forged block stops being relayed.
BroadcastsEnd == component = "gossip" => Gossip!BroadcastsEnd

\* If the seeds are up for good, the node never stays without peers, and each
\* time it has fewer than it needs it finds them or asks the seeds.
PeersComeBack == component = "peers" => Peers!NeverAlone /\ Peers!FallsBackToSeeds

=============================================================================
