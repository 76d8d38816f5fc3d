------------------------------- MODULE Network -------------------------------
(* What blocks travel by, beside one another: the nodes that relay a block     *)
(* (Gossip) and, of one node, its table of peers, how one of them is verified,  *)
(* what it concludes of them, the requests to one peer and the downloads from  *)
(* all of them. They share no variable: each of them finds its peers whatever  *)
(* the others do.                                                              *)
EXTENDS Gossip

CONSTANTS
  Ips, Seeds, Subnet, MaxSameSubnet, MinimumReach, PingDelay,         \* of Peers
  Sends, RateLimit, MaxErrors, Pause, Repeat,                         \* of PeerRequests
  Sources, Branches, DefaultSize, Shrink, Parallel, CacheMax, MaxTop, \* of BlockDownload
  Froms, MaxCalls, Overlapping, ShortAnswers, Nobody,
  HealthPeers, ForkAt, Version, Foreign, Required, Reach,             \* of NetworkHealth
  MaxRollback, OurStart, TopHeight, MaxChecks, Nothing,
  SearchParts, Elements, Nowhere,                                     \* of NSect
  Fork, LastHeight, Parts, RoundLength, BlockLimit, MaxChanges,       \* of PeerVerifier
  Unknown, Undefined, Thrown

VARIABLES
  peersPc, repo, pending, verifying, awaited, own, pings, peersAge, up,
  requestsPc, left, used, connected, requestsAge, timers, errors, sent, failures, created,
  size, cache, call, branch,
  healthOurs, theirs, known, healthPings, calls, monitor,
  search, matching, honest,
  verifierOurs, peer, verifierPc, ourHeight, verifierSearch, asked, verify, result, late, had, changes

Known == INSTANCE Peers WITH pc <- peersPc, age <- peersAge

Requests == INSTANCE PeerRequests WITH Requests <- Sends, pc <- requestsPc, age <- requestsAge

Downloads == INSTANCE BlockDownload WITH Peers <- Sources, MaxHeight <- MaxTop, None <- Nobody

Health == INSTANCE NetworkHealth WITH
  Peers <- HealthPeers, Start <- OurStart, MaxHeight <- TopHeight, MaxCalls <- MaxChecks, None <- Nothing,
  ours <- healthOurs, pings <- healthPings

Search == INSTANCE NSect WITH NAry <- SearchParts, NotFound <- Nowhere

Verifier == INSTANCE PeerVerifier WITH MaxHeight <- LastHeight, NAry <- Parts, None <- Unknown,
  ours <- verifierOurs, pc <- verifierPc, search <- verifierSearch

NetworkAssumption ==
  /\ GossipAssumption /\ Known!PeersAssumption
  /\ Search!NSectAssumption /\ Verifier!VerifierAssumption
  /\ Requests!RequestsAssumption /\ Downloads!DownloadAssumption /\ Health!HealthAssumption

-----------------------------------------------------------------------------
\* A pending peer is one whose verification runs, and it is not accepted yet
\* (PeerRepository.setPendingPeer, PeerProcessor.#acceptNewPeer).
PendingIsVerified == Known!PendingIsVerified

\* However the pings of two checks mix while the chains move: what is known of a
\* peer comes from one answer of it, and blocks are rolled back only to a fork
\* whose peers outnumber us (NetworkMonitor.checkNetworkHealth, NetworkState).
HealthIsTrue == Health!StateIsVerified /\ Health!QuorumIsOurs /\ Health!RollsBackToFork

\* What the node knows of its peers, by both.
PeersKnown == PendingIsVerified /\ HealthIsTrue

\* The highest matching element is found in logarithmically many calls (NSect).
SearchFinds == Search!FindsHighest /\ Search!FewCalls

\* While the chain moves under the check of a peer, a common height is one both
\* chains had a block in common at, a fork is reported only for diverged chains,
\* and nothing is missed if our chain stood still (PeerVerifier.checkState).
CommonIsTrue ==
  /\ Verifier!CommonWasOurs /\ Verifier!ForkedMeansDiverged
  /\ Verifier!ExactWhenUnchanged /\ Verifier!CommonInRange

\* How a peer is verified, by both.
PeersVerified == SearchFinds /\ CommonIsTrue

\* Requests to a peer overshoot its rate limit by no more than those that wait
\* at once, and a peer is given up only for as many errors in a row as allowed
\* (PeerCommunicator.#sendRequest).
Paced == Requests!Paced

\* Whatever fails, is cached or overlaps, a call returns blocks of the heights it
\* asked for, none twice, and the cache keeps what is in its place
\* (NetworkMonitor.downloadBlocksFromHeight).
DownloadsInPlace == Downloads!CacheFits /\ Downloads!ChunksInPlace /\ Downloads!ServedOnce
=============================================================================
