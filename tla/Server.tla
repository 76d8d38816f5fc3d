------------------------------- MODULE Server -------------------------------
(* The server of core-p2p under the requests of one peer, while the node       *)
(* accepts, saves and reverts blocks (Database). A request is answered over    *)
(* several waits, and between any two of them the chain may have moved.        *)
EXTENDS Database, FiniteSetsExt

CONSTANTS
  MaxLimit,     \* bound: blockLimit (400)
  MaxIds,       \* bound: the ids asked for at once (10)
  MaxRequests   \* bound: requests

ServerAssumption == DatabaseAssumption /\ MaxLimit \in Nat \ {0} /\ MaxIds \in Nat \ {0}

VARIABLES
  request,  \* what is being answered, NoRequest if nothing
  answer,   \* the last answer, NoAnswer before it and NotFound for an error
  served    \* how many requests were answered

serverVars == <<disk, node, job, budget, request, answer, served>>

NoRequest == [kind |-> "none"]
NoAnswer == [kind |-> "none"]
NotFound == [kind |-> "error"]

Heights == {HeightOf[b] : b \in Block}

\* A node that serves has a last block.
Serving == node.up /\ node.window # {} /\ request = NoRequest /\ served < MaxRequests
Waiting(kind) == node.up /\ request.kind = kind
LastHeight == HeightOf[LastBlock]
Answer(a) == answer' = a /\ request' = NoRequest /\ served' = served + 1

-----------------------------------------------------------------------------
(* GET /blocks: the height index is read for every height at once, then the    *)
(* blocks are made of what was read, in the order of their heights.            *)

\* A height that is not indexed, or whose block is not there, is left out.
Stored(h) == {i.block : i \in {j \in disk.heights : j.height = h}} \cap disk.blocks
BlocksForDownload(from, limit) ==
  LET hs == {h \in from..from + limit - 1 : Stored(h) # {}}
  IN  [k \in 1..Cardinality(hs) |->
        CHOOSE b \in UNION {Stored(h) : h \in hs} : Cardinality({h \in hs : h <= HeightOf[b]}) = k]

\* from is the height after the peer's last block.
AskBlocks(from, limit) ==
  /\ Serving
  /\ request' = [kind |-> "blocks", from |-> from,
                 found |-> IF from > LastHeight THEN <<>> ELSE BlocksForDownload(from, limit)]
  /\ UNCHANGED <<vars, answer, served>>

\* As many as a payload holds, but one if there is one.
GetBlocks ==
  /\ Waiting("blocks")
  /\ \E n \in 0..Len(request.found) :
       /\ n = 0 => request.found = <<>>
       /\ Answer([kind |-> "blocks", from |-> request.from, blocks |-> SubSeq(request.found, 1, n)])
  /\ UNCHANGED vars

-----------------------------------------------------------------------------
(* GET /blocks/common: the ids are looked up one after the other, with a wait  *)
(* after each.                                                                *)

AskCommonBlocks(ids) ==
  /\ Serving
  /\ request' = [kind |-> "common", ids |-> ids, left |-> ids, found |-> {}]
  /\ UNCHANGED <<vars, answer, served>>

\* Faulty variant: an id is not looked up.
FindAnyBlock ==
  /\ Waiting("common") /\ request.left # <<>>
  /\ request' = [request EXCEPT !.left = Tail(@), !.found = @ \cup {Head(request.left)}]
  /\ UNCHANGED <<vars, answer, served>>

FindBlock ==
  /\ Waiting("common") /\ request.left # <<>>
  /\ request' = [request EXCEPT !.left = Tail(@), !.found = @ \cup ({Head(request.left)} \cap disk.blocks)]
  /\ UNCHANGED <<vars, answer, served>>

GetCommonBlocks ==
  /\ Waiting("common") /\ request.left = <<>>
  /\ IF request.found = {} THEN Answer(NotFound)
     ELSE \E b \in request.found :
            /\ \A c \in request.found : HeightOf[c] <= HeightOf[b]
            /\ Answer([kind |-> "common", ids |-> request.ids, common |-> b, lastBlockHeight |-> LastHeight])
  /\ UNCHANGED vars

-----------------------------------------------------------------------------
(* GET /status: the last block is read before the slot is waited for.          *)

AskStatus ==
  /\ Serving /\ request' = [kind |-> "status", block |-> LastBlock]
  /\ UNCHANGED <<vars, answer, served>>
GetStatus ==
  /\ Waiting("status")
  /\ Answer([kind |-> "status", header |-> request.block, height |-> HeightOf[request.block]])
  /\ UNCHANGED vars

\* The process ends: the peer is not answered (and its last answer is of another chain).
Unanswered == node.up /\ ~node'.up

ServerInit == Init /\ request = NoRequest /\ answer = NoAnswer /\ served = 0

ServerNext ==
  \/ /\ Next /\ UNCHANGED served
     /\ request' = IF Unanswered THEN NoRequest ELSE request
     /\ answer' = IF Unanswered THEN NoAnswer ELSE answer
  \/ \E from \in Heights, limit \in 1..MaxLimit : AskBlocks(from, limit)
  \/ \E n \in 1..MaxIds : \E ids \in [1..n -> Block] : AskCommonBlocks(ids)
  \/ AskStatus \/ GetBlocks \/ FindBlock \/ GetCommonBlocks \/ GetStatus

ServerSpec == ServerInit /\ [][ServerNext]_serverVars

-----------------------------------------------------------------------------
ServerTypeOK ==
  /\ TypeOK
  /\ request.kind \in {"none", "blocks", "common", "status"}
  /\ answer.kind \in {"none", "error", "blocks", "common", "status"}
  /\ answer.kind = "common" => answer.common \in disk.blocks \cap ToSet(answer.ids)

\* No save failed, or was torn apart.
Unharmed == budget.faults = MaxFaults /\ ~budget.torn

\* Blocks that a peer downloads follow one another from the height it asked for
\* (NetworkMonitor.downloadBlocksFromHeight and PeerVerifier rely on it).
BlocksServedInChain ==
  answer.kind = "blocks" /\ Unharmed =>
    \A k \in 1..Len(answer.blocks) :
      /\ HeightOf[answer.blocks[k]] = answer.from + k - 1
      /\ k > 1 => Previous[answer.blocks[k]] = answer.blocks[k - 1]

\* The block we have in common with a peer is one that we know it asked for, it
\* is in our chain, and we say a height at which it can be.
CommonIsOurs ==
  answer.kind = "common" /\ Unharmed /\ node.up /\ node.window # {} =>
    /\ answer.common \in Chain[LastBlock]
    /\ HeightOf[answer.common] <= answer.lastBlockHeight
    /\ answer.lastBlockHeight <= LastHeight

\* What a peer was answered is true of our chain, whatever was accepted, saved
\* or lost while it was answered (server/controllers get-blocks.ts and
\* get-common-blocks.ts).
AnswersTrue == BlocksServedInChain /\ CommonIsOurs
=============================================================================
