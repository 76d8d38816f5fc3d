---------------------------- MODULE PeerVerifier ----------------------------
(* One PeerVerifier.checkState of a peer (core-p2p), step by step. Our chain   *)
(* and the peer's are the same up to Fork and differ above; ours may grow and  *)
(* be reverted between any two waits. A peer that is not honest answers what   *)
(* it likes. A block is [height, chain].                                       *)
EXTENDS Integers, FiniteSetsExt

CONSTANTS Fork, MaxHeight,     \* bound: the highest block of either chain
          NAry, RoundLength, BlockLimit, None, Undefined, Thrown,
          MaxChanges           \* bound: changes of our chain

VARIABLES ours,      \* our chain: [height, branch]
          peer,      \* [honest, height: of its chain, claim: the block it claims to be its last]
          pc, ourHeight,
          search,    \* the search for the highest common block, see NSect
          asked,     \* the blocks the peer was asked for
          verify,    \* [from, next: to be verified, fetched: to here, bad: one of no validator was accepted]
          result, late,
          had,       \* history: our blocks since the check began
          changes

vars == <<ours, peer, pc, ourHeight, search, asked, verify, result, late, had, changes>>

N == INSTANCE NSect WITH search <- search, matching <- 0, honest <- FALSE, NotFound <- None, Elements <- MaxHeight

VerifierAssumption ==
    N!NSectAssumption /\ Fork \in 1..MaxHeight /\ RoundLength \in Nat \ {0} /\ BlockLimit \in Nat \ {0}

Block(h, branch) == [height |-> h, chain |-> IF h <= Fork THEN "both" ELSE branch]
OurBlocks == {Block(h, ours.branch) : h \in 1..ours.height}
HisBlocks == {Block(h, "his") : h \in 1..peer.height}
Blocks == [height : 1..MaxHeight, chain : {"both", "ours", "his"}]

LastOfRound(h) == ((h - 1) \div RoundLength + 1) * RoundLength

End(r) == pc' = "done" /\ result' = r

-----------------------------------------------------------------------------
(* The steps of checkState.                                                   *)

\* A header below our height is taken without waiting for its verification; it
\* fails when the validators of its round are not to be had.
CheckStateHeader ==
    /\ pc = "header"
    /\ \/ pc' = "have" /\ ourHeight' = ours.height /\ UNCHANGED result
       \/ /\ ~peer.honest \/ peer.claim.height < ours.height
          /\ End(Undefined) /\ UNCHANGED ourHeight
    /\ UNCHANGED <<ours, peer, search, asked, verify, late, had, changes>>

\* Faulty variant: our height is read again for the result.
ResultOfNow(common) == [my |-> ours.height, his |-> peer.claim.height, common |-> common]

Result(common) == [my |-> ourHeight, his |-> peer.claim.height, common |-> common]

\* A block of ours that is gone since makes the assertion fail.
WeHavePeersHighestBlock ==
    /\ pc = "have"
    /\ IF peer.claim.height <= ourHeight /\ peer.claim.height > ours.height
       THEN End(Thrown) /\ UNCHANGED search
       ELSE IF peer.claim.height <= ourHeight /\ peer.claim \in OurBlocks
       THEN End(Result(peer.claim.height)) /\ UNCHANGED search
       ELSE /\ search' = N!Begun(1, Min({peer.claim.height, ourHeight}))
            /\ pc' = "probe" /\ UNCHANGED result
    /\ UNCHANGED <<ours, peer, ourHeight, asked, verify, late, had, changes>>

\* Our blocks of the heights are read, then the deadline is looked at.
Probe ==
    /\ pc = "probe"
    /\ LET heights == N!Probes(search.low, search.high)
       IN  IF late \/ Max(heights) > ours.height
           THEN End(Thrown) /\ UNCHANGED asked
           ELSE /\ asked' = {b \in OurBlocks : b.height \in heights}
                /\ pc' = "asked" /\ UNCHANGED result
    /\ UNCHANGED <<ours, peer, ourHeight, search, verify, late, had, changes>>

\* A bogus answer counts as none.
Heights(blocks) == {b.height : b \in blocks}

\* A peer without any of the blocks answers with an error (get-common-blocks.ts).
Answers ==
    IF ~peer.honest THEN Heights(asked) \union {None}
    ELSE IF asked \intersect HisBlocks = {} THEN {}
    ELSE {Max(Heights(asked \intersect HisBlocks))}

HasCommonBlocks ==
    /\ pc = "asked"
    /\ \E answer \in Answers :
          LET s == N!After(search, answer)
          IN  /\ search' = s
              /\ IF ~s.ended THEN pc' = "probe" /\ UNCHANGED <<result, verify>>
                 ELSE IF s.highest = None THEN End(Undefined) /\ UNCHANGED verify
                 ELSE /\ pc' = "verify" /\ UNCHANGED result
                      /\ verify' = [from |-> s.highest + 1, next |-> s.highest + 1, fetched |-> s.highest, bad |-> FALSE]
    /\ UNCHANGED <<ours, peer, ourHeight, asked, late, had, changes>>

\* The request fails: it throws out of checkState, and while blocks are
\* fetched it ends the check.
RequestFails ==
    /\ \/ pc = "asked" /\ End(Thrown)
       \/ pc = "fetch" /\ End(Undefined)
    /\ UNCHANGED <<ours, peer, ourHeight, search, asked, verify, late, had, changes>>

EndHeight == Min({peer.claim.height, LastOfRound(verify.from)})

\* The loop over the peer's blocks. #verifyPeerBlock is not awaited, so that
\* each block that was fetched counts as verified.
VerifyPeerBlocks ==
    /\ pc = "verify"
    /\ IF verify.next > EndHeight
       THEN End(Result(verify.from - 1)) /\ UNCHANGED verify
       ELSE IF verify.next <= verify.fetched
       THEN verify' = [verify EXCEPT !.next = @ + 1] /\ UNCHANGED <<pc, result>>
       ELSE IF late THEN End(Undefined) /\ UNCHANGED verify
       ELSE pc' = "fetch" /\ UNCHANGED <<verify, result>>
    /\ UNCHANGED <<ours, peer, ourHeight, search, asked, late, had, changes>>

\* The validators of the round are not to be had.
NoValidators ==
    /\ pc = "verify" /\ verify.next = verify.from /\ verify.fetched < verify.from
    /\ End(Thrown)
    /\ UNCHANGED <<ours, peer, ourHeight, search, asked, verify, late, had, changes>>

FetchBlocksFromHeight ==
    /\ pc = "fetch"
    /\ LET limit == Min({EndHeight - verify.next + 1, BlockLimit})
           last  == IF peer.honest THEN Min({verify.next + limit - 1, peer.height}) ELSE EndHeight
       IN  \E to \in verify.next..last, bad \in BOOLEAN :
              /\ peer.honest => ~bad
              /\ verify' = [verify EXCEPT !.fetched = to, !.bad = @ \/ bad]
    /\ pc' = "verify"
    /\ UNCHANGED <<ours, peer, ourHeight, search, asked, result, late, had, changes>>

-----------------------------------------------------------------------------
(* What happens meanwhile.                                                    *)

Late == ~late /\ late' = TRUE
        /\ UNCHANGED <<ours, peer, pc, ourHeight, search, asked, verify, result, had, changes>>

OurChain(chain) ==
    /\ pc # "done" /\ changes < MaxChanges /\ changes' = changes + 1
    /\ ours' = chain
    /\ had' = had \union {Block(chain.height, chain.branch)}
    /\ UNCHANGED <<peer, pc, ourHeight, search, asked, verify, result, late>>

Grow == /\ ours.height < MaxHeight
        /\ \E branch \in {"ours", "his"} :
              /\ ours.height > Fork => branch = ours.branch
              /\ OurChain([height |-> ours.height + 1, branch |-> branch])

Revert == ours.height > 1 /\ OurChain([ours EXCEPT !.height = @ - 1])

PeerGrows ==
    /\ peer.honest /\ pc # "done" /\ peer.height < MaxHeight
    /\ peer' = [peer EXCEPT !.height = @ + 1]
    /\ UNCHANGED <<ours, pc, ourHeight, search, asked, verify, result, late, had, changes>>

Init ==
    /\ ours \in [height : 1..MaxHeight, branch : {"ours", "his"}]
    /\ peer \in [honest : BOOLEAN, height : 1..MaxHeight, claim : Blocks]
    /\ peer.claim.chain = "both" <=> peer.claim.height <= Fork
    /\ peer.honest => peer.claim = Block(peer.height, "his")
    /\ ~peer.honest => peer.height = 1
    /\ pc = "header" /\ ourHeight = None /\ search = N!Begun(1, 1) /\ asked = {}
    /\ verify = [from |-> 0, next |-> 0, fetched |-> 0, bad |-> FALSE]
    /\ result = None /\ late = FALSE /\ had = OurBlocks /\ changes = 0

Step ==
    \/ CheckStateHeader \/ WeHavePeersHighestBlock \/ Probe
    \/ HasCommonBlocks \/ RequestFails
    \/ VerifyPeerBlocks \/ NoValidators \/ FetchBlocksFromHeight

Next == Step \/ Late \/ Grow \/ Revert \/ PeerGrows

\* Reads end, and a request ends by an answer or by its timeout.
Spec == Init /\ [][Next]_vars /\ WF_vars(Step)

-----------------------------------------------------------------------------
Verified == pc = "done" /\ result \notin {Undefined, Thrown}
Forked == result.common # result.my /\ result.common # result.his

\* The values the variables take; in particular the assertions of nsect.ts and
\* of the two reads of our blocks hold whatever the peer answers.
TypeOK ==
    /\ ours.height \in 1..MaxHeight /\ peer.height \in 1..MaxHeight
    /\ pc \in {"header", "have", "probe", "asked", "verify", "fetch", "done"}
    /\ pc \in {"probe", "asked"} => search.low <= search.high /\ search.high <= Min({peer.claim.height, ourHeight})
    /\ pc = "done" => result # None

\* The common block of an honest peer was in our chain while it was verified,
\* however our chain changed meanwhile.
CommonWasOurs == Verified /\ peer.honest => Block(result.common, "his") \in had

\* An honest peer counts as forked only when we had a block that it has not.
ForkedMeansDiverged ==
    Verified /\ peer.honest /\ Forked => \E b \in had : b.chain = "ours"

\* While our chain does not change an honest peer's highest common block is
\* found, and it counts as forked just when neither chain continues the other.
ExactWhenUnchanged ==
    Verified /\ peer.honest /\ changes = 0 =>
        /\ result.common = Max({h \in 1..peer.claim.height : Block(h, "his") \in OurBlocks})
        /\ Forked <=> (OurBlocks \ HisBlocks # {} /\ result.common < peer.claim.height)

\* Whatever a peer answers, its common height is one of both chains' heights.
CommonInRange == Verified => result.common \in 1..Min({result.my, result.his})

\* Every check ends.
CheckEnds == <>(pc = "done")

\* Does not hold (README, section 5):
\* No peer is verified by a block that no validator of its round signed ("Verify
\* a few blocks that are not too far up from the last common block",
\* peer-verifier.ts).
VerifiedBySignedBlocks == Verified => ~verify.bad
=============================================================================
