----------------------------- MODULE Submission -----------------------------
(* Transactions that nodes are given and pass on                              *)
(* (core-transaction-pool/source/processor.ts, core-p2p/source/               *)
(* transaction-broadcaster.ts and peer-communicator.ts, core-transaction-     *)
(* pool-api): a call takes its entries one after the other - decodes one,     *)
(* enters it in the pool, asks whether to pass it on - beside the other calls *)
(* of its node, and at its end posts what may be passed on to some peers,     *)
(* where the post is a call again. What the pool says of a transaction is     *)
(* left open (TransactionPool); the posts to a peer are not ordered, since    *)
(* two first posts make two queues.                                           *)
EXTENDS Integers, Sequences, FiniteSets, SequencesExt

CONSTANTS Nodes,
          Batches,        \* what clients submit, sequences of transactions
          Misread,        \* transactions whose common part cannot be read
          Broken,         \* transactions that are refused later, while they are decoded
          Private,        \* transactions that an extension does not pass on
          BuffersArrive,  \* whether a buffer that is posted arrives as one; as JSON it does not
          MaxPeers,       \* maxPeersBroadcast
          MaxCalls, MaxForged, MaxDisposed   \* bounds

Transactions == UNION {ToSet(b) : b \in Batches}

SubmissionAssumption ==
    /\ {MaxPeers, MaxCalls, MaxForged, MaxDisposed} \subseteq Nat /\ BuffersArrive \in BOOLEAN
    /\ Misread \union Broken \subseteq Transactions /\ Batches \subseteq Seq(Transactions)

VARIABLES storage,   \* per node: the transactions of its pool, also those it is still validating
          calls,     \* calls of process() under way
          answers,   \* calls that ended
          posts,     \* posts on their way: to a node, with transactions
          disposed,  \* nodes whose pool was disposed
          history    \* numbers: calls begun and transactions forged, and the entries in pools
                     \* and the posts there were, as <<node, call, transaction>>

vars == <<storage, calls, answers, posts, disposed, history>>

Step == {"decode", "enter", "validate", "extend"}
Errors == {"ERR_BAD_DATA", "ERR_DUPLICATE", "ERR_EXCEEDS_MAX_COUNT", "ERR_OTHER"}

CallOf(n, b, binary) ==
    [number |-> history.calls + 1, node |-> n, batch |-> b, binary |-> binary, at |-> 1, step |-> "decode",
     accept |-> <<>>, broadcast |-> <<>>, invalid |-> <<>>, excess |-> <<>>, errors |-> <<>>, aborted |-> FALSE]

Entry(c) == c.batch[c.at]
Ended(c) == c.at > Len(c.batch) \/ c.aborted

-----------------------------------------------------------------------------

Init ==
    /\ storage = [n \in Nodes |-> {}]
    /\ calls = {} /\ answers = {} /\ posts = {}
    /\ disposed = {}
    /\ history = [calls |-> 0, forged |-> 0, entered |-> {}, posted |-> {}]

Begin(n, b, binary) ==
    /\ history.calls < MaxCalls
    /\ calls' = calls \union {CallOf(n, b, binary)}

\* A client of the API, which sends objects, or a peer, which sends buffers.
Submit(n, b, binary) ==
    /\ Begin(n, b, binary)
    /\ history' = [history EXCEPT !.calls = @ + 1]
    /\ UNCHANGED <<storage, answers, posts, disposed>>

\* A post of a peer.
Arrive(p) ==
    /\ Begin(p.to, p.transactions, TRUE)
    /\ posts' = posts \ {p}
    /\ history' = [history EXCEPT !.calls = @ + 1]
    /\ UNCHANGED <<storage, answers, disposed>>

\* A post fails, and is not tried again.
Lose(p) ==
    /\ posts' = posts \ {p}
    /\ UNCHANGED <<storage, calls, answers, disposed, history>>

Replace(c, d) == calls' = (calls \ {c}) \union {d}

\* The entry is done with: entryId is its place in the batch.
Done(c) == [c EXCEPT !.at = @ + 1, !.step = "decode"]
Refuse(c, error) ==
    [Done(c) EXCEPT !.invalid = Append(@, c.at), !.errors = Append(@, <<c.at, error>>),
                     !.excess = IF error = "ERR_EXCEEDS_MAX_COUNT" THEN Append(@, c.at) ELSE @]

\* What is no PoolError ends the call.
Abort(c) == [c EXCEPT !.invalid = Append(@, c.at), !.aborted = TRUE]

\* fromBytes and fromData are not awaited within their try, so that only what
\* cannot be read of the common part becomes a PoolError; a buffer that arrives
\* as an object of JSON is of no type.
Decode(c) ==
    /\ ~Ended(c) /\ c.step = "decode"
    /\ LET asBuffer == c.binary /\ BuffersArrive
           lost == c.binary /\ ~BuffersArrive
       IN  Replace(c, IF asBuffer /\ Entry(c) \in Misread THEN Refuse(c, "ERR_BAD_DATA")
                      ELSE IF lost \/ Entry(c) \in Misread \union Broken THEN Abort(c)
                      ELSE [c EXCEPT !.step = "enter"])
    /\ UNCHANGED <<storage, answers, posts, disposed, history>>

\* The storage has the transaction while it is validated. A disposed pool does
\* nothing, and the entry counts as accepted.
Enter(c) ==
    /\ ~Ended(c) /\ c.step = "enter"
    /\ \/ /\ c.node \in disposed
          /\ Replace(c, [c EXCEPT !.step = "extend", !.accept = Append(@, c.at)])
          /\ UNCHANGED storage
       \/ /\ c.node \notin disposed /\ Entry(c) \in storage[c.node]
          /\ Replace(c, Refuse(c, "ERR_DUPLICATE"))
          /\ UNCHANGED storage
       \/ /\ c.node \notin disposed /\ Entry(c) \notin storage[c.node]
          /\ Replace(c, [c EXCEPT !.step = "validate"])
          /\ storage' = [storage EXCEPT ![c.node] = @ \union {Entry(c)}]
    /\ UNCHANGED <<answers, posts, disposed, history>>

Validate(c) ==
    /\ ~Ended(c) /\ c.step = "validate"
    /\ \/ /\ Replace(c, [c EXCEPT !.step = "extend", !.accept = Append(@, c.at)])
          /\ history' = [history EXCEPT !.entered = @ \union {<<c.node, c.number, c.at>>}]
          /\ UNCHANGED storage
       \/ /\ \E error \in {"ERR_EXCEEDS_MAX_COUNT", "ERR_OTHER"} : Replace(c, Refuse(c, error))
          /\ storage' = [storage EXCEPT ![c.node] = @ \ {Entry(c)}]
          /\ UNCHANGED history
    /\ UNCHANGED <<answers, posts, disposed>>

\* An extension that refuses is silent.
Extend(c) ==
    /\ ~Ended(c) /\ c.step = "extend"
    /\ Replace(c, IF Entry(c) \in Private THEN Done(c) ELSE [Done(c) EXCEPT !.broadcast = Append(@, c.at)])
    /\ UNCHANGED <<storage, answers, posts, disposed, history>>

\* The peers a broadcast goes to: all, or as many as it may.
Chosen(n) ==
    {s \in SUBSET (Nodes \ {n}) :
        Cardinality(s) = IF Cardinality(Nodes \ {n}) < MaxPeers THEN Cardinality(Nodes \ {n}) ELSE MaxPeers}

Passed(c, peers) == {<<p, c.number, c.broadcast[i]>> : p \in peers, i \in DOMAIN c.broadcast}

BroadcastTransactions(c, peers) ==
    LET transactions == [i \in DOMAIN c.broadcast |-> c.batch[c.broadcast[i]]]
    IN  /\ posts' = posts \union {[to |-> p, transactions |-> transactions, of |-> c.number] : p \in peers}
        /\ history' = [history EXCEPT !.posted = @ \union Passed(c, peers)]

\* Faulty variant: a call that is aborted passes nothing on (no finally).
FinishUnlessAborted(c) ==
    /\ Ended(c)
    /\ IF c.aborted \/ c.broadcast = <<>> THEN UNCHANGED <<posts, history>>
       ELSE \E peers \in Chosen(c.node) : BroadcastTransactions(c, peers)
    /\ calls' = calls \ {c} /\ answers' = answers \union {c}
    /\ UNCHANGED <<storage, disposed>>

\* The end of the call, in order or not: what may be passed on is posted.
Finish(c) ==
    /\ Ended(c)
    /\ \/ /\ c.broadcast = <<>> /\ UNCHANGED <<posts, history>>
       \/ /\ c.broadcast # <<>>
          /\ \E peers \in Chosen(c.node) : BroadcastTransactions(c, peers)
    /\ calls' = calls \ {c} /\ answers' = answers \union {c}
    /\ UNCHANGED <<storage, disposed>>

-----------------------------------------------------------------------------
(* What else happens to the pool.                                            *)

\* A transaction that is not being validated is forged, or removed otherwise.
Forged(n, t) ==
    /\ history.forged < MaxForged /\ t \in storage[n]
    /\ ~\E c \in calls : c.node = n /\ c.step = "validate" /\ Entry(c) = t
    /\ storage' = [storage EXCEPT ![n] = @ \ {t}]
    /\ history' = [history EXCEPT !.forged = @ + 1]
    /\ UNCHANGED <<calls, answers, posts, disposed>>

Dispose(n) ==
    /\ n \notin disposed /\ Cardinality(disposed) < MaxDisposed
    /\ disposed' = disposed \union {n}
    /\ UNCHANGED <<storage, calls, answers, posts, history>>

Next ==
    \/ \E n \in Nodes, b \in Batches, binary \in BOOLEAN : Submit(n, b, binary)
    \/ \E p \in posts : Arrive(p) \/ Lose(p)
    \/ \E c \in calls : Decode(c) \/ Enter(c) \/ Validate(c) \/ Extend(c) \/ Finish(c)
    \/ \E n \in Nodes, t \in Transactions : Forged(n, t)
    \/ \E n \in Nodes : Dispose(n)

Spec == Init /\ [][Next]_vars

-----------------------------------------------------------------------------
(* Properties.                                                               *)

\* The values the variables take.
TypeOK ==
    /\ storage \in [Nodes -> SUBSET Transactions]
    /\ \A c \in calls \union answers :
          /\ c.node \in Nodes /\ c.batch \in Seq(Transactions)
          /\ c.at \in 1..Len(c.batch) + 1 /\ c.step \in Step
          /\ \A i \in DOMAIN c.errors : c.errors[i][2] \in Errors
    /\ history.calls <= MaxCalls
    /\ disposed \subseteq Nodes

\* What a call tells of its entries: each one it came to is accepted or invalid
\* and not both, what is passed on was accepted, and what was accepted entered
\* the pool by this very call, whatever the other calls of the node did
\* meanwhile - unless the pool was disposed.
AnswersAddUp ==
    \A c \in calls \union answers :
        LET accepted == ToSet(c.accept)
            came == 1..(IF c.aborted \/ c.step = "extend" THEN c.at ELSE c.at - 1)
        IN  /\ accepted \intersect ToSet(c.invalid) = {}
            /\ accepted \union ToSet(c.invalid) = came
            /\ ToSet(c.broadcast) \subseteq accepted /\ ToSet(c.excess) \subseteq ToSet(c.invalid)
            /\ \A i \in accepted : <<c.node, c.number, i>> \in history.entered \/ c.node \in disposed

\* What a call accepted and may pass on was posted to as many peers as it may when
\* the call has ended, also when a later entry made it fail.
AcceptedIsPassedOn ==
    \A c \in answers : \A i \in ToSet(c.accept) :
        c.batch[i] \notin Private =>
            {p \in Nodes : <<p, c.number, i>> \in history.posted} \in Chosen(c.node)

\* A transaction is passed on only by the call by which it entered the node's pool,
\* never because it was seen again, so that it cannot go round between nodes.
PassedOnOnceEntered ==
    \A x \in history.posted :
        \E n \in Nodes : n # x[1] /\ (<<n, x[2], x[3]>> \in history.entered \/ n \in disposed)
=============================================================================
