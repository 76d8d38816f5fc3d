--------------------------- MODULE TransactionPool ---------------------------
(* The pool of transactions not yet in a block (core-transaction-pool): the    *)
(* storage, which survives a restart, and a mempool per sender, whose wallet   *)
(* is a copy taken from the chain. A call of addTransaction is in steps, one   *)
(* for each wait at which something else can happen; a removal is one step     *)
(* that waits for the sender's lock; readdTransactions excludes all of them.   *)
(* Of a wallet only the nonce is kept; what else makes a handler, the fee      *)
(* matcher or the verifier refuse a transaction is membership of Unfit. A      *)
(* sender's lock is given to its waiters in any order.                         *)
EXTENDS Integers, Sequences, FiniteSets, SequencesExt

CONSTANTS Tx, Unfit,                 \* records; those refused whatever the pool holds
          Sender, Call, None,
          MaxTransactionsInPool, MaxTransactionsPerSender, MaxTransactionAge,
          Racing,                    \* a transaction may be added while it is to be removed
          MaxHeight, MaxReverts, MaxRestarts, MaxReadds   \* bounds

\* A row of the storage, and the mempool of a sender.
Row == [tx : Tx, height : Nat]
Mempool ==
    [txs : Seq(Tx), nonce : Nat \union {None}, users : Nat, locked : BOOLEAN, corrupt : BOOLEAN]

PoolAssumption ==
    /\ Unfit \subseteq Tx /\ MaxTransactionsInPool \in Nat \ {0}
    /\ \A tx \in Tx : tx.sender \in Sender /\ tx.nonce \in Nat \ {0} /\ tx.expiration \in Nat
    /\ IsFiniteSet(Call) /\ Call # {} /\ MaxHeight \in Nat
    /\ None \notin Tx /\ None \notin Nat /\ None \notin Mempool /\ None \notin Seq(Row)

VARIABLES storage,     \* rows [tx, height] in the order they were inserted
          mempool,     \* per sender: None or [txs, nonce, users, locked, corrupt]
          calls,       \* addTransaction calls: [tx, pc, reverted]
          blocks,      \* the chain: the transaction of each block, or None
          accepted,    \* the forged transaction that is to be removed, or None
          cleaning,    \* cleanUp is running
          failed,      \* what the collator is about to remove
          readding,    \* rows readdTransactions has yet to read; None when it is not running
          node,        \* "up", or "corrupted" after a failed revert
          count        \* reverts, restarts and readds so far

vars == <<storage, mempool, calls, blocks, accepted, cleaning, failed, readding, node, count>>

NoCall == [tx |-> None, pc |-> "idle", reverted |-> FALSE]

\* What the chain has of a sender.
Height == Len(blocks)
NonceIn(chain, s) == Cardinality({h \in DOMAIN chain : chain[h] # None /\ chain[h].sender = s})
ChainNonce(s) == NonceIn(blocks, s)

\* Storage.
Stored == {storage[i].tx : i \in DOMAIN storage}
Deleted(rows, T) ==
    LET Kept[n \in 0..Len(rows)] ==
            IF n = 0 THEN <<>>
            ELSE IF rows[n].tx \in T THEN Kept[n - 1] ELSE Append(Kept[n - 1], rows[n])
    IN  Kept[Len(rows)]

\* Mempool and Query.
Txs(s) == IF mempool[s] = None THEN <<>> ELSE mempool[s].txs
Pooled == UNION {ToSet(Txs(s)) : s \in Sender}
Size == Cardinality(Pooled)
Lowest == {tx \in Pooled : \A o \in Pooled : tx.fee <= o.fee /\ ((o.fee = tx.fee /\ o.sender = tx.sender) => o.nonce <= tx.nonce)}
Unlocked(s) == IF mempool[s] = None THEN TRUE ELSE ~mempool[s].locked

IsExpired(tx) == tx.expiration # 0 /\ tx.expiration <= Height + 1
IsOld(row) == row.height <= Height - MaxTransactionAge

\* A sender's mempool is made for its first transaction, and given up when it
\* is empty and nobody uses it.
New == [txs |-> <<>>, nonce |-> None, users |-> 0, locked |-> FALSE, corrupt |-> FALSE]
Opened(m) == IF m = None THEN New ELSE m
Disposed(m) == IF m.txs = <<>> /\ m.users = 0 THEN None ELSE m

-----------------------------------------------------------------------------
(* SenderMempool.removeTransaction: the transaction and all after it are      *)
(* taken back from the sender's wallet, the last first.                       *)

TakeBack(m, tx) ==
    LET i    == CHOOSE j \in DOMAIN m.txs : m.txs[j] = tx
        tail == SubSeq(m.txs, i, Len(m.txs))
    IN  IF \A k \in DOMAIN tail : tail[k].nonce = m.nonce - (Len(tail) - k)
        THEN [m |-> [m EXCEPT !.txs = SubSeq(m.txs, 1, i - 1), !.nonce = @ - Len(tail)], removed |-> ToSet(tail)]
        ELSE [m |-> [m EXCEPT !.txs = <<>>, !.corrupt = TRUE], removed |-> ToSet(m.txs)]

\* Mempool.removeTransaction, and the service that deletes what was removed.
RemoveFrom(tx) ==
    IF tx \in Pooled
    THEN LET result == TakeBack(mempool[tx.sender], tx)
         IN  /\ mempool' = [mempool EXCEPT ![tx.sender] = Disposed(result.m)]
             /\ storage' = Deleted(storage, result.removed)
    ELSE UNCHANGED <<mempool, storage>>

-----------------------------------------------------------------------------
(* addTransaction.                                                            *)

Idle(c) == calls[c].pc = "idle"
To(c, pc) == calls' = [calls EXCEPT ![c].pc = pc]

\* The call ends in an error: its row is deleted, and for a transaction of a
\* reverted block the revert has failed.
Fail(c) ==
    /\ calls' = [calls EXCEPT ![c] = NoCall]
    /\ node' = IF calls[c].reverted THEN "corrupted" ELSE node

\* Faulty variant: the row stays.
FailKeepingRow(c) ==
    /\ Fail(c)
    /\ UNCHANGED <<storage, mempool>>

FailEarly(c) ==
    /\ Fail(c)
    /\ storage' = Deleted(storage, {calls[c].tx})
    /\ UNCHANGED mempool

\* Faulty variant: a call that ends is still counted.
ReleaseKeepingUser(m) == [m EXCEPT !.locked = FALSE]

\* Faulty variant: the lock is kept.
ReleaseKeepingLock(m) == [m EXCEPT !.users = @ - 1]

Release(m) == [m EXCEPT !.users = @ - 1, !.locked = FALSE]

FailInMempool(c, m) ==
    /\ Fail(c)
    /\ storage' = Deleted(storage, {calls[c].tx})
    /\ mempool' = [mempool EXCEPT ![calls[c].tx.sender] = Disposed([m EXCEPT !.users = @ - 1])]

Others == UNCHANGED <<blocks, accepted, cleaning, failed, readding, count>>

\* The row is written before anything is verified.
Start(c, tx, reverted) ==
    /\ Idle(c) /\ readding = None
    /\ IF tx \in Stored
       THEN /\ node' = IF reverted THEN "corrupted" ELSE node
            /\ UNCHANGED <<storage, calls>>
       ELSE /\ storage' = Append(storage, [tx |-> tx, height |-> Height])
            /\ calls' = [calls EXCEPT ![c] = [tx |-> tx, pc |-> "fee", reverted |-> reverted]]
            /\ UNCHANGED node
    /\ UNCHANGED mempool

AddTransaction(c, tx) ==
    /\ node = "up" /\ tx \notin Stored
    /\ Racing \/ tx \notin failed \union {accepted}
    /\ Start(c, tx, FALSE)
    /\ Others

Unfitting(c) ==
    /\ calls[c].pc = "fee" /\ calls[c].tx \in Unfit
    /\ FailEarly(c) /\ Others

\* A full pool is trimmed: old and expired transactions go, then the cheapest
\* while there are too many. Each removal waits for its sender's lock.
ToTrim == {tx \in Pooled : IsExpired(tx) \/ \E i \in DOMAIN storage : storage[i].tx = tx /\ IsOld(storage[i])}
TrimStep ==
    LET targets == IF ToTrim # {} THEN ToTrim ELSE Lowest
    IN  /\ ToTrim # {} \/ Size > MaxTransactionsInPool
        /\ \E tx \in targets : Unlocked(tx.sender) /\ RemoveFrom(tx)

Trimmed == ToTrim = {} /\ Size <= MaxTransactionsInPool

Trim(c) ==
    /\ calls[c].pc = "fee" /\ calls[c].tx \notin Unfit
    /\ Size >= MaxTransactionsInPool
    /\ TrimStep
    /\ UNCHANGED <<calls, node>> /\ Others

\* A pool that is still full gives up its cheapest transaction for a better one.
MakeRoom(c) ==
    /\ calls[c].pc = "fee" /\ calls[c].tx \notin Unfit
    /\ Size >= MaxTransactionsInPool /\ Trimmed
    /\ \E lowest \in Lowest :
          \/ calls[c].tx.fee <= lowest.fee /\ FailEarly(c)
          \/ /\ calls[c].tx.fee > lowest.fee /\ Unlocked(lowest.sender)
             /\ RemoveFrom(lowest) /\ To(c, "enter") /\ UNCHANGED node
    /\ Others

Enter(c) ==
    /\ \/ calls[c].pc = "enter"
       \/ calls[c].pc = "fee" /\ calls[c].tx \notin Unfit /\ Size < MaxTransactionsInPool
    /\ LET s == calls[c].tx.sender  m == Opened(mempool[s])
       IN  mempool' = [mempool EXCEPT ![s] = [m EXCEPT !.users = @ + 1]]
    /\ To(c, "waiting")
    /\ UNCHANGED <<storage, node>> /\ Others

\* throwIfCannotEnterPool: one vote or registration of a sender, and one
\* registration of a name, at a time.
NoneOfKind(tx) == ~\E o \in ToSet(Txs(tx.sender)) : o.kind = tx.kind
NameFree(tx) == ~\E o \in Pooled : o.kind = "registration" /\ o.name = tx.name

MayEnter(tx) ==
    /\ tx.kind # "transfer" => NoneOfKind(tx)
    /\ tx.kind = "registration" => NameFree(tx)

Verify(c) ==
    /\ calls[c].pc = "waiting"
    /\ LET tx == calls[c].tx  m == mempool[tx.sender] IN
       /\ ~m.locked
       /\ IF Len(m.txs) >= MaxTransactionsPerSender \/ IsExpired(tx) \/ m.corrupt \/ ~MayEnter(tx)
          THEN FailInMempool(c, m)
          ELSE /\ mempool' = [mempool EXCEPT ![tx.sender].locked = TRUE]
               /\ To(c, "verified") /\ UNCHANGED <<storage, node>>
    /\ Others

\* The first transaction of a sender's mempool takes the copy of its wallet.
Copied(m, s) == IF m.nonce = None THEN [m EXCEPT !.nonce = ChainNonce(s)] ELSE m

Apply(c) ==
    /\ calls[c].pc = "verified"
    /\ LET tx == calls[c].tx  m == Copied(mempool[tx.sender], tx.sender) IN
       IF tx.nonce = m.nonce + 1
       THEN /\ mempool' = [mempool EXCEPT ![tx.sender] = [m EXCEPT !.nonce = tx.nonce]]
            /\ To(c, "applied") /\ UNCHANGED <<storage, node>>
       ELSE FailInMempool(c, [m EXCEPT !.locked = FALSE])
    /\ Others

Push(c) ==
    /\ calls[c].pc = "applied"
    /\ LET tx == calls[c].tx  m == mempool[tx.sender]
       IN  mempool' = [mempool EXCEPT ![tx.sender] = Release([m EXCEPT !.txs = Append(@, tx)])]
    /\ calls' = [calls EXCEPT ![c] = NoCall]
    /\ UNCHANGED <<storage, node>> /\ Others

-----------------------------------------------------------------------------
(* Blocks. AcceptBlockHandler applies a block and then removes its            *)
(* transactions from the pool; the event of the block starts cleanUp.         *)

ApplyBlock(tx) ==
    /\ node = "up" /\ accepted = None /\ Height < MaxHeight /\ readding = None
    /\ tx # None =>
          /\ tx \notin Unfit /\ tx.nonce = ChainNonce(tx.sender) + 1
          /\ Racing \/ \A c \in Call : calls[c].tx # tx
    /\ blocks' = Append(blocks, tx)
    /\ accepted' = tx
    /\ cleaning' = TRUE
    /\ UNCHANGED <<storage, mempool, calls, failed, readding, node, count>>

\* removeForgedTransaction takes no lock of the sender: the transactions up to
\* the forged one go, and the wallet, which had them applied, stays.
Forged(m, tx) ==
    IF tx \in ToSet(m.txs)
    THEN [m EXCEPT !.txs = SubSeq(@, (CHOOSE i \in DOMAIN @ : @[i] = tx) + 1, Len(@))]
    ELSE m

RemoveForged ==
    /\ accepted # None /\ readding = None /\ node = "up"
    /\ accepted' = None
    /\ IF accepted \in Stored
       THEN LET s == accepted.sender
                m == mempool[s]
            IN  IF m = None THEN mempool' = mempool /\ storage' = Deleted(storage, {accepted})
                ELSE LET left == Forged(m, accepted)
                     IN  /\ mempool' = [mempool EXCEPT ![s] = Disposed(left)]
                         /\ storage' = Deleted(storage, {accepted} \union (ToSet(m.txs) \ ToSet(left.txs)))
       ELSE UNCHANGED <<mempool, storage>>
    /\ UNCHANGED <<calls, blocks, cleaning, failed, readding, node, count>>

CleanUp ==
    /\ cleaning /\ readding = None
    /\ \/ TrimStep /\ cleaning' = TRUE
       \/ Trimmed /\ cleaning' = FALSE /\ UNCHANGED <<mempool, storage>>
    /\ UNCHANGED <<calls, blocks, accepted, failed, readding, node, count>>

\* A block that cannot be kept is reverted and its transaction added to the pool.
RevertBlock(c) ==
    /\ node = "up" /\ blocks # <<>> /\ count.reverts < MaxReverts
    /\ accepted \in {None, Last(blocks)} /\ readding = None /\ Idle(c)
    /\ blocks' = Front(blocks)
    /\ Racing \/ Last(blocks) \notin failed
    /\ IF Last(blocks) # None THEN Start(c, Last(blocks), TRUE)
       ELSE UNCHANGED <<storage, mempool, calls, node>>
    /\ accepted' = None
    /\ count' = [count EXCEPT !.reverts = @ + 1]
    /\ UNCHANGED <<cleaning, failed, readding>>

-----------------------------------------------------------------------------
(* The collator tries the transactions from the highest fee on a copy of the  *)
(* chain's wallets, until the block is full, wherever that is. One that fails *)
(* bars its sender for this block, and is removed from the pool later.        *)

\* What is tried before a transaction, of the same sender.
Before(tx) ==
    {o \in Pooled : o.sender = tx.sender /\ (o.fee > tx.fee \/ (o.fee = tx.fee /\ o.nonce < tx.nonce))}
Fits(tx) == ~IsExpired(tx) /\ tx.nonce = ChainNonce(tx.sender) + Cardinality(Before(tx)) + 1

Candidates == {tx \in Pooled : \A o \in Before(tx) \union {tx} : Fits(o)}
Failing == {tx \in Pooled : ~Fits(tx) /\ \A o \in Before(tx) : Fits(o)}

GetBlockCandidateTransactions ==
    /\ node = "up" /\ failed = {}
    /\ \E last \in Failing : failed' = {tx \in Failing : tx.fee >= last.fee}
    /\ UNCHANGED <<storage, mempool, calls, blocks, accepted, cleaning, readding, node, count>>

RemoveFailed(tx) ==
    /\ tx \in failed /\ readding = None /\ Unlocked(tx.sender)
    /\ IF tx \in Stored
       THEN IF tx \in Pooled THEN RemoveFrom(tx) ELSE storage' = Deleted(storage, {tx}) /\ UNCHANGED mempool
       ELSE UNCHANGED <<mempool, storage>>
    /\ failed' = failed \ {tx}
    /\ UNCHANGED <<calls, blocks, accepted, cleaning, readding, node, count>>

-----------------------------------------------------------------------------
(* readdTransactions, at a new milestone and when the node starts.            *)

StartReadding ==
    /\ node = "up" /\ readding = None /\ ~cleaning /\ count.readds < MaxReadds
    /\ \A c \in Call : Idle(c)
    /\ readding' = storage
    /\ mempool' = [s \in Sender |-> None]
    /\ count' = [count EXCEPT !.readds = @ + 1]
    /\ UNCHANGED <<storage, calls, blocks, accepted, cleaning, failed, node>>

Restart ==
    /\ count.restarts < MaxRestarts
    /\ readding' = storage
    /\ mempool' = [s \in Sender |-> None]
    /\ calls' = [c \in Call |-> NoCall]
    /\ accepted' = None /\ cleaning' = FALSE /\ failed' = {} /\ node' = "up"
    /\ count' = [count EXCEPT !.restarts = @ + 1]
    /\ UNCHANGED <<storage, blocks>>

\* Whether the mempool takes the transaction, and what it gives up for it.
Takes(tx) ==
    LET s == tx.sender
    IN  /\ tx \notin Unfit /\ ~IsExpired(tx) /\ MayEnter(tx)
        /\ Len(Txs(s)) < MaxTransactionsPerSender
        /\ tx.nonce = (IF mempool[s] = None THEN ChainNonce(s) ELSE mempool[s].nonce) + 1

Refused(tx) == storage' = Deleted(storage, {tx})

Pushed(pool, tx) ==
    LET m == Opened(pool[tx.sender])
    IN  [pool EXCEPT ![tx.sender] = [m EXCEPT !.txs = Append(@, tx), !.nonce = tx.nonce]]

ReaddNext ==
    /\ readding # None /\ readding # <<>> /\ node = "up"
    /\ LET row == Head(readding)
           tx  == row.tx
           fits == ~IsOld(row) /\ Takes(tx)
       IN  \/ /\ fits /\ Size < MaxTransactionsInPool
              /\ mempool' = Pushed(mempool, tx) /\ UNCHANGED storage
           \/ /\ ~(fits /\ (Size < MaxTransactionsInPool \/ \E lowest \in Lowest : tx.fee > lowest.fee))
              /\ Refused(tx) /\ UNCHANGED mempool
           \/ /\ fits /\ Size >= MaxTransactionsInPool
              /\ \E lowest \in {o \in Lowest : tx.fee > o.fee} :
                    LET result == TakeBack(mempool[lowest.sender], lowest)
                        pool   == [mempool EXCEPT ![lowest.sender] = Disposed(result.m)]
                    IN  IF tx.sender # lowest.sender
                        THEN mempool' = Pushed(pool, tx) /\ storage' = Deleted(storage, result.removed)
                        ELSE mempool' = pool /\ storage' = Deleted(storage, result.removed \union {tx})
    /\ readding' = Tail(readding)
    /\ UNCHANGED <<calls, blocks, accepted, cleaning, failed, node, count>>

EndReadding ==
    /\ readding = <<>>
    /\ readding' = None
    /\ UNCHANGED <<storage, mempool, calls, blocks, accepted, cleaning, failed, node, count>>

-----------------------------------------------------------------------------
Init ==
    /\ storage = <<>> /\ mempool = [s \in Sender |-> None]
    /\ calls = [c \in Call |-> NoCall]
    /\ blocks = <<>> /\ accepted = None /\ cleaning = FALSE /\ failed = {} /\ readding = None
    /\ node = "up" /\ count = [reverts |-> 0, restarts |-> 0, readds |-> 0]

AddStep(c) == Unfitting(c) \/ Trim(c) \/ MakeRoom(c) \/ Enter(c) \/ Verify(c) \/ Apply(c) \/ Push(c)

Next ==
    \/ \E c \in Call, tx \in Tx : AddTransaction(c, tx)
    \/ \E c \in Call : AddStep(c) \/ RevertBlock(c)
    \/ \E tx \in Tx \union {None} : ApplyBlock(tx)
    \/ RemoveForged \/ CleanUp
    \/ GetBlockCandidateTransactions
    \/ \E tx \in Tx : RemoveFailed(tx)
    \/ StartReadding \/ Restart \/ ReaddNext \/ EndReadding

\* Whatever was started goes on: the event loop runs every continuation, and a
\* sender's lock is not kept from a waiter for ever (Lock).
Fairness ==
    /\ \A c \in Call : SF_vars(AddStep(c))
    /\ WF_vars(RemoveForged) /\ WF_vars(CleanUp) /\ WF_vars(ReaddNext) /\ WF_vars(EndReadding)

Spec == Init /\ [][Next]_vars /\ Fairness

-----------------------------------------------------------------------------
(* Properties.                                                               *)

\* The values the variables take.
TypeOK ==
    /\ Stored \subseteq Tx /\ blocks \in Seq(Tx \union {None}) /\ Height <= MaxHeight
    /\ \A s \in Sender : mempool[s] # None =>
          /\ ToSet(mempool[s].txs) \subseteq {tx \in Tx : tx.sender = s}
          /\ mempool[s].nonce \in Nat \union {None} /\ mempool[s].users \in 0..Cardinality(Call)
          /\ mempool[s].locked \in BOOLEAN /\ mempool[s].corrupt \in BOOLEAN
    /\ calls \in [Call -> [tx : Tx \union {None}, reverted : BOOLEAN,
                           pc : {"idle", "fee", "enter", "waiting", "verified", "applied"}]]
    /\ failed \subseteq Tx /\ cleaning \in BOOLEAN /\ node \in {"up", "corrupted"}

Quiet == node = "up" /\ (\A c \in Call : Idle(c)) /\ accepted = None /\ readding = None

\* When nothing is on its way the storage has the transactions of the mempool
\* and no others, so that a restart loses none and the service can remove each.
StorageIsMempool == Quiet => Stored = Pooled

\* The mempool of a sender is a run of consecutive nonces, and its copy of the
\* wallet has applied just these (sender-state.ts): taking any of them back
\* never fails and the copy is never corrupt.
NoncesAreConsecutive ==
    \A s \in Sender : mempool[s] # None =>
        /\ ~mempool[s].corrupt
        /\ \A i \in DOMAIN Txs(s) : i > 1 => Txs(s)[i].nonce = Txs(s)[i - 1].nonce + 1
        /\ ~mempool[s].locked /\ Txs(s) # <<>> => Last(Txs(s)).nonce = mempool[s].nonce

\* A sender has at most one vote and one registration in the pool, whichever
\* calls verify and apply at the same time (vote.ts, throwIfCannotEnterPool).
OneOfAKind ==
    \A s \in Sender : \A i, j \in DOMAIN Txs(s) :
        Txs(s)[i].kind # "transfer" /\ Txs(s)[i].kind = Txs(s)[j].kind => i = j

\* Calls at the same time may pass the limit of the pool, but by no more than
\* one transaction each.
PoolLimit == Size <= MaxTransactionsInPool + Cardinality(Call) - 1

\* The mempool of a sender that has nothing in it and no caller is given up, and
\* a lock is held by the one call that verified last.
SendersGivenUp ==
    \A s \in Sender : mempool[s] # None =>
        /\ Txs(s) # <<>> \/ mempool[s].users > 0
        /\ mempool[s].users = Cardinality({c \in Call : calls[c].tx # None /\ calls[c].tx.sender = s
                                                         /\ calls[c].pc \in {"waiting", "verified", "applied"}})

\* No wallet copy falls behind the chain without a way out: until a block is
\* reverted, each mempool begins with the transaction the chain expects next, or
\* with one another of the same nonce was forged for, which the collator removes.
NextOrStale ==
    count.reverts = 0 => \A s \in Sender : Txs(s) # <<>> => Head(Txs(s)).nonce <= ChainNonce(s) + 1

\* Every call of addTransaction ends.
CallsEnd == \A c \in Call : ~Idle(c) ~> Idle(c)

\* Does not hold (README, section 5):
\* No two registrations of one name are in the pool (validator-registration.ts:
\* "Validator registration for "${username}" already in the pool").
OneOfAName ==
    \A t, u \in Pooled : t.kind = "registration" /\ u.kind = "registration" /\ t.name = u.name => t = u

\* Does not hold (README, section 5):
\* What the collator ignores because a transaction of the same sender failed
\* are transactions that come after that one.
IgnoredAreFuture ==
    \A tx \in Pooled \ (Failing \union Candidates) :
        \E o \in Failing : o.sender = tx.sender /\ o.nonce <= tx.nonce

\* Does not hold (README, section 5):
\* A reverted block's transactions are in the pool again, and the node goes on.
RevertsReadd == node # "corrupted"
=============================================================================
