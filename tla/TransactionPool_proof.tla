------------------------ MODULE TransactionPool_proof ------------------------
(***************************************************************************)
(* The pool's storage has the transactions of its mempool, and each        *)
(* sender's are a run of nonces that its copy of the wallet has applied.   *)
(***************************************************************************)
EXTENDS TransactionPool, FiniteSetTheorems, NaturalsInduction, WellFoundedInduction, TLAPS

-----------------------------------------------------------------------------
(* The rows of the storage *)

\* The transactions of some rows, and that none has two rows.
TxsOf(rows) == {rows[i].tx : i \in DOMAIN rows}
Distinct(rows) == \A i, j \in 1..Len(rows) : rows[i].tx = rows[j].tx => i = j

\* What Deleted computes of the first rows.
KeptBy(f, rows, T, n) ==
  f = [i \in 0..n |-> IF i = 0 THEN <<>>
                      ELSE IF rows[i].tx \in T THEN f[i - 1] ELSE Append(f[i - 1], rows[i])]

\* Induction, as the library's own theorem of it cannot be used: what holds for
\* some number holds for a least one.
LEMMA Least ==
  ASSUME NEW S, S \subseteq Nat, S # {}
  PROVE  \E x \in S : \A y \in S : x <= y
<1> DEFINE R == {x \in Nat \X Nat : x[1] < x[2]}
<1>1. IsWellFoundedOn(OpToRel(<,Nat), Nat)
  BY NatLessThanWellFounded
<1>2. OpToRel(<,Nat) = R
  BY DEF OpToRel
<1>3. IsWellFoundedOn(R, Nat)
  BY <1>1, <1>2, Zenon
<1>4. PICK x \in S : \A y \in S : <<y, x>> \notin R
  <2> HIDE DEF R
  <2> QED BY <1>3, WFMin
<1>5. \A y \in S : ~(y < x)
  BY <1>4
<1> QED BY <1>5

\* One row more.
LEMMA KeptByOneMore ==
  ASSUME NEW rows, NEW T, NEW n \in Nat, NEW f, KeptBy(f, rows, T, n)
  PROVE  \E g : KeptBy(g, rows, T, n + 1)
<1> DEFINE g == [i \in 0..(n + 1) |-> IF i <= n THEN f[i] ELSE
         IF rows[i].tx \in T THEN f[i - 1] ELSE Append(f[i - 1], rows[i])]
<1>1. ASSUME NEW i \in 0..(n + 1)
      PROVE  g[i] = IF i = 0 THEN <<>>
                    ELSE IF rows[i].tx \in T THEN g[i - 1] ELSE Append(g[i - 1], rows[i])
  <2>1. CASE i = 0
    BY <2>1 DEF KeptBy
  <2>2. CASE i # 0
    <3>1. i - 1 \in 0..n /\ i - 1 \in 0..(n + 1) /\ i - 1 <= n
      BY <2>2
    <3>2. g[i - 1] = f[i - 1]
      BY <3>1
    <3>3. CASE i <= n
      <4>1. i \in 0..n
        BY <3>3
      <4>2. f[i] = IF rows[i].tx \in T THEN f[i - 1] ELSE Append(f[i - 1], rows[i])
        BY <4>1, <2>2 DEF KeptBy
      <4>3. g[i] = f[i]
        BY <3>3
      <4> QED BY <4>2, <4>3, <3>2, <2>2, Zenon
    <3>4. CASE ~(i <= n)
      <4>1. g[i] = IF rows[i].tx \in T THEN f[i - 1] ELSE Append(f[i - 1], rows[i])
        BY <3>4
      <4> QED BY <4>1, <3>2, <2>2, Zenon
    <3> QED BY <3>3, <3>4
  <2> QED BY <2>1, <2>2
<1>2. g = [i \in 0..(n + 1) |-> g[i]]
  OBVIOUS
<1> HIDE DEF g
<1> QED BY <1>1, <1>2 DEF KeptBy

\* The recursion of Deleted has a value, which follows it.
LEMMA DeletedIsKept ==
  ASSUME NEW rows, NEW T, Len(rows) \in Nat
  PROVE  \E f : KeptBy(f, rows, T, Len(rows)) /\ Deleted(rows, T) = f[Len(rows)]
<1> DEFINE Bad == {n \in Nat : ~\E f : KeptBy(f, rows, T, n)}
<1>1. \E f : KeptBy(f, rows, T, 0)
  <2>1. KeptBy([i \in 0..0 |-> <<>>], rows, T, 0)
    BY DEF KeptBy
  <2> QED BY <2>1
<1>2. Bad = {}
  <2>1. SUFFICES ASSUME Bad # {} PROVE FALSE
    OBVIOUS
  <2>2. PICK n \in Bad : \A y \in Bad : n <= y
    BY <2>1, Least
  <2>3. n # 0
    BY <1>1
  <2>4. n - 1 \in Nat /\ n - 1 \notin Bad /\ (n - 1) + 1 = n
    BY <2>2, <2>3
  <2>5. PICK f : KeptBy(f, rows, T, n - 1)
    BY <2>4
  <2> QED BY <2>4, <2>5, KeptByOneMore
<1>3. \E f : KeptBy(f, rows, T, Len(rows))
  BY <1>2
<1> DEFINE f == CHOOSE f : KeptBy(f, rows, T, Len(rows))
<1>4. KeptBy(f, rows, T, Len(rows))
  BY <1>3, Zenon
<1>5. Deleted(rows, T) = f[Len(rows)]
  BY DEF Deleted, KeptBy
<1> HIDE DEF f
<1> QED BY <1>4, <1>5

\* What is left of the first n rows: rows, those of other transactions, none of
\* them twice.
Left(kept, rows, T, n) ==
  /\ kept \in Seq(Row)
  /\ \A i \in 1..Len(kept) : \E k \in 1..n : kept[i] = rows[k] /\ rows[k].tx \notin T
  /\ \A k \in 1..n : rows[k].tx \notin T => \E i \in 1..Len(kept) : kept[i] = rows[k]
  /\ Distinct(rows) => Distinct(kept)

\* A row more, deleted or left.
LEMMA LeftOneMore ==
  ASSUME NEW rows \in Seq(Row), NEW T, NEW n \in Nat, n < Len(rows), NEW kept, Left(kept, rows, T, n)
  PROVE  /\ rows[n + 1].tx \in T => Left(kept, rows, T, n + 1)
         /\ rows[n + 1].tx \notin T => Left(Append(kept, rows[n + 1]), rows, T, n + 1)
<1>1. n + 1 \in 1..Len(rows) /\ rows[n + 1] \in Row
  OBVIOUS
<1>2. kept \in Seq(Row)
  BY DEF Left
<1>3. ASSUME rows[n + 1].tx \in T PROVE Left(kept, rows, T, n + 1)
  BY <1>3, <1>1 DEF Left
<1>4. ASSUME rows[n + 1].tx \notin T PROVE Left(Append(kept, rows[n + 1]), rows, T, n + 1)
  <2> DEFINE more == Append(kept, rows[n + 1])
  <2>1. /\ more \in Seq(Row) /\ Len(more) = Len(kept) + 1 /\ more[Len(kept) + 1] = rows[n + 1]
        /\ \A i \in 1..Len(kept) : more[i] = kept[i]
        /\ \A i \in 1..Len(more) : i \in 1..Len(kept) \/ i = Len(kept) + 1
    BY <1>1, <1>2
  <2>2. Len(kept) \in Nat
    BY <1>2
  <2> HIDE DEF more
  <2>3. \A i \in 1..Len(more) : \E k \in 1..(n + 1) : more[i] = rows[k] /\ rows[k].tx \notin T
    <3> TAKE i \in 1..Len(more)
    <3>1. CASE i \in 1..Len(kept)
      <4>1. PICK k \in 1..n : kept[i] = rows[k] /\ rows[k].tx \notin T
        BY <3>1 DEF Left
      <4>2. k \in 1..(n + 1) /\ more[i] = rows[k]
        BY <4>1, <3>1, <2>1
      <4> QED BY <4>1, <4>2
    <3>2. CASE i = Len(kept) + 1
      <4>1. n + 1 \in 1..(n + 1)
        OBVIOUS
      <4> QED BY <4>1, <3>2, <2>1, <1>4
    <3> QED BY <3>1, <3>2, <2>1
  <2>4. \A k \in 1..(n + 1) : rows[k].tx \notin T => \E i \in 1..Len(more) : more[i] = rows[k]
    <3>1. ASSUME NEW k \in 1..(n + 1), rows[k].tx \notin T PROVE \E i \in 1..Len(more) : more[i] = rows[k]
      <4>1. CASE k \in 1..n
        <5>1. PICK i \in 1..Len(kept) : kept[i] = rows[k]
          BY <3>1, <4>1 DEF Left
        <5>2. i \in 1..Len(more) /\ more[i] = rows[k]
          BY <5>1, <2>1, <2>2
        <5> QED BY <5>2
      <4>2. CASE k = n + 1
        <5>1. Len(kept) + 1 \in 1..Len(more)
          BY <2>1, <2>2
        <5> QED BY <5>1, <4>2, <2>1
      <4> QED BY <4>1, <4>2
    <3> QED BY <3>1
  <2>5. ASSUME Distinct(rows) PROVE Distinct(more)
    <3>1. Distinct(kept)
      BY <2>5 DEF Left
    <3>2. \A i \in 1..Len(kept) : kept[i].tx # rows[n + 1].tx
      <4>1. SUFFICES ASSUME NEW i \in 1..Len(kept), kept[i].tx = rows[n + 1].tx PROVE FALSE
        OBVIOUS
      <4>2. PICK k \in 1..n : kept[i] = rows[k]
        BY DEF Left
      <4>3. k \in 1..Len(rows) /\ k # n + 1
        OBVIOUS
      <4> QED BY <4>1, <4>2, <4>3, <2>5, <1>1 DEF Distinct
    <3> QED BY <3>1, <3>2, <2>1, <2>2 DEF Distinct
  <2> QED BY <2>1, <2>3, <2>4, <2>5 DEF Left, more
<1> QED BY <1>3, <1>4

\* Deleted: the rows of the other transactions, each once if each was there once.
LEMMA DeletedIs ==
  ASSUME NEW rows \in Seq(Row), NEW T
  PROVE  /\ Deleted(rows, T) \in Seq(Row)
         /\ TxsOf(Deleted(rows, T)) = TxsOf(rows) \ T
         /\ Distinct(rows) => Distinct(Deleted(rows, T))
<1>1. Len(rows) \in Nat
  OBVIOUS
<1>2. PICK f : KeptBy(f, rows, T, Len(rows)) /\ Deleted(rows, T) = f[Len(rows)]
  BY <1>1, DeletedIsKept
<1> DEFINE Bad == {n \in 0..Len(rows) : ~Left(f[n], rows, T, n)}
<1>3. Left(f[0], rows, T, 0)
  <2>1. f[0] = <<>>
    BY <1>1, <1>2 DEF KeptBy
  <2> QED BY <2>1 DEF Left, Distinct
<1>4. Bad = {}
  <2>1. SUFFICES ASSUME Bad # {} PROVE FALSE
    OBVIOUS
  <2>2. PICK n \in Bad : \A y \in Bad : n <= y
    <3>1. Bad \subseteq Nat
      BY <1>1
    <3> HIDE DEF Bad
    <3> QED BY <3>1, <2>1, Least
  <2>3. n # 0
    BY <1>3
  <2>4. n - 1 \in Nat /\ n - 1 \in 0..Len(rows) /\ n - 1 \notin Bad /\ (n - 1) + 1 = n /\ n - 1 < Len(rows)
    BY <2>2, <2>3, <1>1
  <2>5. Left(f[n - 1], rows, T, n - 1)
    BY <2>4
  <2>6. f[n] = IF rows[n].tx \in T THEN f[n - 1] ELSE Append(f[n - 1], rows[n])
    BY <2>3, <1>2 DEF KeptBy
  <2>7. Left(f[n], rows, T, n)
    BY <2>4, <2>5, <2>6, LeftOneMore
  <2> QED BY <2>7
<1> DEFINE kept == Deleted(rows, T)
<1>5. Left(kept, rows, T, Len(rows))
  BY <1>1, <1>2, <1>4
<1> HIDE DEF kept
<1>6. kept \in Seq(Row) /\ DOMAIN kept = 1..Len(kept) /\ DOMAIN rows = 1..Len(rows)
  <2>1. kept \in Seq(Row)
    BY <1>5 DEF Left
  <2> QED BY <2>1
<1>7. TxsOf(kept) = TxsOf(rows) \ T
  <2>1. ASSUME NEW i \in 1..Len(kept) PROVE kept[i].tx \in TxsOf(rows) \ T
    BY <1>5, <1>6 DEF Left, TxsOf
  <2>2. ASSUME NEW k \in 1..Len(rows), rows[k].tx \notin T PROVE rows[k].tx \in TxsOf(kept)
    BY <2>2, <1>5, <1>6 DEF Left, TxsOf
  <2> QED BY <2>1, <2>2, <1>6 DEF TxsOf
<1> QED BY <1>5, <1>6, <1>7 DEF Left, kept

\* A row more.
LEMMA AppendedIs ==
  ASSUME NEW rows \in Seq(Row), NEW row \in Row
  PROVE  /\ Append(rows, row) \in Seq(Row)
         /\ TxsOf(Append(rows, row)) = TxsOf(rows) \cup {row.tx}
         /\ Distinct(rows) /\ row.tx \notin TxsOf(rows) => Distinct(Append(rows, row))
<1> DEFINE more == Append(rows, row)
<1>1. /\ more \in Seq(Row) /\ Len(more) = Len(rows) + 1 /\ more[Len(rows) + 1] = row
      /\ Len(rows) \in Nat /\ \A i \in 1..Len(rows) : more[i] = rows[i]
      /\ \A i \in 1..Len(more) : i \in 1..Len(rows) \/ i = Len(rows) + 1
      /\ DOMAIN more = 1..Len(more) /\ DOMAIN rows = 1..Len(rows)
  OBVIOUS
<1> HIDE DEF more
<1>2. TxsOf(more) = TxsOf(rows) \cup {row.tx}
  <2>1. \A i \in 1..Len(rows) : i \in 1..Len(more)
    BY <1>1
  <2>2. Len(rows) + 1 \in 1..Len(more)
    BY <1>1
  <2> QED BY <1>1, <2>1, <2>2 DEF TxsOf
<1>3. Distinct(rows) /\ row.tx \notin TxsOf(rows) => Distinct(more)
  BY <1>1 DEF Distinct, TxsOf
<1> QED BY <1>1, <1>2, <1>3 DEF more

-----------------------------------------------------------------------------
(* One sender *)

CallState ==
  [tx : Tx \cup {None}, pc : {"idle", "fee", "enter", "waiting", "verified", "applied"}, reverted : BOOLEAN]
CallsTyped(K) == K \in [Call -> CallState] /\ \A c \in Call : K[c].tx = None <=> K[c].pc = "idle"

\* The calls that are in the mempool of a sender, and those that have its lock.
Uses(call, s) == call.tx # None /\ call.tx.sender = s /\ call.pc \in {"waiting", "verified", "applied"}
Users(K, s) == {c \in Call : Uses(K[c], s)}
Holders(K, s) == {c \in Users(K, s) : K[c].pc \in {"verified", "applied"}}

\* The nonce before the mempool's first transaction: its wallet has applied the
\* transactions it has, and the one that is about to be pushed.
Taken(K, s) == IF \E c \in Users(K, s) : K[c].pc = "applied" THEN 1 ELSE 0
Base(m, K, s) == m.nonce - Taken(K, s) - Len(m.txs)

\* A mempool that is a run of nonces, of which one call has the lock.
Run(s, m, K) ==
  /\ m \in Mempool /\ ~m.corrupt
  /\ \A i \in 1..Len(m.txs) : m.txs[i].sender = s /\ m.nonce # None /\ m.txs[i].nonce = Base(m, K, s) + i
Kinds(s, m, K) ==
  /\ \A i, j \in 1..Len(m.txs) : m.txs[i].kind # "transfer" /\ m.txs[i].kind = m.txs[j].kind => i = j
  /\ \A c \in Holders(K, s) : K[c].tx.kind # "transfer" =>
        \A i \in 1..Len(m.txs) : m.txs[i].kind # K[c].tx.kind
Locks(s, m, K) ==
  /\ m.locked <=> Holders(K, s) # {}
  /\ \A c, d \in Holders(K, s) : c = d
  /\ \A c \in Users(K, s) : K[c].pc = "applied" => m.nonce = K[c].tx.nonce
Sound(s, m, K) == Run(s, m, K) /\ Kinds(s, m, K) /\ Locks(s, m, K) /\ m.users = Cardinality(Users(K, s))

\* What a sender has: nothing that nobody uses.
SenderOK(s, m, K) ==
  IF m = None THEN Users(K, s) = {} ELSE Sound(s, m, K) /\ (m.txs # <<>> \/ m.users > 0)

\* It begins no later than after nonce n.
Begins(s, m, K, n) == m # None /\ m.nonce # None => Base(m, K, s) <= n

\* Only a call of the sender matters to its mempool.
LEMMA OtherCalls ==
  ASSUME NEW s, NEW m, NEW K, NEW L,
         \A c \in Call : K[c] = L[c] \/ (~Uses(K[c], s) /\ ~Uses(L[c], s))
  PROVE  /\ Users(L, s) = Users(K, s) /\ Holders(L, s) = Holders(K, s) /\ Taken(L, s) = Taken(K, s)
         /\ \A c \in Users(K, s) : L[c] = K[c]
         /\ SenderOK(s, m, K) => SenderOK(s, m, L)
         /\ \A n : Begins(s, m, K, n) => Begins(s, m, L, n)
<1>1. Users(L, s) = Users(K, s)
  BY DEF Users
<1>2. \A c \in Users(K, s) : L[c] = K[c]
  BY DEF Users
<1>3. Holders(L, s) = Holders(K, s)
  BY <1>1, <1>2 DEF Holders
<1>4. Taken(L, s) = Taken(K, s)
  BY <1>1, <1>2 DEF Taken
<1>5. Base(m, L, s) = Base(m, K, s)
  BY <1>4 DEF Base
<1>6. \A c \in Holders(K, s) : L[c] = K[c]
  BY <1>2 DEF Holders
<1>7. Sound(s, m, K) => Sound(s, m, L)
  BY <1>1, <1>2, <1>3, <1>5, <1>6 DEF Sound, Run, Kinds, Locks
<1> QED BY <1>1, <1>2, <1>3, <1>4, <1>5, <1>7 DEF SenderOK, Begins

\* There are finitely many calls, so of any sender.
LEMMA UsersFinite ==
  ASSUME PoolAssumption, NEW K, NEW s
  PROVE  IsFiniteSet(Users(K, s)) /\ Cardinality(Users(K, s)) \in Nat
<1>1. IsFiniteSet(Users(K, s))
  BY FS_Subset DEF PoolAssumption, Users
<1> QED BY <1>1, FS_CardinalityType

\* A mempool is given up only when there is no call in it.
LEMMA DisposedOK ==
  ASSUME PoolAssumption, NEW s, NEW m, NEW K, Sound(s, m, K)
  PROVE  /\ SenderOK(s, Disposed(m), K)
         /\ \A n : Begins(s, m, K, n) => Begins(s, Disposed(m), K, n)
<1>1. m \in Mempool /\ m # None /\ m.users \in Nat
  BY DEF Sound, Run, PoolAssumption, Mempool
<1>2. CASE m.txs = <<>> /\ m.users = 0
  <2>1. Users(K, s) = {}
    BY <1>2, UsersFinite, FS_EmptySet DEF Sound
  <2>2. Disposed(m) = None
    BY <1>2 DEF Disposed
  <2> QED BY <2>1, <2>2 DEF SenderOK, Begins
<1>3. CASE ~(m.txs = <<>> /\ m.users = 0)
  <2>1. Disposed(m) = m
    BY <1>3 DEF Disposed
  <2>2. m.txs # <<>> \/ m.users > 0
    BY <1>1, <1>3
  <2> QED BY <2>1, <2>2, <1>1 DEF SenderOK
<1> QED BY <1>2, <1>3

\* Nobody is in the middle of adding when the mempool is not locked.
LEMMA NothingTaken ==
  ASSUME NEW s, NEW m, NEW K, Sound(s, m, K), ~m.locked
  PROVE  Holders(K, s) = {} /\ Taken(K, s) = 0
<1>1. Holders(K, s) = {}
  BY DEF Sound, Locks
<1> QED BY <1>1 DEF Holders, Taken

\* Transactions of one sender differ in their nonces.
LEMMA RunIsDistinct ==
  ASSUME NEW s, NEW m, NEW K, Run(s, m, K), Taken(K, s) \in Nat,
         NEW i \in 1..Len(m.txs), NEW j \in 1..Len(m.txs), m.txs[i] = m.txs[j]
  PROVE  i = j
<1>1. m.nonce \in Nat /\ Len(m.txs) \in Nat
  BY DEF Run, Mempool
<1>2. Base(m, K, s) \in Int
  BY <1>1 DEF Base
<1>3. m.txs[i].nonce = Base(m, K, s) + i /\ m.txs[j].nonce = Base(m, K, s) + j
  BY DEF Run
<1> QED BY <1>2, <1>3

\* A mempool with these fields.
Has(m, t, n, u, l) ==
  m \in Mempool /\ m.txs = t /\ m.nonce = n /\ m.users = u /\ m.locked = l /\ ~m.corrupt

\* Mempools whose fields are set.
LEMMA FieldsSet ==
  ASSUME NEW m \in Mempool, ~m.corrupt,
         NEW t \in Seq(Tx), NEW n \in Nat \cup {None}, NEW u \in Nat, NEW b \in BOOLEAN
  PROVE  /\ Has([m EXCEPT !.txs = t, !.nonce = n], t, n, m.users, m.locked)
         /\ Has([m EXCEPT !.txs = t], t, m.nonce, m.users, m.locked)
         /\ Has([m EXCEPT !.nonce = n], m.txs, n, m.users, m.locked)
         /\ Has([m EXCEPT !.users = u], m.txs, m.nonce, u, m.locked)
         /\ Has([m EXCEPT !.locked = b], m.txs, m.nonce, m.users, b)
         /\ Has([m EXCEPT !.users = u, !.locked = b], m.txs, m.nonce, u, b)
         /\ Has(m, m.txs, m.nonce, m.users, m.locked)
<1>1. Has([m EXCEPT !.txs = t, !.nonce = n], t, n, m.users, m.locked)
  BY DEF Has, Mempool
<1>2. Has([m EXCEPT !.txs = t], t, m.nonce, m.users, m.locked)
  BY DEF Has, Mempool
<1>3. Has([m EXCEPT !.nonce = n], m.txs, n, m.users, m.locked)
  BY DEF Has, Mempool
<1>4. Has([m EXCEPT !.users = u], m.txs, m.nonce, u, m.locked)
  BY DEF Has, Mempool
<1>5. Has([m EXCEPT !.locked = b], m.txs, m.nonce, m.users, b)
  BY DEF Has, Mempool
<1>6. Has([m EXCEPT !.users = u, !.locked = b], m.txs, m.nonce, u, b)
  BY DEF Has, Mempool
<1>7. Has(m, m.txs, m.nonce, m.users, m.locked)
  BY DEF Has, Mempool
<1> QED BY <1>1, <1>2, <1>3, <1>4, <1>5, <1>6, <1>7

\* A mempool that has the first transactions of another, whose wallet has taken
\* back the rest.
FirstOf(m, i) == [m EXCEPT !.txs = SubSeq(m.txs, 1, i - 1), !.nonce = @ - (Len(m.txs) - i + 1)]

LEMMA TakenBack ==
  ASSUME PoolAssumption, NEW s, NEW m, NEW K, Sound(s, m, K), ~m.locked, NEW i \in 1..Len(m.txs)
  PROVE  /\ Sound(s, FirstOf(m, i), K) /\ \A n : Begins(s, m, K, n) => Begins(s, FirstOf(m, i), K, n)
         /\ Len(FirstOf(m, i).txs) = i - 1 /\ \A k \in 1..(i - 1) : FirstOf(m, i).txs[k] = m.txs[k]
<1> DEFINE less == FirstOf(m, i)
           first == SubSeq(m.txs, 1, i - 1)
           nonce == m.nonce - (Len(m.txs) - i + 1)
<1>1. /\ m \in Mempool /\ m.nonce \in Nat /\ Len(m.txs) \in Nat /\ m.txs \in Seq(Tx) /\ ~m.corrupt
      /\ m.locked \in BOOLEAN /\ m.users \in Nat
  BY DEF Sound, Run, Mempool
<1>2. Taken(K, s) = 0 /\ Holders(K, s) = {}
  BY NothingTaken
<1>3. m.txs[i].nonce = m.nonce - Len(m.txs) + i /\ m.txs[i].nonce \in Nat \ {0} /\ m.nonce # None
  BY <1>1, <1>2 DEF Sound, Run, Base, PoolAssumption
<1>4. nonce \in Nat
  BY <1>1, <1>3
<1>5. first \in Seq(Tx) /\ Len(first) = i - 1 /\ \A k \in 1..(i - 1) : first[k] = m.txs[k]
  BY <1>1
<1>6. Has(less, first, nonce, m.users, m.locked)
  <2>1. less = [m EXCEPT !.txs = first, !.nonce = nonce]
    BY DEF FirstOf
  <2> HIDE DEF first, nonce, less
  <2>2. Has([m EXCEPT !.txs = first, !.nonce = nonce], first, nonce, m.users, m.locked)
    BY <1>1, <1>4, <1>5, FieldsSet
  <2> QED BY <2>1, <2>2, Zenon
<1>7. nonce # None /\ m.nonce # None
  BY <1>1, <1>4 DEF PoolAssumption
<1>8. nonce = m.nonce - (Len(m.txs) - i + 1)
  OBVIOUS
<1> HIDE DEF first, nonce, less
<1>9. Base(less, K, s) = Base(m, K, s) /\ Base(m, K, s) \in Int
  BY <1>1, <1>2, <1>4, <1>5, <1>6, <1>8 DEF Base, Has
<1>10. \A k \in 1..(i - 1) : k \in 1..Len(m.txs)
  BY <1>1
<1>11. Run(s, less, K)
  BY <1>5, <1>6, <1>7, <1>9, <1>10 DEF Run, Sound, Has
<1>12. Kinds(s, less, K)
  <2>1. \A j, k \in 1..(i - 1) : first[j].kind # "transfer" /\ first[j].kind = first[k].kind => j = k
    BY <1>5, <1>10 DEF Kinds, Sound
  <2> QED BY <2>1, <1>2, <1>5, <1>6 DEF Kinds, Has
<1>13. Locks(s, less, K)
  BY <1>2, <1>6 DEF Locks, Sound, Holders, Has
<1>14. Sound(s, less, K)
  BY <1>6, <1>11, <1>12, <1>13 DEF Sound, Has
<1>15. \A n : Begins(s, m, K, n) => Begins(s, less, K, n)
  <2>1. m # None
    BY <1>1 DEF PoolAssumption
  <2> QED BY <2>1, <1>7, <1>9 DEF Begins
<1>16. Len(less.txs) = i - 1 /\ \A k \in 1..(i - 1) : less.txs[k] = m.txs[k]
  BY <1>5, <1>6 DEF Has
<1> QED BY <1>14, <1>15, <1>16 DEF less

\* removeTransaction: the copy of the wallet can take back the transaction and
\* those after it, and nothing else leaves the mempool.
LEMMA TakeBackIs ==
  ASSUME PoolAssumption, NEW s, NEW m, NEW K, Sound(s, m, K), ~m.locked, NEW tx \in ToSet(m.txs)
  PROVE  LET result == TakeBack(m, tx)
         IN  /\ Sound(s, result.m, K) /\ \A n : Begins(s, m, K, n) => Begins(s, result.m, K, n)
             /\ tx \in result.removed /\ result.removed \subseteq ToSet(m.txs)
             /\ ToSet(result.m.txs) = ToSet(m.txs) \ result.removed
<1> DEFINE i == CHOOSE j \in DOMAIN m.txs : m.txs[j] = tx
           tail == SubSeq(m.txs, i, Len(m.txs))
           less == FirstOf(m, i)
<1>1. m \in Mempool /\ m.nonce \in Nat \cup {None} /\ Len(m.txs) \in Nat /\ m.txs \in Seq(Tx) /\ ~m.corrupt
  BY DEF Sound, Run, Mempool
<1>2. DOMAIN m.txs = 1..Len(m.txs)
  BY <1>1
<1>3. i \in 1..Len(m.txs) /\ m.txs[i] = tx
  <2>1. \E j \in DOMAIN m.txs : m.txs[j] = tx
    BY DEF ToSet
  <2> QED BY <2>1, <1>2, Zenon
<1> HIDE DEF i
<1>4. /\ Len(tail) = Len(m.txs) - i + 1 /\ DOMAIN tail = 1..Len(tail)
      /\ \A k \in 1..Len(tail) : tail[k] = m.txs[i + k - 1]
  BY <1>1, <1>3
<1> HIDE DEF tail
<1>5. Taken(K, s) = 0
  BY NothingTaken
<1>6. \A k \in 1..Len(m.txs) : m.txs[k].nonce = m.nonce - Len(m.txs) + k /\ m.nonce # None
  BY <1>1, <1>5 DEF Sound, Run, Base
<1>7. \A k \in DOMAIN tail : tail[k].nonce = m.nonce - (Len(tail) - k)
  <2>1. SUFFICES ASSUME NEW k \in 1..Len(tail) PROVE tail[k].nonce = m.nonce - (Len(tail) - k)
    BY <1>4
  <2>2. i + k - 1 \in 1..Len(m.txs)
    BY <1>1, <1>3, <1>4
  <2>3. tail[k].nonce = m.nonce - Len(m.txs) + (i + k - 1) /\ m.nonce \in Nat
    BY <2>2, <1>1, <1>4, <1>6
  <2>4. \A a, l, j, h \in Int : a - l + (h + j - 1) = a - ((l - h + 1) - j)
    OBVIOUS
  <2> QED BY <2>3, <2>4, <1>1, <1>3, <1>4
<1>8. TakeBack(m, tx) = [m |-> less, removed |-> ToSet(tail)]
  BY <1>4, <1>7 DEF TakeBack, FirstOf, i, tail
<1>9. /\ Sound(s, less, K) /\ \A n : Begins(s, m, K, n) => Begins(s, less, K, n)
      /\ Len(less.txs) = i - 1 /\ \A k \in 1..(i - 1) : less.txs[k] = m.txs[k]
  BY <1>3, TakenBack
<1>10. less.txs \in Seq(Tx)
  BY <1>9 DEF Sound, Run, Mempool
<1> HIDE DEF less
<1>11. DOMAIN less.txs = 1..(i - 1)
  BY <1>9, <1>10
<1>12. tx \in ToSet(tail) /\ ToSet(tail) \subseteq ToSet(m.txs)
  <2>1. 1 \in 1..Len(tail) /\ tail[1] = tx
    BY <1>1, <1>3, <1>4
  <2>2. \A k \in 1..Len(tail) : i + k - 1 \in 1..Len(m.txs)
    BY <1>1, <1>3, <1>4
  <2> QED BY <2>1, <2>2, <1>2, <1>4 DEF ToSet
<1>13. ToSet(less.txs) = ToSet(m.txs) \ ToSet(tail)
  <2>1. ASSUME NEW k \in 1..(i - 1) PROVE less.txs[k] \in ToSet(m.txs) \ ToSet(tail)
    <3>1. k \in 1..Len(m.txs) /\ less.txs[k] = m.txs[k]
      BY <1>1, <1>3, <1>9
    <3>2. \A j \in 1..Len(tail) : m.txs[k] # tail[j]
      <4>1. SUFFICES ASSUME NEW j \in 1..Len(tail), m.txs[k] = m.txs[i + j - 1] PROVE FALSE
        BY <1>4
      <4>2. i + j - 1 \in 1..Len(m.txs) /\ k # i + j - 1
        BY <1>1, <1>3, <1>4
      <4>3. Taken(K, s) \in Nat /\ Run(s, m, K)
        BY <1>5 DEF Sound
      <4> QED BY <4>1, <4>2, <4>3, <3>1, RunIsDistinct
    <3> QED BY <3>1, <3>2, <1>2, <1>4 DEF ToSet
  <2>2. ASSUME NEW k \in 1..Len(m.txs), m.txs[k] \notin ToSet(tail) PROVE m.txs[k] \in ToSet(less.txs)
    <3>1. CASE k < i
      BY <3>1, <1>1, <1>9, <1>11, <1>3 DEF ToSet
    <3>2. CASE ~(k < i)
      <4>1. k - i + 1 \in 1..Len(tail) /\ i + (k - i + 1) - 1 = k
        BY <3>2, <1>1, <1>3, <1>4
      <4>2. tail[k - i + 1] = m.txs[k]
        BY <4>1, <1>4
      <4> QED BY <4>1, <4>2, <2>2, <1>4 DEF ToSet
    <3> QED BY <3>1, <3>2
  <2> QED BY <2>1, <2>2, <1>2, <1>11 DEF ToSet
<1> QED BY <1>8, <1>9, <1>12, <1>13

\* removeForgedTransaction: the mempool is left with what comes after the
\* forged one, so that it begins no later than the chain expects.
LEMMA ForgedIs ==
  ASSUME PoolAssumption, NEW s, NEW m, NEW K, Sound(s, m, K), Taken(K, s) \in Nat,
         NEW tx \in Tx, NEW n \in Nat, tx.nonce <= n
  PROVE  LET left == Forged(m, tx)
         IN  /\ Sound(s, left, K) /\ (Begins(s, m, K, n) => Begins(s, left, K, n))
             /\ ToSet(left.txs) \subseteq ToSet(m.txs) /\ tx \notin ToSet(left.txs)
<1>1. CASE tx \notin ToSet(m.txs)
  BY <1>1 DEF Forged
<1>2. CASE tx \in ToSet(m.txs)
  <2> DEFINE i == CHOOSE j \in DOMAIN m.txs : m.txs[j] = tx
             rest == SubSeq(m.txs, i + 1, Len(m.txs))
             left == [m EXCEPT !.txs = rest]
  <2>1. m \in Mempool /\ m.nonce \in Nat \cup {None} /\ Len(m.txs) \in Nat /\ m.txs \in Seq(Tx) /\ ~m.corrupt
    BY DEF Sound, Run, Mempool
  <2>2. DOMAIN m.txs = 1..Len(m.txs)
    BY <2>1
  <2>3. i \in 1..Len(m.txs) /\ m.txs[i] = tx
    <3>1. \E j \in DOMAIN m.txs : m.txs[j] = tx
      BY <1>2 DEF ToSet
    <3> QED BY <3>1, <2>2, Zenon
  <2>4. Forged(m, tx) = left
    BY <1>2, <2>1 DEF Forged
  <2> HIDE DEF i
  <2>5. /\ rest \in Seq(Tx) /\ Len(rest) = Len(m.txs) - i /\ DOMAIN rest = 1..Len(rest)
        /\ \A k \in 1..Len(rest) : rest[k] = m.txs[i + k]
    BY <2>1, <2>3
  <2>6. Has(left, rest, m.nonce, m.users, m.locked)
    <3> HIDE DEF rest
    <3>1. m.users \in Nat /\ m.locked \in BOOLEAN
      BY <2>1 DEF Mempool
    <3> QED BY <3>1, <2>1, <2>5, FieldsSet
  <2> HIDE DEF rest, left
  <2>7. /\ m.nonce # None /\ m.nonce \in Nat /\ m # None /\ left # None
        /\ tx.nonce = Base(m, K, s) + i /\ Base(m, K, s) \in Int
    BY <2>1, <2>3, <2>6 DEF Sound, Run, Base, PoolAssumption, Has
  <2>8. Base(left, K, s) = Base(m, K, s) + i
    BY <2>1, <2>3, <2>5, <2>6, <2>7 DEF Base, Has
  <2>9. \A k \in 1..Len(rest) : i + k \in 1..Len(m.txs)
    BY <2>1, <2>3, <2>5
  <2>10. Run(s, left, K)
    <3>1. ASSUME NEW k \in 1..Len(rest)
          PROVE  rest[k].sender = s /\ rest[k].nonce = Base(left, K, s) + k
      <4>1. m.txs[i + k].sender = s /\ m.txs[i + k].nonce = Base(m, K, s) + (i + k)
        BY <2>9 DEF Sound, Run
      <4>2. rest[k] = m.txs[i + k]
        BY <2>5
      <4>3. Base(m, K, s) + (i + k) = (Base(m, K, s) + i) + k
        <5>1. \A a, b, d \in Int : a + (b + d) = (a + b) + d
          OBVIOUS
        <5>2. i \in Int /\ k \in Int
          BY <2>3, <2>1, <2>5
        <5> QED BY <5>1, <5>2, <2>7
      <4> QED BY <4>1, <4>2, <4>3, <2>8
    <3> QED BY <3>1, <2>6, <2>7 DEF Run, Has
  <2>11. Kinds(s, left, K)
    <3>1. ASSUME NEW j \in 1..Len(rest), NEW k \in 1..Len(rest), rest[j].kind # "transfer", rest[j].kind = rest[k].kind
          PROVE  j = k
      <4>1. i + j = i + k
        BY <3>1, <2>5, <2>9 DEF Sound, Kinds
      <4> QED BY <4>1, <2>3
    <3>2. \A c \in Holders(K, s) : K[c].tx.kind # "transfer" =>
             \A k \in 1..Len(rest) : rest[k].kind # K[c].tx.kind
      BY <2>5, <2>9 DEF Sound, Kinds
    <3> QED BY <3>1, <3>2, <2>6 DEF Kinds, Has
  <2>12. Locks(s, left, K)
    BY <2>6 DEF Sound, Locks, Has
  <2>13. Sound(s, left, K)
    BY <2>6, <2>10, <2>11, <2>12 DEF Sound, Has
  <2>14. Begins(s, left, K, n)
    BY <2>7, <2>8 DEF Begins
  <2>15. ToSet(rest) \subseteq ToSet(m.txs)
    BY <2>2, <2>5, <2>9 DEF ToSet
  <2>16. tx \notin ToSet(rest)
    <3>1. SUFFICES ASSUME NEW k \in 1..Len(rest), m.txs[i + k] = m.txs[i] PROVE FALSE
      BY <2>3, <2>5 DEF ToSet
    <3>2. i + k = i
      BY <3>1, <2>3, <2>9, RunIsDistinct DEF Sound
    <3> QED BY <3>2, <2>3
  <2> QED BY <2>4, <2>6, <2>13, <2>14, <2>15, <2>16 DEF Has
<1> QED BY <1>1, <1>2

-----------------------------------------------------------------------------
(* The steps of a call, on its sender's mempool *)

\* All calls but one are as they were.
Moves(c, K, L) == \A d \in Call : d # c => L[d] = K[d]

\* A mempool with the same transactions and wallet, and the same users but the
\* call that moves.
LEMMA SameRun ==
  ASSUME NEW s, NEW m, NEW K, NEW L, NEW p, NEW u, NEW l,
         Run(s, m, K), Has(p, m.txs, m.nonce, u, l), Taken(L, s) = Taken(K, s), m # None, p # None
  PROVE  Run(s, p, L) /\ \A n : Begins(s, m, K, n) => Begins(s, p, L, n)
<1>1. Base(p, L, s) = Base(m, K, s)
  BY DEF Base, Has
<1> QED BY <1>1 DEF Run, Has, Begins

\* The mempool of a sender that has none is a new one.
LEMMA OpenedOK ==
  ASSUME PoolAssumption, NEW s, NEW m, NEW K, SenderOK(s, m, K)
  PROVE  /\ Sound(s, Opened(m), K) /\ \A n : Begins(s, m, K, n) => Begins(s, Opened(m), K, n)
         /\ m = None => Opened(m).txs = <<>>
<1>1. CASE m # None
  BY <1>1 DEF SenderOK, Opened
<1>2. CASE m = None
  <2>1. Opened(m) = New /\ Users(K, s) = {}
    BY <1>2 DEF Opened, SenderOK
  <2>2. New \in Mempool
    BY DEF New, Mempool
  <2>3. New.txs = <<>> /\ New.nonce = None /\ New.users = 0 /\ New.locked = FALSE /\ ~New.corrupt
    BY DEF New
  <2>4. Cardinality(Users(K, s)) = 0 /\ Holders(K, s) = {}
    BY <2>1, FS_EmptySet DEF Holders
  <2>5. Len(New.txs) = 0
    BY <2>3
  <2>6. Run(s, New, K)
    BY <2>2, <2>3, <2>5 DEF Run
  <2>7. Kinds(s, New, K)
    BY <2>4, <2>5 DEF Kinds
  <2>8. Locks(s, New, K)
    BY <2>1, <2>3, <2>4 DEF Locks
  <2> QED BY <2>1, <2>3, <2>4, <2>6, <2>7, <2>8 DEF Sound, Begins
<1> QED BY <1>1, <1>2

\* Enter: a call more.
LEMMA Entering ==
  ASSUME PoolAssumption, NEW s, NEW m, NEW K, NEW L, NEW c \in Call, Moves(c, K, L), Sound(s, m, K),
         ~Uses(K[c], s), Uses(L[c], s), L[c].pc = "waiting",
         NEW p, Has(p, m.txs, m.nonce, m.users + 1, m.locked)
  PROVE  Sound(s, p, L) /\ \A n : Begins(s, m, K, n) => Begins(s, p, L, n)
<1>1. Users(L, s) = Users(K, s) \cup {c} /\ c \notin Users(K, s)
  BY DEF Users, Moves
<1>2. \A d \in Users(K, s) : L[d] = K[d]
  BY <1>1 DEF Users, Moves
<1>3. Holders(L, s) = Holders(K, s)
  BY <1>1, <1>2 DEF Holders
<1>4. Taken(L, s) = Taken(K, s)
  BY <1>1, <1>2 DEF Taken
<1>5. m # None /\ p # None /\ m.users \in Nat
  BY DEF Sound, Run, Has, PoolAssumption, Mempool
<1>6. Cardinality(Users(L, s)) = m.users + 1
  BY <1>1, <1>5, UsersFinite, FS_AddElement DEF Sound
<1>7. Run(s, p, L) /\ \A n : Begins(s, m, K, n) => Begins(s, p, L, n)
  BY <1>4, <1>5, SameRun DEF Sound
<1>8. \A d \in Holders(K, s) : L[d] = K[d]
  BY <1>2 DEF Holders
<1>9. Kinds(s, p, L)
  BY <1>3, <1>8 DEF Kinds, Sound, Has
<1>10. Locks(s, p, L)
  BY <1>1, <1>2, <1>3 DEF Locks, Sound, Has
<1> QED BY <1>6, <1>7, <1>9, <1>10 DEF Sound, Has

\* A call that ends in an error, with the lock or without.
LEMMA Leaving ==
  ASSUME PoolAssumption, NEW s, NEW m, NEW K, NEW L, NEW c \in Call, Moves(c, K, L), Sound(s, m, K),
         Uses(K[c], s), K[c].pc # "applied", ~Uses(L[c], s),
         NEW p, Has(p, m.txs, m.nonce, m.users - 1, m.locked /\ c \notin Holders(K, s))
  PROVE  Sound(s, p, L) /\ \A n : Begins(s, m, K, n) => Begins(s, p, L, n)
<1>1. Users(L, s) = Users(K, s) \ {c} /\ c \in Users(K, s)
  BY DEF Users, Moves
<1>2. \A d \in Users(L, s) : L[d] = K[d]
  BY <1>1 DEF Users, Moves
<1>3. Holders(L, s) = Holders(K, s) \ {c}
  BY <1>1, <1>2 DEF Holders
<1>4. Taken(L, s) = Taken(K, s)
  BY <1>1, <1>2 DEF Taken
<1>5. m # None /\ p # None /\ m.users \in Nat /\ m.locked \in BOOLEAN
  BY DEF Sound, Run, Has, PoolAssumption, Mempool
<1>6. Cardinality(Users(L, s)) = m.users - 1
  BY <1>1, <1>5, UsersFinite, FS_RemoveElement DEF Sound
<1>7. Run(s, p, L) /\ \A n : Begins(s, m, K, n) => Begins(s, p, L, n)
  BY <1>4, <1>5, SameRun DEF Sound
<1>8. \A d \in Holders(L, s) : L[d] = K[d] /\ d \in Holders(K, s)
  BY <1>2, <1>3 DEF Holders
<1>9. Kinds(s, p, L)
  BY <1>8 DEF Kinds, Sound, Has
<1>10. Locks(s, p, L)
  <2>1. (m.locked /\ c \notin Holders(K, s)) <=> Holders(L, s) # {}
    BY <1>3 DEF Sound, Locks
  <2> QED BY <2>1, <1>1, <1>2, <1>8 DEF Locks, Sound, Has
<1> QED BY <1>6, <1>7, <1>9, <1>10 DEF Sound, Has

\* Verify: the call takes the lock, for a transaction of a kind the sender has
\* none of.
LEMMA Verifying ==
  ASSUME PoolAssumption, NEW s, NEW m, NEW K, NEW L, NEW c \in Call, Moves(c, K, L), Sound(s, m, K),
         Uses(K[c], s), K[c].pc = "waiting", L[c].pc = "verified", L[c].tx = K[c].tx, ~m.locked,
         K[c].tx.kind # "transfer" => \A i \in 1..Len(m.txs) : m.txs[i].kind # K[c].tx.kind,
         NEW p, Has(p, m.txs, m.nonce, m.users, TRUE)
  PROVE  Sound(s, p, L) /\ \A n : Begins(s, m, K, n) => Begins(s, p, L, n)
<1>1. Users(L, s) = Users(K, s) /\ c \in Users(K, s)
  BY DEF Users, Moves, Uses
<1>2. \A d \in Users(L, s) : d = c \/ L[d] = K[d]
  BY <1>1 DEF Users, Moves
<1>3. Holders(K, s) = {} /\ Taken(K, s) = 0
  BY NothingTaken
<1>4. Holders(L, s) = {c}
  BY <1>1, <1>2, <1>3 DEF Holders
<1>5. Taken(L, s) = Taken(K, s)
  BY <1>1, <1>2 DEF Taken
<1>6. m # None /\ p # None
  BY DEF Sound, Run, Has, PoolAssumption
<1>7. Run(s, p, L) /\ \A n : Begins(s, m, K, n) => Begins(s, p, L, n)
  BY <1>5, <1>6, SameRun DEF Sound
<1>8. Kinds(s, p, L)
  BY <1>4 DEF Kinds, Sound, Has
<1>9. Locks(s, p, L)
  BY <1>1, <1>2, <1>4 DEF Locks, Sound, Has
<1> QED BY <1>1, <1>7, <1>8, <1>9 DEF Sound, Has

\* A call that has verified is alone, and the copy of the wallet it takes, if
\* there was none, is the chain's.
LEMMA CopiedOK ==
  ASSUME PoolAssumption, NEW s, ChainNonce(s) \in Nat, NEW m, NEW K,
         NEW c \in Call, Sound(s, m, K), Uses(K[c], s), K[c].pc = "verified"
  PROVE  /\ Sound(s, Copied(m, s), K) /\ Taken(K, s) = 0 /\ Holders(K, s) = {c} /\ m.locked
         /\ Has(Copied(m, s), m.txs, Copied(m, s).nonce, m.users, m.locked) /\ Copied(m, s).nonce \in Nat
         /\ Begins(s, m, K, ChainNonce(s)) => Begins(s, Copied(m, s), K, ChainNonce(s))
<1>1. c \in Holders(K, s)
  BY DEF Holders, Users
<1>2. Holders(K, s) = {c} /\ m.locked
  BY <1>1 DEF Sound, Locks
<1>3. \A d \in Users(K, s) : K[d].pc # "applied"
  BY <1>1, <1>2 DEF Holders
<1>4. Taken(K, s) = 0
  BY <1>3 DEF Taken
<1>5. m \in Mempool /\ m # None /\ ~m.corrupt
  BY DEF Sound, Run, PoolAssumption
<1>6. CASE m.nonce # None
  <2>1. Copied(m, s) = m
    BY <1>6 DEF Copied
  <2>2. m.nonce \in Nat /\ Has(m, m.txs, m.nonce, m.users, m.locked)
    BY <1>5, <1>6 DEF Mempool, Has
  <2> QED BY <2>1, <2>2, <1>2, <1>4
<1>7. CASE m.nonce = None
  <2> DEFINE p == [m EXCEPT !.nonce = ChainNonce(s)]
  <2>1. Copied(m, s) = p
    BY <1>7 DEF Copied
  <2>2. Has(p, m.txs, ChainNonce(s), m.users, m.locked)
    <3>1. m.txs \in Seq(Tx) /\ m.users \in Nat /\ m.locked \in BOOLEAN
      BY <1>5 DEF Mempool
    <3> QED BY <3>1, <1>5, FieldsSet
  <2> HIDE DEF p
  <2>3. Len(m.txs) = 0
    <3>1. Len(m.txs) \in Nat
      BY <1>5 DEF Mempool
    <3>2. ~(1 \in 1..Len(m.txs))
      BY <1>7 DEF Sound, Run
    <3> QED BY <3>1, <3>2
  <2>4. Run(s, p, K)
    BY <2>2, <2>3 DEF Run, Has
  <2>5. Kinds(s, p, K)
    BY <2>2 DEF Sound, Kinds, Has
  <2>6. Locks(s, p, K)
    BY <2>2, <1>3 DEF Sound, Locks, Has
  <2>7. Begins(s, p, K, ChainNonce(s))
    BY <2>2, <2>3, <1>4 DEF Begins, Base, Has
  <2> QED BY <2>1, <2>2, <2>4, <2>5, <2>6, <2>7, <1>2, <1>4 DEF Sound, Has
<1> QED BY <1>6, <1>7

\* Apply: the copy of the wallet has applied the transaction.
LEMMA Applying ==
  ASSUME PoolAssumption, NEW s, NEW m, NEW K, NEW L, NEW c \in Call, Moves(c, K, L), Sound(s, m, K),
         Uses(K[c], s), Holders(K, s) = {c}, Taken(K, s) = 0, m.locked,
         L[c].pc = "applied", L[c].tx = K[c].tx, m.nonce \in Nat, K[c].tx.nonce = m.nonce + 1,
         NEW p, Has(p, m.txs, K[c].tx.nonce, m.users, m.locked)
  PROVE  Sound(s, p, L) /\ \A n : Begins(s, m, K, n) => Begins(s, p, L, n)
<1>1. Users(L, s) = Users(K, s) /\ c \in Users(K, s)
  BY DEF Users, Moves, Uses
<1>2. \A d \in Users(L, s) : d = c \/ L[d] = K[d]
  BY <1>1 DEF Users, Moves
<1>3. Holders(L, s) = {c}
  BY <1>1, <1>2 DEF Holders
<1>4. Taken(L, s) = 1
  BY <1>1 DEF Taken
<1>5. m # None /\ p # None /\ p.nonce # None /\ m.nonce # None /\ Len(m.txs) \in Nat
  BY DEF Sound, Run, Has, PoolAssumption, Mempool
<1>6. Base(p, L, s) = Base(m, K, s)
  BY <1>4, <1>5 DEF Base, Has
<1>7. Run(s, p, L) /\ \A n : Begins(s, m, K, n) => Begins(s, p, L, n)
  BY <1>5, <1>6 DEF Sound, Run, Begins, Has
<1>8. Kinds(s, p, L)
  BY <1>3 DEF Kinds, Sound, Has
<1>9. Locks(s, p, L)
  <2>1. \A d \in Users(L, s) : L[d].pc = "applied" => d = c
    BY <1>1, <1>2, <1>3 DEF Holders
  <2> QED BY <2>1, <1>3 DEF Locks, Has
<1> QED BY <1>1, <1>7, <1>8, <1>9 DEF Sound, Has

\* Push: the transaction is the last, and the lock is free.
LEMMA Pushing ==
  ASSUME PoolAssumption, NEW s, NEW m, NEW K, NEW L, NEW c \in Call, Moves(c, K, L), Sound(s, m, K),
         Uses(K[c], s), K[c].pc = "applied", K[c].tx \in Tx, ~Uses(L[c], s),
         NEW p, Has(p, Append(m.txs, K[c].tx), m.nonce, m.users - 1, FALSE)
  PROVE  Sound(s, p, L) /\ \A n : Begins(s, m, K, n) => Begins(s, p, L, n)
<1> DEFINE tx == K[c].tx
<1>1. Users(L, s) = Users(K, s) \ {c} /\ c \in Users(K, s)
  BY DEF Users, Moves
<1>2. \A d \in Users(L, s) : L[d] = K[d]
  BY <1>1 DEF Users, Moves
<1>3. c \in Holders(K, s)
  BY <1>1 DEF Holders
<1>4. Holders(L, s) = {}
  BY <1>1, <1>2, <1>3 DEF Sound, Locks, Holders
<1>5. Taken(L, s) = 0 /\ Taken(K, s) = 1
  BY <1>1, <1>2, <1>4 DEF Taken, Holders
<1>6. /\ m # None /\ p # None /\ m.users \in Nat /\ m.txs \in Seq(Tx) /\ Len(m.txs) \in Nat
      /\ m.nonce \in Nat /\ m.nonce # None /\ m.nonce = tx.nonce /\ tx.sender = s
  <2>1. m.nonce = tx.nonce
    BY <1>1 DEF Sound, Locks
  <2> QED BY <2>1 DEF Sound, Run, Has, PoolAssumption, Mempool, Uses
<1>7. Cardinality(Users(L, s)) = m.users - 1
  <2>1. Cardinality(Users(K, s)) = m.users /\ IsFiniteSet(Users(K, s))
    BY UsersFinite DEF Sound
  <2>2. Cardinality(Users(K, s) \ {c}) = Cardinality(Users(K, s)) - 1
    BY <2>1, <1>1, FS_RemoveElement
  <2> QED BY <2>1, <2>2, <1>1
<1>8. /\ Len(p.txs) = Len(m.txs) + 1 /\ p.txs[Len(m.txs) + 1] = tx
      /\ \A i \in 1..Len(m.txs) : p.txs[i] = m.txs[i]
      /\ \A i \in 1..Len(p.txs) : i \in 1..Len(m.txs) \/ i = Len(m.txs) + 1
  BY <1>6 DEF Has
<1>9. Base(p, L, s) = Base(m, K, s) /\ Base(m, K, s) = m.nonce - (Len(m.txs) + 1)
  BY <1>5, <1>6, <1>8 DEF Base, Has
<1> HIDE DEF tx
<1>10. Run(s, p, L)
  <2>1. p.txs[Len(m.txs) + 1].nonce = Base(p, L, s) + (Len(m.txs) + 1)
    BY <1>6, <1>8, <1>9
  <2> QED BY <2>1, <1>6, <1>8, <1>9 DEF Run, Sound, Has
<1>11. \A n : Begins(s, m, K, n) => Begins(s, p, L, n)
  BY <1>6, <1>9 DEF Begins
<1>12. Kinds(s, p, L)
  <2>1. \A i \in 1..Len(m.txs) : tx.kind # "transfer" => m.txs[i].kind # tx.kind
    BY <1>3 DEF Sound, Kinds, tx
  <2>2. ASSUME NEW i \in 1..Len(p.txs), NEW j \in 1..Len(p.txs),
               p.txs[i].kind # "transfer", p.txs[i].kind = p.txs[j].kind
        PROVE  i = j
    <3>1. CASE i \in 1..Len(m.txs) /\ j \in 1..Len(m.txs)
      BY <2>2, <3>1, <1>8 DEF Sound, Kinds
    <3>2. CASE ~(i \in 1..Len(m.txs) /\ j \in 1..Len(m.txs))
      BY <2>1, <2>2, <3>2, <1>8
    <3> QED BY <3>1, <3>2
  <2> QED BY <2>2, <1>4 DEF Kinds
<1>13. Locks(s, p, L)
  BY <1>4 DEF Locks, Has, Holders
<1> QED BY <1>7, <1>10, <1>12, <1>13, <1>11 DEF Sound, Has

-----------------------------------------------------------------------------
(* All senders, and the chain *)

Senders(mp, K) == mp \in [Sender -> Mempool \cup {None}] /\ \A s \in Sender : SenderOK(s, mp[s], K)
Early(mp, K, chain) == \A s \in Sender : Begins(s, mp[s], K, NonceIn(chain, s))

\* The transactions of a mempool, and of all.
TxSet(m) == IF m = None THEN {} ELSE ToSet(m.txs)
PooledIn(mp) == UNION {TxSet(mp[s]) : s \in Sender}

\* Each is in its sender's.
LEMMA PooledInIs ==
  ASSUME PoolAssumption, NEW mp, NEW K, Senders(mp, K)
  PROVE  /\ \A tx \in PooledIn(mp) : tx \in Tx /\ mp[tx.sender] # None /\ tx \in TxSet(mp[tx.sender])
         /\ \A s \in Sender : \A tx \in TxSet(mp[s]) : tx \in PooledIn(mp) /\ tx \in Tx /\ tx.sender = s
<1>1. ASSUME NEW s \in Sender, NEW tx \in TxSet(mp[s])
      PROVE  tx \in PooledIn(mp) /\ tx \in Tx /\ tx.sender = s /\ mp[s] # None
  <2>1. tx \in PooledIn(mp)
    BY DEF PooledIn
  <2>2. mp[s] # None /\ tx \in ToSet(mp[s].txs)
    BY DEF TxSet
  <2>3. Run(s, mp[s], K) /\ mp[s].txs \in Seq(Tx)
    BY <2>2 DEF Senders, SenderOK, Sound, Run, Mempool
  <2>4. PICK i \in 1..Len(mp[s].txs) : tx = mp[s].txs[i]
    BY <2>2, <2>3 DEF ToSet
  <2> QED BY <2>1, <2>2, <2>3, <2>4 DEF Run
<1>2. ASSUME NEW tx \in PooledIn(mp) PROVE \E s \in Sender : tx \in TxSet(mp[s])
  BY DEF PooledIn
<1> QED BY <1>1, <1>2

\* A step on the mempool of one sender.
Put(mp, s, m) == [mp EXCEPT ![s] = m]

LEMMA OneSender ==
  ASSUME PoolAssumption, NEW mp, NEW K, NEW L, Senders(mp, K), NEW s \in Sender, NEW m, SenderOK(s, m, L),
         \A c \in Call : K[c] = L[c] \/ \A t \in Sender : t # s => ~Uses(K[c], t) /\ ~Uses(L[c], t)
  PROVE  /\ Senders(Put(mp, s, m), L)
         /\ \A chain : Early(mp, K, chain) /\ Begins(s, m, L, NonceIn(chain, s)) => Early(Put(mp, s, m), L, chain)
         /\ PooledIn(Put(mp, s, m)) = (PooledIn(mp) \ TxSet(mp[s])) \cup TxSet(m)
<1> DEFINE mq == Put(mp, s, m)
<1>1. m \in Mempool \cup {None}
  BY DEF SenderOK, Sound, Run
<1>2. mq \in [Sender -> Mempool \cup {None}] /\ mq[s] = m /\ \A t \in Sender : t # s => mq[t] = mp[t]
  BY <1>1 DEF Senders, Put
<1> HIDE DEF mq
<1>3. ASSUME NEW t \in Sender, t # s
      PROVE  SenderOK(t, mp[t], L) /\ \A n : Begins(t, mp[t], K, n) => Begins(t, mp[t], L, n)
  <2>1. \A c \in Call : K[c] = L[c] \/ (~Uses(K[c], t) /\ ~Uses(L[c], t))
    BY <1>3
  <2>2. SenderOK(t, mp[t], K)
    BY DEF Senders
  <2> QED BY <2>1, <2>2, OtherCalls
<1>4. Senders(mq, L)
  BY <1>2, <1>3 DEF Senders
<1>5. \A chain : Early(mp, K, chain) /\ Begins(s, m, L, NonceIn(chain, s)) => Early(mq, L, chain)
  BY <1>2, <1>3 DEF Early
<1>6. PooledIn(mq) = (PooledIn(mp) \ TxSet(mp[s])) \cup TxSet(m)
  <2>1. ASSUME NEW t \in Sender, NEW tx \in TxSet(mq[t]) PROVE tx \in (PooledIn(mp) \ TxSet(mp[s])) \cup TxSet(m)
    <3>1. CASE t = s
      BY <3>1, <1>2
    <3>2. CASE t # s
      BY <3>2, <1>2, PooledInIs
    <3> QED BY <3>1, <3>2
  <2>2. ASSUME NEW tx \in PooledIn(mp), tx \notin TxSet(mp[s]) PROVE tx \in PooledIn(mq)
    <3>1. PICK t \in Sender : tx \in TxSet(mp[t])
      BY DEF PooledIn
    <3>2. tx \in TxSet(mq[t])
      BY <3>1, <2>2, <1>2
    <3> QED BY <3>2 DEF PooledIn
  <2>3. TxSet(m) \subseteq PooledIn(mq)
    BY <1>2 DEF PooledIn
  <2> QED BY <2>1, <2>2, <2>3 DEF PooledIn
<1> QED BY <1>4, <1>5, <1>6 DEF mq

\* Only the calls move.
LEMMA SameSenders ==
  ASSUME PoolAssumption, NEW mp, NEW K, NEW L, Senders(mp, K),
         \A c \in Call : K[c] = L[c] \/ \A t \in Sender : ~Uses(K[c], t) /\ ~Uses(L[c], t)
  PROVE  Senders(mp, L) /\ \A chain : Early(mp, K, chain) => Early(mp, L, chain)
<1>1. ASSUME NEW t \in Sender
      PROVE  SenderOK(t, mp[t], L) /\ \A n : Begins(t, mp[t], K, n) => Begins(t, mp[t], L, n)
  <2>1. \A c \in Call : K[c] = L[c] \/ (~Uses(K[c], t) /\ ~Uses(L[c], t))
    OBVIOUS
  <2>2. SenderOK(t, mp[t], K)
    BY DEF Senders
  <2> QED BY <2>1, <2>2, OtherCalls
<1> QED BY <1>1 DEF Senders, Early

\* All mempools are given up when there is no call in them.
LEMMA NoSenders ==
  ASSUME PoolAssumption, NEW K, \A c \in Call, s \in Sender : ~Uses(K[c], s)
  PROVE  LET mp == [s \in Sender |-> None]
         IN  Senders(mp, K) /\ PooledIn(mp) = {} /\ \A chain : Early(mp, K, chain)
  BY DEF Senders, SenderOK, Users, PooledIn, TxSet, Early, Begins

\* The chain's nonce of a sender counts its transactions.
LEMMA NonceInIs ==
  ASSUME NEW chain \in Seq(Tx \cup {None}), NEW s
  PROVE  /\ NonceIn(chain, s) \in Nat
         /\ \A tx \in Tx \cup {None} : NonceIn(Append(chain, tx), s)
               = NonceIn(chain, s) + (IF tx # None /\ tx.sender = s THEN 1 ELSE 0)
<1> DEFINE Of == {h \in DOMAIN chain : chain[h] # None /\ chain[h].sender = s}
<1>1. Len(chain) \in Nat /\ DOMAIN chain = 1..Len(chain)
  OBVIOUS
<1>2. IsFiniteSet(Of) /\ Cardinality(Of) \in Nat
  <2>1. IsFiniteSet(1..Len(chain))
    BY <1>1, FS_Interval
  <2>2. Of \subseteq 1..Len(chain)
    BY <1>1
  <2> HIDE DEF Of
  <2> QED BY <2>1, <2>2, FS_Subset, FS_CardinalityType
<1>3. ASSUME NEW tx \in Tx \cup {None}
      PROVE  NonceIn(Append(chain, tx), s) = NonceIn(chain, s) + (IF tx # None /\ tx.sender = s THEN 1 ELSE 0)
  <2> DEFINE more == Append(chain, tx)
             OfMore == {h \in DOMAIN more : more[h] # None /\ more[h].sender = s}
  <2>1. /\ DOMAIN more = 1..(Len(chain) + 1) /\ more[Len(chain) + 1] = tx
        /\ \A h \in 1..Len(chain) : more[h] = chain[h]
    BY <1>1
  <2> HIDE DEF more
  <2>2. OfMore = IF tx # None /\ tx.sender = s THEN Of \cup {Len(chain) + 1} ELSE Of
    BY <1>1, <2>1
  <2>3. Len(chain) + 1 \notin Of
    BY <1>1
  <2>4. Cardinality(Of \cup {Len(chain) + 1}) = Cardinality(Of) + 1
    <3> HIDE DEF Of
    <3> QED BY <1>2, <2>3, FS_AddElement
  <2>5. Cardinality(OfMore) = Cardinality(Of) + (IF tx # None /\ tx.sender = s THEN 1 ELSE 0)
    <3> HIDE DEF Of, OfMore
    <3> QED BY <1>2, <2>2, <2>4
  <2> QED BY <2>5 DEF NonceIn, more
<1> QED BY <1>2, <1>3 DEF NonceIn

\* Beginning no later than some nonce is no later than a higher one.
LEMMA BeginsLater ==
  ASSUME NEW s, NEW m, NEW K, SenderOK(s, m, K), NEW n \in Nat, NEW o \in Nat, n <= o, Begins(s, m, K, n)
  PROVE  Begins(s, m, K, o)
<1>1. SUFFICES ASSUME m # None, m.nonce # None PROVE Base(m, K, s) <= o
  BY DEF Begins
<1>2. m.nonce \in Nat /\ Len(m.txs) \in Nat /\ Taken(K, s) \in Nat
  BY <1>1 DEF SenderOK, Sound, Run, Mempool, Taken
<1>3. Base(m, K, s) \in Int /\ Base(m, K, s) <= n
  BY <1>1, <1>2 DEF Base, Begins
<1> QED BY <1>3

-----------------------------------------------------------------------------
(* The invariant *)

PoolTyped ==
  /\ storage \in Seq(Row) /\ CallsTyped(calls) /\ blocks \in Seq(Tx \cup {None}) /\ Height <= MaxHeight
  /\ accepted \in Tx \cup {None} /\ (accepted # None => accepted.nonce <= ChainNonce(accepted.sender))
  /\ failed \subseteq Tx /\ cleaning \in BOOLEAN /\ node \in {"up", "corrupted"}
  /\ readding \in Seq(Row) \cup {None} /\ (readding # None => \A c \in Call : Idle(c))
  /\ count \in [reverts : Nat, restarts : Nat, readds : Nat]

\* Each sender's mempool is sound, and none begins late.
PoolSenders ==
  /\ Senders(mempool, calls)
  /\ count.reverts = 0 => Early(mempool, calls, blocks)

\* What is in the pool and the calls that have passed its limit.
Passed(K) == {c \in Call : K[c].pc \in {"enter", "waiting", "verified", "applied"}}
Bounded(P, K) ==
  /\ IsFiniteSet(P)
  /\ Cardinality(P) + Cardinality(Passed(K)) <= MaxTransactionsInPool + Cardinality(Call) - 1

PoolInv == PoolTyped /\ PoolSenders /\ Bounded(Pooled, calls)

\* What the storage has: the mempool's transactions, those on their way to it,
\* and those that are to be added again.
Adding(K) == {K[c].tx : c \in {d \in Call : K[d].tx # None}}
StoredOK(rows, P, K, gone, again) ==
  /\ Distinct(rows) /\ P \subseteq TxsOf(rows)
  /\ \A c \in Call : K[c].tx # None => K[c].tx \in TxsOf(rows) \ (P \cup gone)
  /\ \A c, d \in Call : K[c].tx # None /\ K[c].tx = K[d].tx => c = d
  /\ again = None => TxsOf(rows) \subseteq P \cup Adding(K)
  /\ again # None => /\ Distinct(again) /\ TxsOf(again) \subseteq TxsOf(rows) \ P
                     /\ TxsOf(rows) \subseteq P \cup TxsOf(again)
PoolStored == StoredOK(storage, Pooled, calls, failed \cup {accepted}, readding)

LEMMA PooledIsIn == Pooled = PooledIn(mempool) /\ \A s \in Sender : ToSet(Txs(s)) = TxSet(mempool[s])
<1>1. \A s \in Sender : ToSet(Txs(s)) = TxSet(mempool[s])
  BY DEF Txs, TxSet, ToSet
<1> QED BY <1>1 DEF Pooled, PooledIn

LEMMA PooledIsInNext == (Pooled = PooledIn(mempool))'
  BY DEF Pooled, PooledIn, Txs, TxSet, ToSet

LEMMA StoredIs == Stored = TxsOf(storage) /\ Stored' = TxsOf(storage')
  BY DEF Stored, TxsOf

\* Storage and mempool lose the same transactions.
Dropped(R) ==
  /\ Pooled' = Pooled \ R /\ storage' \in Seq(Row) /\ TxsOf(storage') = TxsOf(storage) \ R
  /\ Distinct(storage) => Distinct(storage')

\* The mempools without a transaction, and what else goes.
Taking(tx) == TakeBack(mempool[tx.sender], tx)
Without(tx) == Put(mempool, tx.sender, Disposed(Taking(tx).m))

LEMMA WithoutIs ==
  ASSUME PoolAssumption, Senders(mempool, calls), NEW tx \in Pooled, Unlocked(tx.sender)
  PROVE  /\ Senders(Without(tx), calls)
         /\ \A chain : Early(mempool, calls, chain) => Early(Without(tx), calls, chain)
         /\ tx \in Taking(tx).removed /\ Taking(tx).removed \subseteq Pooled
         /\ PooledIn(Without(tx)) = Pooled \ Taking(tx).removed
<1> DEFINE s == tx.sender
           result == Taking(tx)
           R == result.removed
<1>1. tx \in Tx /\ s \in Sender /\ mempool[s] # None /\ tx \in ToSet(mempool[s].txs)
  BY PooledIsIn, PooledInIs DEF TxSet, PoolAssumption
<1>2. Sound(s, mempool[s], calls) /\ ~mempool[s].locked
  BY <1>1 DEF Senders, SenderOK, Unlocked
<1>3. /\ Sound(s, result.m, calls) /\ \A n : Begins(s, mempool[s], calls, n) => Begins(s, result.m, calls, n)
      /\ tx \in R /\ R \subseteq ToSet(mempool[s].txs)
      /\ ToSet(result.m.txs) = ToSet(mempool[s].txs) \ R
  BY <1>1, <1>2, TakeBackIs DEF Taking
<1>4. Without(tx) = Put(mempool, s, Disposed(result.m))
  BY DEF Without
<1> HIDE DEF s, result, R
<1>5. /\ SenderOK(s, Disposed(result.m), calls)
      /\ \A n : Begins(s, mempool[s], calls, n) => Begins(s, Disposed(result.m), calls, n)
  BY <1>3, DisposedOK
<1>6. TxSet(Disposed(result.m)) = TxSet(mempool[s]) \ R
  <2>1. TxSet(mempool[s]) = ToSet(mempool[s].txs)
    BY <1>1 DEF TxSet
  <2>2. result.m # None /\ (result.m.txs = <<>> => ToSet(result.m.txs) = {})
    BY <1>3 DEF Sound, Run, PoolAssumption, ToSet
  <2> QED BY <2>1, <2>2, <1>3 DEF TxSet, Disposed
<1>7. /\ Senders(Without(tx), calls)
      /\ \A chain : Early(mempool, calls, chain) /\ Begins(s, Disposed(result.m), calls, NonceIn(chain, s))
                      => Early(Without(tx), calls, chain)
      /\ PooledIn(Without(tx)) = (PooledIn(mempool) \ TxSet(mempool[s])) \cup TxSet(Disposed(result.m))
  BY <1>1, <1>4, <1>5, OneSender
<1>8. \A chain : Early(mempool, calls, chain) => Early(Without(tx), calls, chain)
  BY <1>1, <1>5, <1>7 DEF Early
<1>9. R \subseteq Pooled /\ TxSet(mempool[s]) \subseteq Pooled /\ R \subseteq TxSet(mempool[s])
  <2>1. TxSet(mempool[s]) \subseteq Pooled
    BY <1>1, PooledIsIn DEF PooledIn
  <2> QED BY <2>1, <1>1, <1>3 DEF TxSet
<1>10. PooledIn(Without(tx)) = Pooled \ R
  BY <1>6, <1>7, <1>9, PooledIsIn
<1> QED BY <1>3, <1>7, <1>8, <1>9, <1>10 DEF R, result

\* A removal takes at least the transaction out of the pool.
LEMMA RemovedFrom ==
  ASSUME PoolAssumption, PoolTyped, Senders(mempool, calls), NEW tx \in Pooled, Unlocked(tx.sender), RemoveFrom(tx)
  PROVE  /\ Senders(mempool', calls)
         /\ \A chain : Early(mempool, calls, chain) => Early(mempool', calls, chain)
         /\ \E R : tx \in R /\ R \subseteq Pooled /\ Dropped(R)
<1>1. mempool' = Without(tx) /\ storage' = Deleted(storage, Taking(tx).removed)
  BY DEF RemoveFrom, Without, Put, Taking
<1>2. Pooled' = Pooled \ Taking(tx).removed
  BY <1>1, WithoutIs, PooledIsInNext
<1>3. Dropped(Taking(tx).removed)
  BY <1>1, <1>2, DeletedIs DEF Dropped, PoolTyped
<1> QED BY <1>1, <1>3, WithoutIs

\* There are finitely many calls.
LEMMA PassedFinite ==
  ASSUME PoolAssumption, NEW K
  PROVE  /\ IsFiniteSet(Passed(K)) /\ Cardinality(Passed(K)) \in Nat
         /\ Cardinality(Passed(K)) <= Cardinality(Call) /\ Cardinality(Call) \in Nat
<1>1. IsFiniteSet(Call) /\ Passed(K) \subseteq Call
  BY DEF PoolAssumption, Passed
<1> QED BY <1>1, FS_Subset, FS_CardinalityType

\* The limit, when less is in the pool and no more calls have passed.
LEMMA FewerBounded ==
  ASSUME PoolAssumption, NEW P, NEW Q, NEW K, NEW L, Bounded(P, K), Q \subseteq P,
         \A c \in Call : L[c].pc \in {"enter", "waiting", "verified", "applied"}
                           => K[c].pc \in {"enter", "waiting", "verified", "applied"}
  PROVE  Bounded(Q, L)
<1>1. IsFiniteSet(P) /\ IsFiniteSet(Q) /\ Cardinality(Q) \in Nat /\ Cardinality(P) \in Nat
      /\ Cardinality(Q) <= Cardinality(P)
  BY FS_Subset, FS_CardinalityType DEF Bounded
<1>2. Passed(L) \subseteq Passed(K)
  BY DEF Passed
<1>3. /\ Cardinality(Passed(L)) <= Cardinality(Passed(K)) /\ Cardinality(Passed(L)) \in Nat
      /\ Cardinality(Passed(K)) \in Nat /\ Cardinality(Call) \in Nat
  BY <1>2, PassedFinite, FS_Subset
<1> QED BY <1>1, <1>3 DEF Bounded, PoolAssumption

\* A pool that is not full may take a call more.
LEMMA RoomBounded ==
  ASSUME PoolAssumption, NEW Q, IsFiniteSet(Q), Cardinality(Q) < MaxTransactionsInPool, NEW L
  PROVE  Bounded(Q, L)
<1>1. Cardinality(Q) \in Nat
  BY FS_CardinalityType
<1> QED BY <1>1, PassedFinite DEF Bounded, PoolAssumption

\* Nothing but what is in the pool leaves the storage.
LEMMA DroppedStored ==
  ASSUME NEW R, R \subseteq Pooled, Dropped(R), PoolStored,
         NEW gone, gone \subseteq failed \cup {accepted}
  PROVE  StoredOK(storage', Pooled', calls, gone, readding)
  BY DEF Dropped, PoolStored, StoredOK

-----------------------------------------------------------------------------
(* Its steps *)

\* What a call does to the calls.
LEMMA CallMoved ==
  ASSUME CallsTyped(calls), NEW c \in Call, NEW pc \in {"fee", "enter", "waiting", "verified", "applied"},
         calls[c].pc # "idle", To(c, pc)
  PROVE  /\ CallsTyped(calls') /\ Moves(c, calls, calls')
         /\ calls'[c].pc = pc /\ calls'[c].tx = calls[c].tx /\ calls[c].tx \in Tx
<1>1. calls' = [calls EXCEPT ![c] = [calls[c] EXCEPT !.pc = pc]]
  BY DEF To
<1>2. calls[c] \in CallState /\ calls \in [Call -> CallState]
  BY DEF CallsTyped
<1> DEFINE x == [calls[c] EXCEPT !.pc = pc]
<1>3. x \in CallState /\ x.pc = pc /\ x.tx = calls[c].tx
  BY <1>2 DEF CallState
<1> HIDE DEF x
<1>4. calls'[c] = x /\ Moves(c, calls, calls') /\ calls' \in [Call -> CallState]
  BY <1>1, <1>2, <1>3 DEF Moves, x
<1>5. calls[c].tx # None
  BY DEF CallsTyped
<1>6. \A d \in Call : calls'[d].tx = None <=> calls'[d].pc = "idle"
  BY <1>3, <1>4, <1>5 DEF Moves, CallsTyped
<1> QED BY <1>2, <1>3, <1>4, <1>5, <1>6 DEF CallsTyped, CallState

LEMMA CallEnded ==
  ASSUME CallsTyped(calls), NEW c \in Call, calls' = [calls EXCEPT ![c] = NoCall]
  PROVE  CallsTyped(calls') /\ Moves(c, calls, calls') /\ calls'[c] = NoCall
<1>1. NoCall \in CallState /\ NoCall.tx = None /\ NoCall.pc = "idle"
  BY DEF NoCall, CallState
<1> HIDE DEF NoCall
<1> QED BY <1>1 DEF CallsTyped, Moves

\* What is typed while no transactions are added again and the chain stays.
LEMMA TypedKept ==
  ASSUME PoolTyped, readding = None, storage' \in Seq(Row), CallsTyped(calls'), failed' \subseteq Tx,
         cleaning' \in BOOLEAN, node' \in {"up", "corrupted"}, UNCHANGED <<blocks, accepted, readding, count>>
  PROVE  PoolTyped'
  BY DEF PoolTyped, Height, ChainNonce

\* Nothing is on its way when transactions are added again.
LEMMA NotReadding ==
  ASSUME PoolTyped, NEW c \in Call, calls[c].pc # "idle"
  PROVE  readding = None
  BY DEF PoolTyped, Idle

\* The storage when a call ends in an error.
LEMMA CallStored ==
  ASSUME PoolTyped, PoolStored, readding = None, NEW c \in Call, calls[c].tx # None,
         calls' = [calls EXCEPT ![c] = NoCall], storage' = Deleted(storage, {calls[c].tx}),
         Pooled' = Pooled, UNCHANGED <<failed, accepted, readding>>
  PROVE  PoolStored'
<1> DEFINE tx == calls[c].tx
<1>1. calls'[c].tx = None /\ \A d \in Call : d # c => calls'[d] = calls[d]
  <2>1. Moves(c, calls, calls') /\ calls'[c] = NoCall
    BY CallEnded DEF PoolTyped
  <2> QED BY <2>1 DEF Moves, NoCall
<1>2. /\ TxsOf(storage') = TxsOf(storage) \ {tx}
      /\ Distinct(storage) => Distinct(storage')
  BY DeletedIs DEF PoolTyped
<1>3. tx \in TxsOf(storage) \ Pooled /\ \A d \in Call : calls[d].tx = tx => d = c
  BY DEF PoolStored, StoredOK
<1> HIDE DEF tx
<1>4. \A d \in Call : calls'[d].tx # None => d # c /\ calls'[d].tx = calls[d].tx
  BY <1>1
<1>5. TxsOf(storage') \subseteq Pooled' \cup Adding(calls')
  <2>1. ASSUME NEW o \in TxsOf(storage'), o \notin Pooled PROVE o \in Adding(calls')
    <3>1. o \in Adding(calls) /\ o # tx
      BY <2>1, <1>2 DEF PoolStored, StoredOK
    <3>2. PICK d \in Call : calls[d].tx # None /\ o = calls[d].tx
      BY <3>1 DEF Adding
    <3>3. d # c
      BY <3>1, <3>2 DEF tx
    <3>4. calls'[d].tx = o
      BY <3>2, <3>3, <1>1
    <3> QED BY <3>2, <3>4 DEF Adding
  <2> QED BY <2>1
<1>6. \A d \in Call : calls'[d].tx # None => calls'[d].tx \in TxsOf(storage') \ (Pooled' \cup failed \cup {accepted})
  BY <1>2, <1>3, <1>4 DEF PoolStored, StoredOK
<1>7. \A d, e \in Call : calls'[d].tx # None /\ calls'[d].tx = calls'[e].tx => d = e
  BY <1>4 DEF PoolStored, StoredOK
<1> QED BY <1>2, <1>3, <1>5, <1>6, <1>7 DEF PoolStored, StoredOK

\* A call is refused before it is in its sender's mempool.
LEMMA FailEarlyStep ==
  ASSUME PoolAssumption, PoolInv, NEW c \in Call, calls[c].pc = "fee", FailEarly(c), Others
  PROVE  PoolInv' /\ (PoolStored => PoolStored')
<1>1. /\ calls' = [calls EXCEPT ![c] = NoCall] /\ storage' = Deleted(storage, {calls[c].tx}) /\ mempool' = mempool
      /\ node' \in {"up", "corrupted"} /\ UNCHANGED <<blocks, accepted, cleaning, failed, readding, count>>
  BY DEF FailEarly, Fail, Others, PoolInv, PoolTyped
<1>2. CallsTyped(calls') /\ Moves(c, calls, calls') /\ calls'[c] = NoCall /\ calls[c].tx # None
  BY <1>1, CallEnded DEF PoolInv, PoolTyped, CallsTyped
<1>3. readding = None
  BY NotReadding DEF PoolInv
<1>4. PoolTyped'
  BY <1>1, <1>2, <1>3, DeletedIs, TypedKept DEF PoolInv, PoolTyped
<1>5. Pooled' = Pooled
  BY <1>1, PooledIsIn, PooledIsInNext
<1>6. PoolSenders'
  <2>1. \A d \in Call : calls[d] = calls'[d] \/ \A t \in Sender : ~Uses(calls[d], t) /\ ~Uses(calls'[d], t)
    BY <1>2 DEF Moves, Uses, NoCall
  <2> QED BY <2>1, <1>1, SameSenders DEF PoolInv, PoolSenders
<1>7. Bounded(Pooled', calls')
  <2>1. \A d \in Call : calls'[d].pc \in {"enter", "waiting", "verified", "applied"}
                          => calls[d].pc \in {"enter", "waiting", "verified", "applied"}
    BY <1>2 DEF Moves, NoCall
  <2> QED BY <2>1, <1>5, FewerBounded DEF PoolInv
<1>8. PoolStored => PoolStored'
  BY <1>1, <1>2, <1>3, <1>5, CallStored DEF PoolInv
<1> QED BY <1>4, <1>6, <1>7, <1>8 DEF PoolInv

\* What is removed leaves mempool and storage alike.
LEMMA RemovalStep ==
  ASSUME PoolAssumption, PoolInv, NEW tx \in Pooled, Unlocked(tx.sender), RemoveFrom(tx), readding = None,
         failed' \subseteq failed, cleaning' \in BOOLEAN, UNCHANGED <<calls, blocks, accepted, readding, node, count>>
  PROVE  PoolInv' /\ (PoolStored => PoolStored')
<1>1. /\ Senders(mempool', calls)
      /\ \A chain : Early(mempool, calls, chain) => Early(mempool', calls, chain)
      /\ \E R : tx \in R /\ R \subseteq Pooled /\ Dropped(R)
  BY RemovedFrom DEF PoolInv, PoolSenders
<1>2. PICK R : R \subseteq Pooled /\ Dropped(R)
  BY <1>1
<1>3. PoolTyped'
  BY <1>2, TypedKept DEF PoolInv, PoolTyped, Dropped
<1>4. PoolSenders'
  BY <1>1 DEF PoolInv, PoolSenders
<1>5. Bounded(Pooled', calls')
  BY <1>2, FewerBounded DEF PoolInv, Dropped
<1>6. PoolStored => PoolStored'
  <2>1. failed' \cup {accepted} \subseteq failed \cup {accepted}
    OBVIOUS
  <2> QED BY <2>1, <1>2, DroppedStored DEF PoolStored
<1> QED BY <1>3, <1>4, <1>5, <1>6 DEF PoolInv

\* Trim and cleanUp.
LEMMA TrimsStep ==
  ASSUME PoolAssumption, PoolInv, TrimStep, readding = None, cleaning' \in BOOLEAN,
         UNCHANGED <<calls, blocks, accepted, failed, readding, node, count>>
  PROVE  PoolInv' /\ (PoolStored => PoolStored')
<1>1. PICK tx \in Pooled : Unlocked(tx.sender) /\ RemoveFrom(tx)
  BY DEF TrimStep, ToTrim, Lowest
<1> QED BY <1>1, RemovalStep

\* The storage does not depend on where a call is.
LEMMA StoredSameTxs ==
  ASSUME NEW rows, NEW P, NEW K, NEW L, NEW gone, NEW again, StoredOK(rows, P, K, gone, again),
         \A c \in Call : L[c].tx = K[c].tx
  PROVE  StoredOK(rows, P, L, gone, again)
<1>1. Adding(L) = Adding(K)
  BY DEF Adding
<1> QED BY <1>1 DEF StoredOK

\* A place is made for a better transaction: the pool is no longer full.
LEMMA RoomMadeStep ==
  ASSUME PoolAssumption, PoolInv, NEW c \in Call, calls[c].pc = "fee", To(c, "enter"), Trimmed,
         NEW lowest \in Pooled, Unlocked(lowest.sender), RemoveFrom(lowest), UNCHANGED node, Others
  PROVE  PoolInv' /\ (PoolStored => PoolStored')
<1>1. UNCHANGED <<blocks, accepted, cleaning, failed, readding, node, count>>
  BY DEF Others
<1>2. /\ CallsTyped(calls') /\ Moves(c, calls, calls') /\ calls'[c].pc = "enter" /\ calls'[c].tx = calls[c].tx
      /\ calls[c].tx \in Tx
  BY CallMoved DEF PoolInv, PoolTyped
<1>3. /\ Senders(mempool', calls)
      /\ \A chain : Early(mempool, calls, chain) => Early(mempool', calls, chain)
      /\ \E R : lowest \in R /\ R \subseteq Pooled /\ Dropped(R)
  BY RemovedFrom DEF PoolInv, PoolSenders
<1>4. PICK R : lowest \in R /\ R \subseteq Pooled /\ Dropped(R)
  BY <1>3
<1>5. readding = None
  BY NotReadding DEF PoolInv
<1>6. PoolTyped'
  BY <1>1, <1>2, <1>4, <1>5, TypedKept DEF PoolInv, PoolTyped, Dropped
<1>7. PoolSenders'
  <2>1. \A d \in Call : calls[d] = calls'[d] \/ \A t \in Sender : ~Uses(calls[d], t) /\ ~Uses(calls'[d], t)
    BY <1>2 DEF Moves, Uses
  <2>2. Senders(mempool', calls') /\ \A chain : Early(mempool', calls, chain) => Early(mempool', calls', chain)
    BY <2>1, <1>3, SameSenders
  <2> QED BY <2>2, <1>1, <1>3 DEF PoolInv, PoolSenders
<1>8. Bounded(Pooled', calls')
  <2>1. IsFiniteSet(Pooled) /\ Cardinality(Pooled) \in Nat /\ Cardinality(Pooled) <= MaxTransactionsInPool
    BY FS_CardinalityType DEF PoolInv, Bounded, Trimmed, Size
  <2>2. IsFiniteSet(Pooled \ {lowest}) /\ Cardinality(Pooled \ {lowest}) = Cardinality(Pooled) - 1
    BY <2>1, FS_RemoveElement
  <2>3. Pooled' \subseteq Pooled \ {lowest}
    BY <1>4 DEF Dropped
  <2>4. /\ IsFiniteSet(Pooled') /\ Cardinality(Pooled') <= Cardinality(Pooled \ {lowest})
        /\ Cardinality(Pooled') \in Nat
    BY <2>2, <2>3, FS_Subset, FS_CardinalityType
  <2>5. Cardinality(Pooled') < MaxTransactionsInPool
    BY <2>1, <2>2, <2>4 DEF PoolAssumption
  <2> QED BY <2>4, <2>5, RoomBounded
<1>9. PoolStored => PoolStored'
  <2>1. \A d \in Call : calls'[d].tx = calls[d].tx
    BY <1>2 DEF Moves
  <2>2. PoolStored => StoredOK(storage', Pooled', calls, failed \cup {accepted}, readding)
    BY <1>4, DroppedStored
  <2> QED BY <2>1, <2>2, <1>1, StoredSameTxs DEF PoolStored
<1> QED BY <1>6, <1>7, <1>8, <1>9 DEF PoolInv

\* A call moves in the mempool of its sender.
LEMMA SenderStep ==
  ASSUME PoolAssumption, PoolSenders, NEW c \in Call, NEW s \in Sender, Moves(c, calls, calls'),
         calls[c].tx.sender = s, calls'[c].tx \in {calls[c].tx, None},
         NEW m, mempool' = Put(mempool, s, m), SenderOK(s, m, calls'),
         Begins(s, mempool[s], calls, ChainNonce(s)) => Begins(s, m, calls', ChainNonce(s)),
         UNCHANGED <<blocks, count>>
  PROVE  PoolSenders' /\ Pooled' = (Pooled \ TxSet(mempool[s])) \cup TxSet(m)
<1>1. \A d \in Call : calls[d] = calls'[d] \/ \A t \in Sender : t # s => ~Uses(calls[d], t) /\ ~Uses(calls'[d], t)
  BY DEF Moves, Uses
<1>2. /\ Senders(Put(mempool, s, m), calls')
      /\ \A chain : Early(mempool, calls, chain) /\ Begins(s, m, calls', NonceIn(chain, s))
                      => Early(Put(mempool, s, m), calls', chain)
      /\ PooledIn(Put(mempool, s, m)) = (PooledIn(mempool) \ TxSet(mempool[s])) \cup TxSet(m)
  BY <1>1, OneSender DEF PoolSenders
<1>3. Pooled' = (Pooled \ TxSet(mempool[s])) \cup TxSet(m)
  BY <1>2, PooledIsIn, PooledIsInNext
<1>4. Early(mempool, calls, blocks) => Early(mempool', calls', blocks)
  <2>1. Early(mempool, calls, blocks) => Begins(s, mempool[s], calls, ChainNonce(s))
    BY DEF Early, ChainNonce
  <2> QED BY <2>1, <1>2 DEF ChainNonce
<1> QED BY <1>2, <1>3, <1>4 DEF PoolSenders

\* The transactions of a sender are in the pool.
LEMMA SendersArePooled ==
  ASSUME NEW s \in Sender
  PROVE  TxSet(mempool[s]) \subseteq Pooled
  BY PooledIsIn DEF PooledIn

\* Calls that move while the pool and the storage stay.
LEMMA MovedStored ==
  ASSUME PoolStored, NEW c \in Call, Moves(c, calls, calls'), calls'[c].tx = calls[c].tx, Pooled' = Pooled,
         UNCHANGED <<storage, accepted, failed, readding>>
  PROVE  PoolStored'
<1>1. \A d \in Call : calls'[d].tx = calls[d].tx
  BY DEF Moves
<1> QED BY <1>1, StoredSameTxs DEF PoolStored

LEMMA EnterStep ==
  ASSUME PoolAssumption, PoolInv, NEW c \in Call, Enter(c)
  PROVE  PoolInv' /\ (PoolStored => PoolStored')
<1> DEFINE s == calls[c].tx.sender
           m == Opened(mempool[s])
           p == [m EXCEPT !.users = @ + 1]
<1>1. /\ calls[c].pc \in {"enter", "fee"} /\ mempool' = Put(mempool, s, p) /\ To(c, "waiting")
      /\ UNCHANGED <<storage, blocks, accepted, cleaning, failed, readding, node, count>>
  BY DEF Enter, Others, Put
<1>2. /\ CallsTyped(calls') /\ Moves(c, calls, calls') /\ calls'[c].pc = "waiting" /\ calls'[c].tx = calls[c].tx
      /\ calls[c].tx \in Tx
  BY <1>1, CallMoved DEF PoolInv, PoolTyped
<1>3. s \in Sender
  BY <1>2 DEF PoolAssumption
<1>4. /\ Sound(s, m, calls) /\ \A n : Begins(s, mempool[s], calls, n) => Begins(s, m, calls, n)
      /\ mempool[s] = None => m.txs = <<>>
  BY <1>3, OpenedOK DEF PoolInv, PoolSenders, Senders
<1>5. m \in Mempool /\ ~m.corrupt /\ m.users \in Nat /\ m # None
  BY <1>4 DEF Sound, Run, Mempool, PoolAssumption
<1>6. Has(p, m.txs, m.nonce, m.users + 1, m.locked)
  <2>1. m.users + 1 \in Nat /\ m.txs \in Seq(Tx) /\ m.nonce \in Nat \cup {None} /\ m.locked \in BOOLEAN
    BY <1>5 DEF Mempool
  <2> HIDE DEF m
  <2> QED BY <2>1, <1>5, FieldsSet
<1> HIDE DEF p, m
<1>7. ~Uses(calls[c], s) /\ Uses(calls'[c], s)
  BY <1>1, <1>2 DEF Uses, CallsTyped
<1>8. Sound(s, p, calls') /\ \A n : Begins(s, m, calls, n) => Begins(s, p, calls', n)
  <2> HIDE DEF s
  <2> QED BY <1>2, <1>4, <1>6, <1>7, Entering
<1>9. SenderOK(s, p, calls')
  <2>1. p # None /\ p.users > 0
    BY <1>5, <1>6 DEF Has, PoolAssumption
  <2> QED BY <2>1, <1>8 DEF SenderOK
<1>10. PoolSenders' /\ Pooled' = (Pooled \ TxSet(mempool[s])) \cup TxSet(p)
  BY <1>1, <1>2, <1>3, <1>4, <1>8, <1>9, SenderStep DEF PoolInv
<1>11. Pooled' = Pooled
  <2>1. TxSet(p) = TxSet(mempool[s])
    <3>1. p # None
      BY <1>6 DEF Has, PoolAssumption
    <3>2. TxSet(p) = ToSet(m.txs)
      BY <3>1, <1>6 DEF TxSet, Has
    <3>3. mempool[s] = None => ToSet(m.txs) = {}
      BY <1>4 DEF ToSet
    <3>4. mempool[s] # None => m = mempool[s]
      BY DEF Opened, m
    <3> QED BY <3>2, <3>3, <3>4 DEF TxSet
  <2> QED BY <2>1, <1>3, <1>10, SendersArePooled
<1>12. PoolTyped'
  <2>1. readding = None
    BY <1>1, NotReadding DEF PoolInv
  <2> QED BY <2>1, <1>1, <1>2, TypedKept DEF PoolInv, PoolTyped
<1>13. Bounded(Pooled', calls')
  <2>1. CASE calls[c].pc = "enter"
    <3>1. \A d \in Call : calls'[d].pc \in {"enter", "waiting", "verified", "applied"}
                            => calls[d].pc \in {"enter", "waiting", "verified", "applied"}
      BY <2>1, <1>2 DEF Moves
    <3> QED BY <3>1, <1>11, FewerBounded DEF PoolInv
  <2>2. CASE calls[c].pc # "enter"
    <3>1. Cardinality(Pooled) < MaxTransactionsInPool
      BY <2>2 DEF Enter, Size
    <3> QED BY <3>1, <1>11, RoomBounded DEF PoolInv, Bounded
  <2> QED BY <2>1, <2>2
<1>14. PoolStored => PoolStored'
  BY <1>1, <1>2, <1>11, MovedStored
<1> QED BY <1>10, <1>12, <1>13, <1>14 DEF PoolInv

\* A call ends in an error in its sender's mempool.
LEMMA FailStep ==
  ASSUME PoolAssumption, PoolInv, NEW c \in Call, NEW s \in Sender, calls[c].tx.sender = s,
         NEW m, Sound(s, m, calls), Uses(calls[c], s), calls[c].pc # "applied",
         Begins(s, mempool[s], calls, ChainNonce(s)) => Begins(s, m, calls, ChainNonce(s)),
         TxSet(m) = TxSet(mempool[s]),
         NEW l, Has(l, m.txs, m.nonce, m.users, m.locked /\ c \notin Holders(calls, s)),
         FailInMempool(c, l), Others
  PROVE  PoolInv' /\ (PoolStored => PoolStored')
<1> DEFINE p == [l EXCEPT !.users = @ - 1]
<1>1. /\ calls' = [calls EXCEPT ![c] = NoCall] /\ storage' = Deleted(storage, {calls[c].tx})
      /\ mempool' = Put(mempool, s, Disposed(p)) /\ node' \in {"up", "corrupted"}
      /\ UNCHANGED <<blocks, accepted, cleaning, failed, readding, count>>
  BY DEF FailInMempool, Fail, Others, Put, PoolInv, PoolTyped
<1>2. CallsTyped(calls') /\ Moves(c, calls, calls') /\ calls'[c] = NoCall /\ calls[c].tx # None
  BY <1>1, CallEnded DEF PoolInv, PoolTyped, Uses
<1>3. c \in Users(calls, s) /\ m.users = Cardinality(Users(calls, s)) /\ m.users \in Nat \ {0}
  <2>1. c \in Users(calls, s) /\ m.users = Cardinality(Users(calls, s))
    BY DEF Users, Sound
  <2>2. Cardinality(Users(calls, s)) # 0
    BY <2>1, UsersFinite, FS_EmptySet
  <2> QED BY <2>1, <2>2, UsersFinite
<1>4. Has(p, m.txs, m.nonce, m.users - 1, m.locked /\ c \notin Holders(calls, s))
  <2>1. /\ l \in Mempool /\ ~l.corrupt /\ l.users - 1 \in Nat /\ l.txs \in Seq(Tx)
        /\ l.nonce \in Nat \cup {None} /\ l.locked \in BOOLEAN
    BY <1>3 DEF Has, Mempool
  <2>2. Has(p, l.txs, l.nonce, l.users - 1, l.locked)
    BY <2>1, FieldsSet
  <2> HIDE DEF p
  <2> QED BY <2>2 DEF Has
<1> HIDE DEF p
<1>5. ~Uses(calls'[c], s)
  BY <1>2 DEF Uses, NoCall
<1>6. Sound(s, p, calls') /\ \A n : Begins(s, m, calls, n) => Begins(s, p, calls', n)
  BY <1>2, <1>4, <1>5, Leaving
<1>7. /\ SenderOK(s, Disposed(p), calls')
      /\ \A n : Begins(s, p, calls', n) => Begins(s, Disposed(p), calls', n)
  BY <1>6, DisposedOK
<1>8. calls'[c].tx \in {calls[c].tx, None}
  BY <1>2 DEF NoCall
<1>9. PoolSenders' /\ Pooled' = (Pooled \ TxSet(mempool[s])) \cup TxSet(Disposed(p))
  BY <1>1, <1>2, <1>6, <1>7, <1>8, SenderStep DEF PoolInv
<1>10. TxSet(Disposed(p)) = TxSet(mempool[s])
  <2>1. m # None /\ p # None
    BY <1>4 DEF Sound, Run, PoolAssumption, Has
  <2>2. p.txs = <<>> => ToSet(p.txs) = {}
    BY DEF ToSet
  <2>3. TxSet(Disposed(p)) = ToSet(p.txs)
    BY <2>1, <2>2 DEF TxSet, Disposed
  <2>4. TxSet(m) = ToSet(p.txs)
    BY <2>1, <1>4 DEF TxSet, Has
  <2> QED BY <2>3, <2>4
<1>11. Pooled' = Pooled
  BY <1>9, <1>10, SendersArePooled
<1>12. readding = None
  BY NotReadding DEF PoolInv, Uses
<1>13. PoolTyped'
  BY <1>1, <1>2, <1>12, DeletedIs, TypedKept DEF PoolInv, PoolTyped
<1>14. Bounded(Pooled', calls')
  <2>1. \A d \in Call : calls'[d].pc \in {"enter", "waiting", "verified", "applied"}
                          => calls[d].pc \in {"enter", "waiting", "verified", "applied"}
    BY <1>2 DEF Moves, NoCall
  <2> QED BY <2>1, <1>11, FewerBounded DEF PoolInv
<1>15. PoolStored => PoolStored'
  BY <1>1, <1>2, <1>11, <1>12, CallStored DEF PoolInv
<1> QED BY <1>9, <1>13, <1>14, <1>15 DEF PoolInv

\* A call goes on in its sender's mempool, which has the same transactions.
LEMMA GoesOnStep ==
  ASSUME PoolAssumption, PoolInv, NEW c \in Call, NEW s \in Sender, calls[c].tx.sender = s, Uses(calls[c], s),
         NEW pc \in {"verified", "applied"}, To(c, pc),
         NEW p, mempool' = Put(mempool, s, p), Sound(s, p, calls'),
         Begins(s, mempool[s], calls, ChainNonce(s)) => Begins(s, p, calls', ChainNonce(s)),
         TxSet(p) = TxSet(mempool[s]), UNCHANGED <<storage, node>>, Others
  PROVE  PoolInv' /\ (PoolStored => PoolStored')
<1>1. UNCHANGED <<storage, blocks, accepted, cleaning, failed, readding, node, count>>
  BY DEF Others
<1>2. CallsTyped(calls') /\ Moves(c, calls, calls') /\ calls'[c].pc = pc /\ calls'[c].tx = calls[c].tx
  BY CallMoved DEF PoolInv, PoolTyped, Uses
<1>3. c \in Users(calls', s)
  BY <1>2 DEF Users, Uses
<1>4. p # None /\ p.users > 0
  <2>1. Cardinality(Users(calls', s)) # 0
    BY <1>3, UsersFinite, FS_EmptySet
  <2> QED BY <2>1, UsersFinite DEF Sound, Run, PoolAssumption
<1>5. SenderOK(s, p, calls')
  BY <1>4 DEF SenderOK
<1>6. PoolSenders' /\ Pooled' = (Pooled \ TxSet(mempool[s])) \cup TxSet(p)
  BY <1>1, <1>2, <1>5, SenderStep DEF PoolInv
<1>7. Pooled' = Pooled
  BY <1>6, SendersArePooled
<1>8. PoolTyped'
  <2>1. readding = None
    BY NotReadding DEF PoolInv, Uses
  <2> QED BY <2>1, <1>1, <1>2, TypedKept DEF PoolInv, PoolTyped
<1>9. Bounded(Pooled', calls')
  <2>1. \A d \in Call : calls'[d].pc \in {"enter", "waiting", "verified", "applied"}
                          => calls[d].pc \in {"enter", "waiting", "verified", "applied"}
    BY <1>2 DEF Moves, Uses
  <2> QED BY <2>1, <1>7, FewerBounded DEF PoolInv
<1>10. PoolStored => PoolStored'
  BY <1>1, <1>2, <1>7, MovedStored
<1> QED BY <1>6, <1>8, <1>9, <1>10 DEF PoolInv

\* The mempool a call is in.
LEMMA InMempool ==
  ASSUME PoolAssumption, PoolInv, NEW c \in Call, calls[c].pc \in {"waiting", "verified", "applied"}
  PROVE  LET s == calls[c].tx.sender  m == mempool[s]
         IN  /\ calls[c].tx \in Tx /\ s \in Sender /\ Uses(calls[c], s) /\ Sound(s, m, calls)
             /\ m # None /\ m \in Mempool /\ ~m.corrupt /\ m.txs \in Seq(Tx) /\ m.nonce \in Nat \cup {None}
             /\ m.users \in Nat /\ m.locked \in BOOLEAN
<1> DEFINE s == calls[c].tx.sender
           m == mempool[s]
<1>1. calls[c].tx \in Tx /\ calls[c].tx # None
  BY DEF PoolInv, PoolTyped, CallsTyped, CallState
<1>2. s \in Sender /\ Uses(calls[c], s)
  BY <1>1 DEF Uses, PoolAssumption
<1>3. c \in Users(calls, s)
  BY <1>2 DEF Users
<1>4. Sound(s, m, calls) /\ m # None
  BY <1>2, <1>3 DEF PoolInv, PoolSenders, Senders, SenderOK
<1> QED BY <1>1, <1>2, <1>4 DEF Sound, Run, Mempool

LEMMA VerifyStep ==
  ASSUME PoolAssumption, PoolInv, NEW c \in Call, Verify(c)
  PROVE  PoolInv' /\ (PoolStored => PoolStored')
<1> DEFINE tx == calls[c].tx
           s == tx.sender
           m == mempool[s]
<1>1. /\ tx \in Tx /\ s \in Sender /\ Uses(calls[c], s) /\ Sound(s, m, calls)
      /\ m # None /\ m \in Mempool /\ ~m.corrupt /\ m.txs \in Seq(Tx) /\ m.nonce \in Nat \cup {None}
      /\ m.users \in Nat /\ m.locked \in BOOLEAN
  BY InMempool DEF Verify
<1>2. calls[c].pc = "waiting" /\ ~m.locked /\ Others
  BY DEF Verify
<1>3. CASE FailInMempool(c, m)
  <2>1. c \notin Holders(calls, s)
    BY <1>2 DEF Holders
  <2>2. Has(m, m.txs, m.nonce, m.users, m.locked /\ c \notin Holders(calls, s))
    BY <1>1, <2>1 DEF Has
  <2> HIDE DEF s, m
  <2>3. tx.sender = s
    BY DEF s
  <2> QED BY <1>1, <1>2, <1>3, <2>2, <2>3, FailStep DEF m
<1>4. CASE /\ mempool' = [mempool EXCEPT ![s].locked = TRUE] /\ To(c, "verified") /\ UNCHANGED <<storage, node>>
           /\ MayEnter(tx)
  <2> DEFINE p == [m EXCEPT !.locked = TRUE]
  <2>1. mempool' = Put(mempool, s, p)
    BY <1>4 DEF Put
  <2>2. Has(p, m.txs, m.nonce, m.users, TRUE)
    BY <1>1, FieldsSet
  <2> HIDE DEF p
  <2>3. Moves(c, calls, calls') /\ calls'[c].pc = "verified" /\ calls'[c].tx = calls[c].tx
    BY <1>2, <1>4, CallMoved DEF PoolInv, PoolTyped
  <2>4. tx.kind # "transfer" => \A i \in 1..Len(m.txs) : m.txs[i].kind # tx.kind
    BY <1>1, <1>4 DEF MayEnter, NoneOfKind, Txs, ToSet
  <2>5. Sound(s, p, calls') /\ \A n : Begins(s, m, calls, n) => Begins(s, p, calls', n)
    <3> HIDE DEF s, m
    <3> QED BY <1>1, <1>2, <2>2, <2>3, <2>4, Verifying
  <2>6. TxSet(p) = TxSet(m)
    BY <1>1, <2>2 DEF TxSet, Has, PoolAssumption
  <2> HIDE DEF s, m
  <2>7. tx.sender = s /\ m = mempool[s]
    BY DEF s, m
  <2> QED BY <1>1, <1>2, <1>4, <2>1, <2>5, <2>6, <2>7, GoesOnStep
<1> QED BY <1>3, <1>4 DEF Verify

LEMMA ChainNonceType ==
  ASSUME PoolInv, NEW s
  PROVE  ChainNonce(s) \in Nat
BY NonceInIs DEF PoolInv, PoolTyped, ChainNonce

LEMMA ApplyStep ==
  ASSUME PoolAssumption, PoolInv, NEW c \in Call, Apply(c)
  PROVE  PoolInv' /\ (PoolStored => PoolStored')
<1> DEFINE tx == calls[c].tx
           s == tx.sender
           m == Copied(mempool[s], s)
<1>1. /\ tx \in Tx /\ s \in Sender /\ Uses(calls[c], s) /\ Sound(s, mempool[s], calls) /\ mempool[s] # None
      /\ mempool[s] \in Mempool
  BY InMempool DEF Apply
<1>2. calls[c].pc = "verified" /\ Others
  BY DEF Apply
<1>3. /\ Sound(s, m, calls) /\ Taken(calls, s) = 0 /\ Holders(calls, s) = {c} /\ mempool[s].locked
      /\ Has(m, mempool[s].txs, m.nonce, mempool[s].users, mempool[s].locked) /\ m.nonce \in Nat
      /\ Begins(s, mempool[s], calls, ChainNonce(s)) => Begins(s, m, calls, ChainNonce(s))
  <2>1. ChainNonce(s) \in Nat
    BY ChainNonceType
  <2> HIDE DEF s
  <2> QED BY <2>1, <1>1, <1>2, CopiedOK
<1>4. m # None /\ m \in Mempool /\ ~m.corrupt /\ m.txs = mempool[s].txs /\ m.locked
  BY <1>3 DEF Has, PoolAssumption
<1>5. TxSet(m) = TxSet(mempool[s])
  BY <1>1, <1>4 DEF TxSet
<1>6. m.txs \in Seq(Tx) /\ m.users \in Nat /\ m.locked \in BOOLEAN
  BY <1>4 DEF Mempool
<1>7. CASE FailInMempool(c, [m EXCEPT !.locked = FALSE])
  <2> DEFINE l == [m EXCEPT !.locked = FALSE]
  <2> HIDE DEF m
  <2>1. Has(l, m.txs, m.nonce, m.users, FALSE)
    BY <1>3, <1>4, <1>6, FieldsSet
  <2>2. FailInMempool(c, l)
    BY <1>7
  <2> HIDE DEF l
  <2>3. Has(l, m.txs, m.nonce, m.users, m.locked /\ c \notin Holders(calls, s))
    BY <2>1, <1>3 DEF Has
  <2>4. calls[c].tx.sender = s
    OBVIOUS
  <2> HIDE DEF s
  <2> QED BY <1>1, <1>2, <1>3, <1>5, <2>2, <2>3, <2>4, FailStep
<1>8. CASE /\ tx.nonce = m.nonce + 1 /\ mempool' = [mempool EXCEPT ![s] = [m EXCEPT !.nonce = tx.nonce]]
           /\ To(c, "applied") /\ UNCHANGED <<storage, node>>
  <2> DEFINE p == [m EXCEPT !.nonce = tx.nonce]
  <2>1. mempool' = Put(mempool, s, p)
    BY <1>8 DEF Put
  <2>2. Has(p, m.txs, tx.nonce, m.users, m.locked)
    <3>1. tx.nonce \in Nat \cup {None}
      BY <1>1 DEF PoolAssumption
    <3> HIDE DEF m, s, tx
    <3> QED BY <3>1, <1>4, <1>6, <1>3, FieldsSet
  <2> HIDE DEF p, m
  <2>3. Moves(c, calls, calls') /\ calls'[c].pc = "applied" /\ calls'[c].tx = calls[c].tx
    BY <1>2, <1>8, CallMoved DEF PoolInv, PoolTyped
  <2>4. Sound(s, p, calls') /\ \A n : Begins(s, m, calls, n) => Begins(s, p, calls', n)
    <3> HIDE DEF s
    <3> QED BY <1>1, <1>2, <1>3, <1>4, <1>8, <2>2, <2>3, Applying
  <2>5. TxSet(p) = TxSet(m)
    BY <1>4, <2>2 DEF TxSet, Has, PoolAssumption
  <2>6. tx.sender = s
    OBVIOUS
  <2> HIDE DEF s
  <2> QED BY <1>1, <1>2, <1>3, <1>5, <1>8, <2>1, <2>4, <2>5, <2>6, GoesOnStep
<1> QED BY <1>7, <1>8 DEF Apply

\* A transaction more.
LEMMA AppendedTo ==
  ASSUME NEW txs \in Seq(Tx), NEW tx \in Tx
  PROVE  /\ ToSet(Append(txs, tx)) = ToSet(txs) \cup {tx} /\ Append(txs, tx) \in Seq(Tx)
         /\ Append(txs, tx) # <<>>
<1> DEFINE more == Append(txs, tx)
<1>1. /\ more \in Seq(Tx) /\ Len(more) = Len(txs) + 1 /\ more[Len(txs) + 1] = tx
      /\ Len(txs) \in Nat /\ \A i \in 1..Len(txs) : more[i] = txs[i]
      /\ \A i \in 1..Len(more) : i \in 1..Len(txs) \/ i = Len(txs) + 1
      /\ DOMAIN more = 1..Len(more) /\ DOMAIN txs = 1..Len(txs)
  OBVIOUS
<1> HIDE DEF more
<1>2. \A i \in 1..Len(txs) : i \in 1..Len(more)
  BY <1>1
<1>3. Len(txs) + 1 \in 1..Len(more)
  BY <1>1
<1>4. ToSet(more) = ToSet(txs) \cup {tx}
  BY <1>1, <1>2, <1>3 DEF ToSet
<1>5. more # <<>>
  BY <1>1
<1> QED BY <1>1, <1>4, <1>5 DEF more

LEMMA OneMore ==
  ASSUME NEW P, IsFiniteSet(P), NEW tx
  PROVE  /\ IsFiniteSet(P \cup {tx}) /\ Cardinality(P) \in Nat /\ Cardinality(P \cup {tx}) \in Nat
         /\ Cardinality(P \cup {tx}) <= Cardinality(P) + 1
<1>1. Cardinality(P) \in Nat
  BY FS_CardinalityType
<1>2. /\ IsFiniteSet(P \cup {tx})
      /\ Cardinality(P \cup {tx}) = IF tx \in P THEN Cardinality(P) ELSE Cardinality(P) + 1
  BY FS_AddElement
<1> QED BY <1>1, <1>2

LEMMA PushStep ==
  ASSUME PoolAssumption, PoolInv, NEW c \in Call, Push(c)
  PROVE  PoolInv' /\ (PoolStored => PoolStored')
<1> DEFINE tx == calls[c].tx
           s == tx.sender
           m == mempool[s]
           q == [m EXCEPT !.txs = Append(@, tx)]
           p == [q EXCEPT !.users = @ - 1, !.locked = FALSE]
<1>1. /\ tx \in Tx /\ s \in Sender /\ Uses(calls[c], s) /\ Sound(s, m, calls)
      /\ m # None /\ m \in Mempool /\ ~m.corrupt /\ m.txs \in Seq(Tx) /\ m.nonce \in Nat \cup {None}
      /\ m.users \in Nat /\ m.locked \in BOOLEAN
  BY InMempool DEF Push
<1>2. /\ calls[c].pc = "applied" /\ mempool' = Put(mempool, s, p) /\ calls' = [calls EXCEPT ![c] = NoCall]
      /\ UNCHANGED <<storage, blocks, accepted, cleaning, failed, readding, node, count>>
  BY DEF Push, Release, Put, Others
<1>3. m.users \in Nat \ {0}
  <2>1. c \in Users(calls, s) /\ m.users = Cardinality(Users(calls, s))
    BY <1>1 DEF Users, Sound
  <2>2. Cardinality(Users(calls, s)) # 0
    BY <2>1, UsersFinite, FS_EmptySet
  <2> QED BY <2>1, <2>2, UsersFinite
<1>4. Has(p, Append(m.txs, tx), m.nonce, m.users - 1, FALSE)
  <2>1. Append(m.txs, tx) \in Seq(Tx)
    BY <1>1
  <2>2. Has(q, Append(m.txs, tx), m.nonce, m.users, m.locked)
    <3> HIDE DEF m, tx
    <3> QED BY <2>1, <1>1, FieldsSet
  <2> HIDE DEF q, m, tx
  <2>3. q.txs \in Seq(Tx) /\ q.users - 1 \in Nat /\ q.nonce \in Nat \cup {None} /\ q \in Mempool /\ ~q.corrupt
    BY <1>1, <1>3, <2>1, <2>2 DEF Has
  <2>4. Has(p, q.txs, q.nonce, q.users - 1, FALSE)
    BY <2>3, FieldsSet
  <2> HIDE DEF p
  <2> QED BY <2>2, <2>4 DEF Has
<1> HIDE DEF p, q
<1>5. CallsTyped(calls') /\ Moves(c, calls, calls') /\ calls'[c] = NoCall
  BY <1>2, CallEnded DEF PoolInv, PoolTyped
<1>6. ~Uses(calls'[c], s) /\ calls'[c].tx = None /\ calls'[c].pc = "idle"
  BY <1>5 DEF Uses, NoCall
<1>7. Sound(s, p, calls') /\ \A n : Begins(s, m, calls, n) => Begins(s, p, calls', n)
  <2> HIDE DEF s, m
  <2> QED BY <1>1, <1>2, <1>4, <1>5, <1>6, Pushing
<1>8. /\ ToSet(Append(m.txs, tx)) = ToSet(m.txs) \cup {tx} /\ Append(m.txs, tx) # <<>>
  <2> HIDE DEF m, tx
  <2> QED BY <1>1, AppendedTo
<1>9. p # None /\ p.txs # <<>> /\ p.txs = Append(m.txs, tx)
  <2> HIDE DEF m, tx
  <2> QED BY <1>4, <1>8 DEF Has, PoolAssumption
<1>10. SenderOK(s, p, calls')
  BY <1>7, <1>9 DEF SenderOK
<1>11. calls'[c].tx \in {calls[c].tx, None}
  BY <1>6
<1>12. PoolSenders' /\ Pooled' = (Pooled \ TxSet(m)) \cup TxSet(p)
  BY <1>1, <1>2, <1>5, <1>7, <1>10, <1>11, SenderStep DEF PoolInv
<1>13. Pooled' = Pooled \cup {tx}
  <2>1. TxSet(p) = TxSet(m) \cup {tx}
    <3>1. TxSet(p) = ToSet(p.txs) /\ TxSet(m) = ToSet(m.txs)
      BY <1>1, <1>9 DEF TxSet
    <3> HIDE DEF m, tx
    <3> QED BY <3>1, <1>8, <1>9
  <2> QED BY <2>1, <1>1, <1>12, SendersArePooled
<1>14. readding = None
  BY <1>2, NotReadding DEF PoolInv
<1>15. PoolTyped'
  BY <1>2, <1>5, <1>14, TypedKept DEF PoolInv, PoolTyped
<1>16. Bounded(Pooled', calls')
  <2>1. Passed(calls') = Passed(calls) \ {c} /\ c \in Passed(calls)
    BY <1>2, <1>5, <1>6 DEF Passed, Moves
  <2>2. Cardinality(Passed(calls')) = Cardinality(Passed(calls)) - 1
    BY <2>1, PassedFinite, FS_RemoveElement
  <2>3. /\ IsFiniteSet(Pooled \cup {tx}) /\ Cardinality(Pooled \cup {tx}) <= Cardinality(Pooled) + 1
        /\ Cardinality(Pooled) \in Nat /\ Cardinality(Pooled \cup {tx}) \in Nat
    BY OneMore DEF PoolInv, Bounded
  <2>4. Cardinality(Passed(calls)) \in Nat /\ Cardinality(Call) \in Nat
    BY PassedFinite
  <2> QED BY <2>2, <2>3, <2>4, <1>13 DEF PoolInv, Bounded, PoolAssumption
<1>17. ASSUME PoolStored PROVE PoolStored'
  <2>1. \A d \in Call : calls'[d].tx # None => d # c /\ calls'[d].tx = calls[d].tx
    BY <1>5, <1>6 DEF Moves
  <2>2. tx \in Stored /\ tx # None
    BY <1>1, <1>17, StoredIs DEF PoolStored, StoredOK, Uses
  <2>3. \A d \in Call : calls[d].tx = tx => d = c
    BY <1>17, <2>2 DEF PoolStored, StoredOK
  <2>4. Stored \subseteq Pooled' \cup Adding(calls')
    <3>1. ASSUME NEW o \in Stored, o \notin Pooled' PROVE o \in Adding(calls')
      <4>1. PICK d \in Call : calls[d].tx # None /\ o = calls[d].tx
        BY <3>1, <1>13, <1>14, <1>17, StoredIs DEF PoolStored, StoredOK, Adding
      <4>2. d # c
        BY <3>1, <4>1, <1>13
      <4>3. calls'[d].tx = o
        BY <4>1, <4>2, <1>5 DEF Moves
      <4> QED BY <4>1, <4>3 DEF Adding
    <3> QED BY <3>1
  <2>5. \A d \in Call : calls'[d].tx # None => calls'[d].tx \in Stored \ (Pooled' \cup failed \cup {accepted})
    BY <2>1, <2>3, <1>13, <1>17, StoredIs DEF PoolStored, StoredOK
  <2>6. \A d, e \in Call : calls'[d].tx # None /\ calls'[d].tx = calls'[e].tx => d = e
    BY <2>1, <1>17 DEF PoolStored, StoredOK
  <2>7. Pooled' \subseteq Stored
    BY <2>2, <1>13, <1>17, StoredIs DEF PoolStored, StoredOK
  <2>8. storage' = storage /\ Stored = TxsOf(storage) /\ UNCHANGED <<accepted, failed, readding>>
    BY <1>2, StoredIs
  <2>9. Distinct(storage)
    BY <1>17 DEF PoolStored, StoredOK
  <2> QED BY <2>4, <2>5, <2>6, <2>7, <2>8, <2>9, <1>14 DEF PoolStored, StoredOK
<1> QED BY <1>12, <1>15, <1>16, <1>17 DEF PoolInv

\* What a new call of addTransaction does.
LEMMA StartIs ==
  ASSUME PoolAssumption, PoolInv, NEW c \in Call, NEW tx \in Tx, NEW reverted \in BOOLEAN, Start(c, tx, reverted)
  PROVE  /\ storage' \in Seq(Row) /\ CallsTyped(calls') /\ Moves(c, calls, calls') /\ mempool' = mempool
         /\ node' \in {"up", "corrupted"} /\ readding = None
         /\ calls[c].pc = "idle" /\ calls'[c].pc \in {"idle", "fee"}
         /\ \A gone : StoredOK(storage, Pooled, calls, gone, None) /\ tx \notin gone
                        => StoredOK(storage', Pooled, calls', gone, None)
<1>1. storage \in Seq(Row) /\ CallsTyped(calls) /\ node \in {"up", "corrupted"} /\ Height \in Nat
  BY DEF PoolInv, PoolTyped, Height
<1>2. calls[c].pc = "idle" /\ readding = None /\ mempool' = mempool
  BY DEF Start, Idle
<1>3. CASE tx \in Stored
  <2>1. UNCHANGED <<storage, calls>> /\ node' \in {"up", "corrupted"}
    BY <1>1, <1>3 DEF Start
  <2> QED BY <2>1, <1>1, <1>2 DEF Moves
<1>4. CASE tx \notin Stored
  <2> DEFINE row == [tx |-> tx, height |-> Height]
             x == [tx |-> tx, pc |-> "fee", reverted |-> reverted]
  <2>1. storage' = Append(storage, row) /\ calls' = [calls EXCEPT ![c] = x] /\ node' = node
    BY <1>4 DEF Start
  <2>2. row \in Row /\ row.tx = tx
    BY <1>1 DEF Row
  <2>3. x \in CallState /\ x.tx = tx /\ x.pc = "fee" /\ tx # None
    BY DEF CallState, PoolAssumption
  <2> HIDE DEF row, x
  <2>4. storage' \in Seq(Row) /\ TxsOf(storage') = Stored \cup {tx} /\ (Distinct(storage) => Distinct(storage'))
    BY <1>1, <1>4, <2>1, <2>2, AppendedIs, StoredIs
  <2>5. CallsTyped(calls') /\ calls'[c] = x /\ Moves(c, calls, calls')
    BY <1>1, <2>1, <2>3 DEF CallsTyped, Moves
  <2>6. ASSUME NEW gone, StoredOK(storage, Pooled, calls, gone, None), tx \notin gone
        PROVE  StoredOK(storage', Pooled, calls', gone, None)
    <3>1. \A d \in Call : calls[d].tx # tx
      BY <2>3, <2>6, <1>4, StoredIs DEF StoredOK
    <3>2. \A d \in Call : IF d = c THEN calls'[d].tx = tx ELSE calls'[d].tx = calls[d].tx
      BY <2>3, <2>5 DEF Moves
    <3>3. calls[c].tx = None
      BY <1>1, <1>2 DEF CallsTyped
    <3>4. TxsOf(storage') \subseteq Pooled \cup Adding(calls')
      <4>1. ASSUME NEW o \in TxsOf(storage'), o \notin Pooled PROVE o \in Adding(calls')
        <5>1. CASE o = tx
          BY <5>1, <2>3, <3>2 DEF Adding
        <5>2. CASE o # tx
          <6>1. PICK d \in Call : calls[d].tx # None /\ o = calls[d].tx
            BY <5>2, <4>1, <2>4, <2>6, StoredIs DEF StoredOK, Adding
          <6>2. calls'[d].tx = o
            BY <6>1, <3>2, <3>3
          <6> QED BY <6>1, <6>2 DEF Adding
        <5> QED BY <5>1, <5>2
      <4> QED BY <4>1
    <3>5. Pooled \subseteq Stored /\ tx \notin Pooled
      BY <2>6, <1>4, StoredIs DEF StoredOK
    <3>6. \A d \in Call : calls'[d].tx # None => calls'[d].tx \in TxsOf(storage') \ (Pooled \cup gone)
      BY <3>2, <3>5, <2>4, <2>6, StoredIs DEF StoredOK
    <3>7. \A d, e \in Call : calls'[d].tx # None /\ calls'[d].tx = calls'[e].tx => d = e
      BY <3>1, <3>2, <2>6 DEF StoredOK
    <3> QED BY <3>4, <3>5, <3>6, <3>7, <2>4, <2>6 DEF StoredOK
  <2> QED BY <1>1, <1>2, <2>1, <2>3, <2>4, <2>5, <2>6
<1> QED BY <1>3, <1>4

\* A call that begins is not in the mempool.
LEMMA StartedSenders ==
  ASSUME PoolAssumption, PoolInv, NEW c \in Call, Moves(c, calls, calls'),
         calls[c].pc = "idle", calls'[c].pc \in {"idle", "fee"}, mempool' = mempool
  PROVE  /\ Senders(mempool', calls') /\ (Early(mempool, calls, blocks) => Early(mempool', calls', blocks))
         /\ Pooled' = Pooled /\ Bounded(Pooled', calls')
<1>1. \A d \in Call : calls[d] = calls'[d] \/ \A t \in Sender : ~Uses(calls[d], t) /\ ~Uses(calls'[d], t)
  BY DEF Moves, Uses
<1>2. Senders(mempool', calls') /\ (Early(mempool, calls, blocks) => Early(mempool', calls', blocks))
  BY <1>1, SameSenders DEF PoolInv, PoolSenders
<1>3. Pooled' = Pooled
  BY PooledIsIn, PooledIsInNext
<1>4. \A d \in Call : calls'[d].pc \in {"enter", "waiting", "verified", "applied"}
                        => calls[d].pc \in {"enter", "waiting", "verified", "applied"}
  BY DEF Moves
<1>5. Bounded(Pooled', calls')
  BY <1>3, <1>4, FewerBounded DEF PoolInv
<1> QED BY <1>2, <1>3, <1>5

LEMMA AddTransactionStep ==
  ASSUME PoolAssumption, PoolInv, NEW c \in Call, NEW tx \in Tx, AddTransaction(c, tx)
  PROVE  PoolInv' /\ (~Racing /\ PoolStored => PoolStored')
<1>1. /\ Start(c, tx, FALSE) /\ UNCHANGED <<blocks, accepted, cleaning, failed, readding, count>>
      /\ Racing \/ tx \notin failed \cup {accepted}
  BY DEF AddTransaction, Others
<1>2. /\ storage' \in Seq(Row) /\ CallsTyped(calls') /\ Moves(c, calls, calls') /\ mempool' = mempool
      /\ node' \in {"up", "corrupted"} /\ readding = None
      /\ calls[c].pc = "idle" /\ calls'[c].pc \in {"idle", "fee"}
      /\ \A gone : StoredOK(storage, Pooled, calls, gone, None) /\ tx \notin gone
                     => StoredOK(storage', Pooled, calls', gone, None)
  BY <1>1, StartIs
<1>3. /\ Senders(mempool', calls') /\ (Early(mempool, calls, blocks) => Early(mempool', calls', blocks))
      /\ Pooled' = Pooled /\ Bounded(Pooled', calls')
  BY <1>2, StartedSenders
<1>4. PoolTyped'
  BY <1>1, <1>2, TypedKept DEF PoolInv, PoolTyped
<1>5. PoolSenders'
  BY <1>1, <1>3 DEF PoolInv, PoolSenders
<1>6. ~Racing /\ PoolStored => PoolStored'
  BY <1>1, <1>2, <1>3 DEF PoolStored
<1> QED BY <1>3, <1>4, <1>5, <1>6 DEF PoolInv

\* The storage when less is to be removed.
LEMMA FewerGone ==
  ASSUME NEW rows, NEW P, NEW K, NEW gone, NEW again, StoredOK(rows, P, K, gone, again),
         NEW left, left \subseteq gone \cup {None}
  PROVE  StoredOK(rows, P, K, left, again)
  BY DEF StoredOK

LEMMA FrontIs ==
  ASSUME NEW S, NEW q \in Seq(S), q # <<>>
  PROVE  /\ Front(q) \in Seq(S) /\ Len(Front(q)) = Len(q) - 1 /\ Last(q) \in S /\ Len(q) \in Nat
<1>1. Len(q) \in Nat /\ (Len(q) = 0 => q = <<>>)
  OBVIOUS
<1>2. Len(q) - 1 \in Nat /\ Len(q) \in 1..Len(q)
  BY <1>1
<1> DEFINE n == Len(q) - 1
<1>3. SubSeq(q, 1, n) \in Seq(S) /\ Len(SubSeq(q, 1, n)) = n
  <2>1. n \in Nat /\ n <= Len(q)
    BY <1>1, <1>2
  <2> HIDE DEF n
  <2>2. SubSeq(q, 1, n) \in Seq(S)
    BY <2>1, <1>1
  <2>3. Len(SubSeq(q, 1, n)) = n
    BY <2>1, <1>1
  <2> QED BY <2>2, <2>3
<1>4. q[Len(q)] \in S
  BY <1>2
<1> QED BY <1>1, <1>3, <1>4 DEF Front, Last

LEMMA RevertBlockStep ==
  ASSUME PoolAssumption, PoolInv, NEW c \in Call, RevertBlock(c)
  PROVE  PoolInv' /\ (~Racing /\ PoolStored => PoolStored')
<1> DEFINE tx == Last(blocks)
<1>1. /\ blocks # <<>> /\ blocks' = Front(blocks) /\ accepted' = None /\ count' = [count EXCEPT !.reverts = @ + 1]
      /\ UNCHANGED <<cleaning, failed, readding>> /\ readding = None /\ Idle(c) /\ (Racing \/ tx \notin failed)
  BY DEF RevertBlock
<1>2. /\ blocks' \in Seq(Tx \cup {None}) /\ Len(blocks') <= MaxHeight /\ tx \in Tx \cup {None}
  <2>1. blocks \in Seq(Tx \cup {None}) /\ Len(blocks) <= MaxHeight
    BY DEF PoolInv, PoolTyped, Height
  <2>2. /\ Front(blocks) \in Seq(Tx \cup {None}) /\ Len(Front(blocks)) = Len(blocks) - 1
        /\ tx \in Tx \cup {None} /\ Len(blocks) \in Nat
    BY <1>1, <2>1, FrontIs
  <2> QED BY <1>1, <2>1, <2>2 DEF PoolAssumption
<1>3. /\ storage' \in Seq(Row) /\ CallsTyped(calls') /\ Moves(c, calls, calls') /\ mempool' = mempool
      /\ node' \in {"up", "corrupted"} /\ calls[c].pc = "idle" /\ calls'[c].pc \in {"idle", "fee"}
      /\ \A gone : StoredOK(storage, Pooled, calls, gone, None) /\ tx \notin gone
                     => StoredOK(storage', Pooled, calls', gone, None)
  <2>1. CASE tx # None
    <3>1. Start(c, tx, TRUE) /\ tx \in Tx
      BY <2>1, <1>2 DEF RevertBlock
    <3> HIDE DEF tx
    <3> QED BY <3>1, StartIs
  <2>2. CASE tx = None
    BY <2>2, <1>1 DEF RevertBlock, PoolInv, PoolTyped, Moves, Idle
  <2> QED BY <2>1, <2>2
<1> HIDE DEF tx
<1>4. Senders(mempool', calls') /\ Pooled' = Pooled /\ Bounded(Pooled', calls')
  BY <1>3, StartedSenders
<1>5. PoolTyped'
  <2>1. count' \in [reverts : Nat, restarts : Nat, readds : Nat]
    BY <1>1 DEF PoolInv, PoolTyped
  <2> QED BY <2>1, <1>1, <1>2, <1>3 DEF PoolInv, PoolTyped, Height
<1>6. PoolSenders'
  <2>1. count'.reverts # 0
    BY <1>1 DEF PoolInv, PoolTyped
  <2> QED BY <2>1, <1>4 DEF PoolSenders
<1>7. ASSUME ~Racing, PoolStored PROVE PoolStored'
  <2>1. StoredOK(storage, Pooled, calls, (failed \cup {None}) \ {tx}, None)
    <3>1. (failed \cup {None}) \ {tx} \subseteq (failed \cup {accepted}) \cup {None}
      OBVIOUS
    <3>2. StoredOK(storage, Pooled, calls, failed \cup {accepted}, None)
      BY <1>1, <1>7 DEF PoolStored
    <3> QED BY <3>1, <3>2, FewerGone
  <2>2. StoredOK(storage', Pooled, calls', (failed \cup {None}) \ {tx}, None)
    BY <2>1, <1>3
  <2>3. failed \cup {None} \subseteq ((failed \cup {None}) \ {tx}) \cup {None}
    BY <1>1, <1>7
  <2>4. StoredOK(storage', Pooled, calls', failed \cup {None}, None)
    BY <2>2, <2>3, FewerGone
  <2> QED BY <2>4, <1>1, <1>4 DEF PoolStored
<1> QED BY <1>4, <1>5, <1>6, <1>7 DEF PoolInv

LEMMA ApplyBlockStep ==
  ASSUME PoolAssumption, PoolInv, NEW tx \in Tx \cup {None}, ApplyBlock(tx)
  PROVE  PoolInv' /\ (~Racing /\ PoolStored => PoolStored')
<1>1. /\ Height < MaxHeight /\ blocks' = Append(blocks, tx) /\ accepted' = tx /\ cleaning' = TRUE /\ readding = None
      /\ UNCHANGED <<storage, mempool, calls, failed, readding, node, count>>
      /\ tx # None => /\ tx.nonce = ChainNonce(tx.sender) + 1
                      /\ Racing \/ \A c \in Call : calls[c].tx # tx
  BY DEF ApplyBlock
<1>2. blocks \in Seq(Tx \cup {None}) /\ Len(blocks) \in Nat
  BY DEF PoolInv, PoolTyped
<1>3. blocks' \in Seq(Tx \cup {None}) /\ Len(blocks') <= MaxHeight
  BY <1>1, <1>2 DEF Height, PoolAssumption
<1>4. \A s : /\ NonceIn(blocks, s) \in Nat
             /\ NonceIn(blocks', s) = NonceIn(blocks, s) + (IF tx # None /\ tx.sender = s THEN 1 ELSE 0)
  BY <1>1, <1>2, NonceInIs
<1>5. tx # None => tx.nonce <= NonceIn(blocks', tx.sender)
  BY <1>1, <1>4 DEF ChainNonce
<1>6. PoolTyped'
  BY <1>1, <1>3, <1>5 DEF PoolInv, PoolTyped, Height, ChainNonce
<1>7. PoolSenders'
  <2>1. ASSUME Early(mempool, calls, blocks) PROVE Early(mempool, calls, blocks')
    <3>1. SUFFICES ASSUME NEW s \in Sender PROVE Begins(s, mempool[s], calls, NonceIn(blocks', s))
      BY DEF Early
    <3>2. NonceIn(blocks, s) \in Nat /\ NonceIn(blocks', s) \in Nat /\ NonceIn(blocks, s) <= NonceIn(blocks', s)
      BY <1>4
    <3>3. SenderOK(s, mempool[s], calls) /\ Begins(s, mempool[s], calls, NonceIn(blocks, s))
      BY <2>1 DEF PoolInv, PoolSenders, Senders, Early
    <3> QED BY <3>2, <3>3, BeginsLater
  <2> QED BY <2>1, <1>1 DEF PoolInv, PoolSenders
<1>8. Pooled' = Pooled
  BY <1>1, PooledIsIn, PooledIsInNext
<1>9. Bounded(Pooled', calls')
  BY <1>1, <1>8 DEF PoolInv
<1>10. ~Racing /\ PoolStored => PoolStored'
  BY <1>1, <1>8 DEF PoolStored, StoredOK
<1> QED BY <1>6, <1>7, <1>9, <1>10 DEF PoolInv

\* What is to be removed leaves the storage, and the mempool if it is there.
LEMMA GoneStored ==
  ASSUME PoolStored, readding = None, NEW R, R \subseteq Pooled \cup failed \cup {accepted}, Dropped(R),
         NEW left, left \subseteq failed \cup {accepted} \cup {None}
  PROVE  StoredOK(storage', Pooled', calls, left, readding)
  BY DEF Dropped, PoolStored, StoredOK

LEMMA RemoveForgedStep ==
  ASSUME PoolAssumption, PoolInv, RemoveForged
  PROVE  PoolInv' /\ (PoolStored => PoolStored')
<1> DEFINE s == accepted.sender
           m == mempool[s]
           left == Forged(m, accepted)
<1>1. /\ accepted \in Tx /\ accepted.nonce <= ChainNonce(s) /\ accepted' = None /\ readding = None
      /\ UNCHANGED <<calls, blocks, cleaning, failed, readding, node, count>>
  BY DEF RemoveForged, PoolInv, PoolTyped
<1>2. s \in Sender /\ ChainNonce(s) \in Nat /\ SenderOK(s, m, calls)
  BY <1>1, ChainNonceType DEF PoolInv, PoolSenders, Senders, PoolAssumption
<1>3. /\ Senders(mempool', calls) /\ (Early(mempool, calls, blocks) => Early(mempool', calls, blocks))
      /\ storage' \in Seq(Row) /\ Pooled' \subseteq Pooled
      /\ PoolStored => \E R : R \subseteq Pooled \cup {accepted} /\ Dropped(R)
  <2>1. CASE accepted \notin Stored
    <3>1. UNCHANGED <<mempool, storage>>
      BY <2>1 DEF RemoveForged
    <3>2. Pooled' = Pooled
      BY <3>1, PooledIsIn, PooledIsInNext
    <3>3. Dropped({})
      BY <3>1, <3>2 DEF Dropped, PoolInv, PoolTyped
    <3> QED BY <3>1, <3>2, <3>3 DEF PoolInv, PoolTyped, PoolSenders
  <2>2. CASE accepted \in Stored /\ m = None
    <3>1. mempool' = mempool /\ storage' = Deleted(storage, {accepted})
      BY <2>2 DEF RemoveForged
    <3>2. Pooled' = Pooled
      BY <3>1, PooledIsIn, PooledIsInNext
    <3>3. accepted \notin Pooled
      BY <2>2, PooledIsIn, PooledInIs DEF PoolInv, PoolSenders
    <3>4. Dropped({accepted})
      BY <3>1, <3>2, <3>3, DeletedIs DEF Dropped, PoolInv, PoolTyped
    <3> QED BY <3>1, <3>2, <3>4 DEF PoolInv, PoolTyped, PoolSenders, Dropped
  <2>3. CASE accepted \in Stored /\ m # None
    <3> DEFINE R == {accepted} \cup (ToSet(m.txs) \ ToSet(left.txs))
    <3>1. mempool' = Put(mempool, s, Disposed(left)) /\ storage' = Deleted(storage, R)
      BY <2>3 DEF RemoveForged, Put
    <3>2. Sound(s, m, calls) /\ Taken(calls, s) \in Nat
      BY <2>3, <1>2 DEF SenderOK, Taken
    <3> HIDE DEF s, m
    <3>3. /\ Sound(s, left, calls)
          /\ Begins(s, m, calls, ChainNonce(s)) => Begins(s, left, calls, ChainNonce(s))
          /\ ToSet(left.txs) \subseteq ToSet(m.txs) /\ accepted \notin ToSet(left.txs)
      BY <1>1, <1>2, <3>2, ForgedIs
    <3> HIDE DEF left
    <3>4. /\ SenderOK(s, Disposed(left), calls)
          /\ \A n : Begins(s, left, calls, n) => Begins(s, Disposed(left), calls, n)
      BY <3>3, DisposedOK
    <3>5. TxSet(Disposed(left)) = ToSet(left.txs) /\ TxSet(m) = ToSet(m.txs)
      <4>1. left # None /\ (left.txs = <<>> => ToSet(left.txs) = {})
        BY <3>3 DEF Sound, Run, PoolAssumption, ToSet
      <4> QED BY <4>1, <2>3 DEF TxSet, Disposed
    <3>6. /\ Senders(mempool', calls)
          /\ \A chain : Early(mempool, calls, chain) /\ Begins(s, Disposed(left), calls, NonceIn(chain, s))
                          => Early(mempool', calls, chain)
          /\ PooledIn(mempool') = (PooledIn(mempool) \ TxSet(mempool[s])) \cup TxSet(Disposed(left))
      <4>1. Senders(mempool, calls)
        BY DEF PoolInv, PoolSenders
      <4> QED BY <4>1, <1>2, <3>1, <3>4, OneSender
    <3>7. Early(mempool, calls, blocks) => Early(mempool', calls, blocks)
      <4>1. Early(mempool, calls, blocks) => Begins(s, m, calls, ChainNonce(s))
        BY <1>2 DEF Early, ChainNonce, m
      <4> QED BY <4>1, <3>3, <3>4, <3>6 DEF ChainNonce
    <3>8. Pooled' = (Pooled \ ToSet(m.txs)) \cup ToSet(left.txs) /\ ToSet(m.txs) \subseteq Pooled
      BY <1>2, <3>5, <3>6, PooledIsIn, PooledIsInNext, SendersArePooled DEF m
    <3>9. accepted \in Pooled => accepted \in ToSet(m.txs)
      <4>1. accepted \in Pooled => accepted \in TxSet(m)
        BY PooledIsIn, PooledInIs DEF PoolInv, PoolSenders, m, s
      <4> QED BY <4>1, <3>5
    <3>10. Pooled' = Pooled \ R /\ R \subseteq Pooled \cup {accepted} /\ Pooled' \subseteq Pooled
      BY <3>3, <3>8, <3>9
    <3> HIDE DEF R
    <3>11. Dropped(R)
      BY <3>1, <3>10, DeletedIs DEF Dropped, PoolInv, PoolTyped
    <3> QED BY <3>6, <3>7, <3>10, <3>11 DEF Dropped
  <2> QED BY <2>1, <2>2, <2>3
<1> HIDE DEF s, m, left
<1>4. PoolTyped'
  BY <1>1, <1>3 DEF PoolInv, PoolTyped, Height, ChainNonce, Idle
<1>5. PoolSenders'
  BY <1>1, <1>3 DEF PoolInv, PoolSenders
<1>6. Bounded(Pooled', calls')
  BY <1>1, <1>3, FewerBounded DEF PoolInv
<1>7. ASSUME PoolStored PROVE PoolStored'
  <2>1. PICK R : R \subseteq Pooled \cup {accepted} /\ Dropped(R)
    BY <1>3, <1>7
  <2>2. failed \cup {None} \subseteq failed \cup {accepted} \cup {None}
    OBVIOUS
  <2>3. StoredOK(storage', Pooled', calls, failed \cup {None}, readding)
    BY <2>1, <2>2, <1>1, <1>7, GoneStored
  <2> QED BY <2>3, <1>1 DEF PoolStored
<1> QED BY <1>4, <1>5, <1>6, <1>7 DEF PoolInv

LEMMA CollatorStep ==
  ASSUME PoolAssumption, PoolInv, GetBlockCandidateTransactions
  PROVE  PoolInv' /\ (PoolStored => PoolStored')
<1>1. /\ failed' \subseteq Pooled
      /\ UNCHANGED <<storage, mempool, calls, blocks, accepted, cleaning, readding, node, count>>
  BY DEF GetBlockCandidateTransactions, Failing
<1>2. Pooled \subseteq Tx
  BY PooledIsIn, PooledInIs DEF PoolInv, PoolSenders
<1>3. PoolTyped'
  BY <1>1, <1>2 DEF PoolInv, PoolTyped, Height, ChainNonce, Idle
<1>4. PoolSenders'
  BY <1>1 DEF PoolInv, PoolSenders
<1>5. Pooled' = Pooled
  BY <1>1, PooledIsIn, PooledIsInNext
<1>6. Bounded(Pooled', calls')
  BY <1>1, <1>5 DEF PoolInv
<1>7. PoolStored => PoolStored'
  BY <1>1, <1>5 DEF PoolStored, StoredOK
<1> QED BY <1>3, <1>4, <1>6, <1>7 DEF PoolInv

LEMMA RemoveFailedStep ==
  ASSUME PoolAssumption, PoolInv, NEW tx \in Tx, RemoveFailed(tx)
  PROVE  PoolInv' /\ (PoolStored => PoolStored')
<1>1. /\ tx \in failed /\ readding = None /\ Unlocked(tx.sender) /\ failed' = failed \ {tx}
      /\ UNCHANGED <<calls, blocks, accepted, cleaning, readding, node, count>>
  BY DEF RemoveFailed
<1>2. failed' \subseteq failed /\ cleaning' \in BOOLEAN
  BY <1>1 DEF PoolInv, PoolTyped
<1>3. CASE tx \in Stored /\ tx \in Pooled
  <2>1. RemoveFrom(tx)
    BY <1>3 DEF RemoveFailed
  <2> QED BY <1>1, <1>2, <1>3, <2>1, RemovalStep
<1>4. CASE ~(tx \in Stored /\ tx \in Pooled)
  <2>1. mempool' = mempool /\ storage' \in {storage, Deleted(storage, {tx})}
    BY <1>4 DEF RemoveFailed
  <2>2. Pooled' = Pooled
    BY <2>1, PooledIsIn, PooledIsInNext
  <2>3. storage' \in Seq(Row)
    BY <2>1, DeletedIs DEF PoolInv, PoolTyped
  <2>4. PoolTyped'
    BY <1>1, <1>2, <2>3, TypedKept DEF PoolInv, PoolTyped
  <2>5. PoolSenders'
    BY <1>1, <2>1 DEF PoolInv, PoolSenders
  <2>6. Bounded(Pooled', calls')
    BY <1>1, <2>2 DEF PoolInv
  <2>7. ASSUME PoolStored PROVE PoolStored'
    <3>1. tx \notin Pooled
      BY <1>4, <2>7, StoredIs DEF PoolStored, StoredOK
    <3>2. \E R : R \subseteq {tx} /\ Dropped(R)
      <4>1. CASE storage' = storage
        <5>1. Dropped({})
          BY <4>1, <2>2, <2>3 DEF Dropped
        <5> QED BY <5>1
      <4>2. CASE storage' = Deleted(storage, {tx})
        <5>1. Dropped({tx})
          BY <4>2, <2>2, <2>3, <3>1, DeletedIs DEF Dropped, PoolInv, PoolTyped
        <5> QED BY <5>1
      <4> QED BY <4>1, <4>2, <2>1
    <3>3. PICK R : R \subseteq {tx} /\ Dropped(R)
      BY <3>2
    <3>4. R \subseteq Pooled \cup failed \cup {accepted}
      BY <3>3, <1>1
    <3>5. failed' \cup {accepted} \subseteq failed \cup {accepted} \cup {None}
      BY <1>2
    <3>6. StoredOK(storage', Pooled', calls, failed' \cup {accepted}, readding)
      BY <3>3, <3>4, <3>5, <1>1, <2>7, GoneStored
    <3> QED BY <3>6, <1>1 DEF PoolStored
  <2> QED BY <2>4, <2>5, <2>6, <2>7 DEF PoolInv
<1> QED BY <1>3, <1>4

\* Everything that is stored is to be added again, to a mempool that is empty.
LEMMA ReaddsStep ==
  ASSUME PoolAssumption, PoolInv, mempool' = [s \in Sender |-> None], readding' = storage,
         CallsTyped(calls'), \A c \in Call : calls'[c].pc = "idle"
  PROVE  /\ Senders(mempool', calls') /\ Early(mempool', calls', blocks')
         /\ Bounded(Pooled', calls')
         /\ storage' = storage /\ PoolStored => PoolStored'
<1>1. \A c \in Call, s \in Sender : ~Uses(calls'[c], s)
  BY DEF Uses
<1>2. Senders(mempool', calls') /\ PooledIn(mempool') = {} /\ \A chain : Early(mempool', calls', chain)
  BY <1>1, NoSenders
<1>3. Pooled' = {}
  BY <1>2, PooledIsInNext
<1>4. Bounded(Pooled', calls')
  <2>1. IsFiniteSet({}) /\ Cardinality({}) = 0
    BY FS_EmptySet
  <2> QED BY <2>1, <1>3, RoomBounded DEF PoolAssumption
<1>5. ASSUME storage' = storage, PoolStored PROVE PoolStored'
  <2>1. \A c \in Call : calls'[c].tx = None
    BY DEF CallsTyped
  <2>2. storage # None
    BY DEF PoolInv, PoolTyped, PoolAssumption
  <2> QED BY <1>3, <1>5, <2>1, <2>2 DEF PoolStored, StoredOK
<1> QED BY <1>2, <1>4, <1>5

LEMMA StartReaddingStep ==
  ASSUME PoolAssumption, PoolInv, StartReadding
  PROVE  PoolInv' /\ (PoolStored => PoolStored')
<1>1. /\ mempool' = [s \in Sender |-> None] /\ readding' = storage /\ (\A c \in Call : calls[c].pc = "idle")
      /\ count' = [count EXCEPT !.readds = @ + 1]
      /\ UNCHANGED <<storage, calls, blocks, accepted, cleaning, failed, node>>
  BY DEF StartReadding, Idle
<1>2. CallsTyped(calls') /\ \A c \in Call : calls'[c].pc = "idle"
  BY <1>1 DEF PoolInv, PoolTyped
<1>3. /\ Senders(mempool', calls') /\ Early(mempool', calls', blocks') /\ Bounded(Pooled', calls')
      /\ PoolStored => PoolStored'
  BY <1>1, <1>2, ReaddsStep
<1>4. PoolTyped'
  <2>1. count' \in [reverts : Nat, restarts : Nat, readds : Nat]
    BY <1>1 DEF PoolInv, PoolTyped
  <2> QED BY <2>1, <1>1, <1>2 DEF PoolInv, PoolTyped, Height, ChainNonce, Idle
<1> QED BY <1>3, <1>4 DEF PoolInv, PoolSenders

LEMMA RestartStep ==
  ASSUME PoolAssumption, PoolInv, Restart
  PROVE  PoolInv' /\ (PoolStored => PoolStored')
<1>1. /\ mempool' = [s \in Sender |-> None] /\ readding' = storage /\ calls' = [c \in Call |-> NoCall]
      /\ accepted' = None /\ cleaning' = FALSE /\ failed' = {} /\ node' = "up"
      /\ count' = [count EXCEPT !.restarts = @ + 1] /\ UNCHANGED <<storage, blocks>>
  BY DEF Restart
<1>2. CallsTyped(calls') /\ \A c \in Call : calls'[c].pc = "idle"
  BY <1>1 DEF CallsTyped, CallState, NoCall
<1>3. /\ Senders(mempool', calls') /\ Early(mempool', calls', blocks') /\ Bounded(Pooled', calls')
      /\ PoolStored => PoolStored'
  BY <1>1, <1>2, ReaddsStep
<1>4. PoolTyped'
  <2>1. count' \in [reverts : Nat, restarts : Nat, readds : Nat]
    BY <1>1 DEF PoolInv, PoolTyped
  <2> QED BY <2>1, <1>1, <1>2 DEF PoolInv, PoolTyped, Height, ChainNonce, Idle
<1> QED BY <1>3, <1>4 DEF PoolInv, PoolSenders

LEMMA EndReaddingStep ==
  ASSUME PoolAssumption, PoolInv, EndReadding
  PROVE  PoolInv' /\ (PoolStored => PoolStored')
<1>1. /\ readding = <<>> /\ readding' = None
      /\ UNCHANGED <<storage, mempool, calls, blocks, accepted, cleaning, failed, node, count>>
  BY DEF EndReadding
<1>2. Pooled' = Pooled
  BY <1>1, PooledIsIn, PooledIsInNext
<1>3. PoolTyped' /\ PoolSenders' /\ Bounded(Pooled', calls')
  BY <1>1, <1>2 DEF PoolInv, PoolTyped, PoolSenders, Height, ChainNonce
<1>4. ASSUME PoolStored PROVE PoolStored'
  <2>1. TxsOf(readding) = {} /\ readding # None
    <3>1. <<>> \in Seq(Row) /\ DOMAIN <<>> = {}
      OBVIOUS
    <3>2. readding # None
      BY <3>1, <1>1 DEF PoolAssumption
    <3>3. TxsOf(readding) = {}
      BY <3>1, <1>1 DEF TxsOf
    <3> QED BY <3>2, <3>3
  <2> QED BY <2>1, <1>1, <1>2, <1>4 DEF PoolStored, StoredOK
<1> QED BY <1>3, <1>4 DEF PoolInv

\* The first of some rows, and the others.
LEMMA HeadAndTail ==
  ASSUME NEW rows \in Seq(Row), rows # <<>>
  PROVE  /\ Head(rows) \in Row /\ Tail(rows) \in Seq(Row)
         /\ TxsOf(rows) = {Head(rows).tx} \cup TxsOf(Tail(rows))
         /\ Distinct(rows) => Distinct(Tail(rows)) /\ Head(rows).tx \notin TxsOf(Tail(rows))
<1> DEFINE rest == Tail(rows)
<1>1. Len(rows) \in Nat \ {0} /\ Head(rows) = rows[1]
  <2>1. Len(rows) \in Nat /\ (Len(rows) = 0 => rows = <<>>)
    OBVIOUS
  <2> QED BY <2>1
<1>2. /\ rest \in Seq(Row) /\ Len(rest) = Len(rows) - 1 /\ DOMAIN rest = 1..(Len(rows) - 1)
      /\ DOMAIN rows = 1..Len(rows) /\ \A i \in 1..(Len(rows) - 1) : rest[i] = rows[i + 1]
  BY <1>1
<1> HIDE DEF rest
<1>3. /\ 1 \in 1..Len(rows) /\ \A i \in 1..(Len(rows) - 1) : i + 1 \in 1..Len(rows) /\ i + 1 # 1
      /\ \A k \in 1..Len(rows) : k = 1 \/ (k - 1 \in 1..(Len(rows) - 1) /\ (k - 1) + 1 = k)
  BY <1>1
<1>4. Head(rows) \in Row
  BY <1>1, <1>3
<1>5. TxsOf(rows) = {Head(rows).tx} \cup TxsOf(rest)
  <2>1. ASSUME NEW i \in 1..(Len(rows) - 1) PROVE rest[i].tx \in TxsOf(rows)
    <3>1. i + 1 \in DOMAIN rows /\ rest[i] = rows[i + 1]
      BY <1>2, <1>3
    <3> QED BY <3>1 DEF TxsOf
  <2>2. ASSUME NEW k \in 1..Len(rows), k # 1 PROVE rows[k].tx \in TxsOf(rest)
    <3>1. k - 1 \in DOMAIN rest /\ rest[k - 1] = rows[k]
      BY <2>2, <1>2, <1>3
    <3> QED BY <3>1 DEF TxsOf
  <2>3. TxsOf(rows) = {rows[k].tx : k \in 1..Len(rows)} /\ rows[1].tx \in TxsOf(rows)
    BY <1>2, <1>3 DEF TxsOf
  <2>4. TxsOf(rest) = {rest[i].tx : i \in 1..(Len(rows) - 1)}
    BY <1>2 DEF TxsOf
  <2>5. TxsOf(rest) \subseteq TxsOf(rows)
    BY <2>1, <2>4
  <2>6. TxsOf(rows) \subseteq {rows[1].tx} \cup TxsOf(rest)
    BY <2>2, <2>3
  <2> QED BY <2>3, <2>5, <2>6, <1>1
<1>6. ASSUME Distinct(rows) PROVE Distinct(rest) /\ Head(rows).tx \notin TxsOf(rest)
  <2>1. ASSUME NEW i \in 1..(Len(rows) - 1), NEW j \in 1..(Len(rows) - 1), rest[i].tx = rest[j].tx PROVE i = j
    <3>1. i + 1 = j + 1
      BY <2>1, <1>2, <1>3, <1>6 DEF Distinct
    <3> QED BY <3>1
  <2>2. \A i \in 1..(Len(rows) - 1) : rest[i].tx # rows[1].tx
    BY <1>2, <1>3, <1>6 DEF Distinct
  <2> QED BY <2>1, <2>2, <1>1, <1>2 DEF Distinct, TxsOf
<1> QED BY <1>2, <1>4, <1>5, <1>6 DEF rest

\* A transaction that is added again comes last in its sender's mempool.
LEMMA PushedIs ==
  ASSUME PoolAssumption, NEW mp, NEW K, Senders(mp, K), \A c \in Call, s \in Sender : ~Uses(K[c], s),
         NEW chain, NEW tx \in Tx, NonceIn(chain, tx.sender) \in Nat,
         tx.nonce = (IF mp[tx.sender] = None THEN NonceIn(chain, tx.sender) ELSE mp[tx.sender].nonce) + 1,
         tx.kind # "transfer" => \A o \in TxSet(mp[tx.sender]) : o.kind # tx.kind
  PROVE  /\ Senders(Pushed(mp, tx), K) /\ (Early(mp, K, chain) => Early(Pushed(mp, tx), K, chain))
         /\ PooledIn(Pushed(mp, tx)) = PooledIn(mp) \cup {tx}
<1> DEFINE s == tx.sender
           m == Opened(mp[s])
           p == [m EXCEPT !.txs = Append(@, tx), !.nonce = tx.nonce]
           n == NonceIn(chain, s)
<1>1. s \in Sender /\ Pushed(mp, tx) = Put(mp, s, p) /\ tx.nonce \in Nat \ {0}
  BY DEF PoolAssumption, Pushed, Put
<1>2. SenderOK(s, mp[s], K)
  BY <1>1 DEF Senders
<1>3. /\ Sound(s, m, K) /\ (mp[s] = None => m.txs = <<>> /\ m = New) /\ (mp[s] # None => m = mp[s])
  BY <1>2, OpenedOK DEF Opened
<1>4. Users(K, s) = {} /\ Holders(K, s) = {} /\ Taken(K, s) = 0 /\ m.users = 0 /\ Cardinality(Users(K, s)) = 0
  <2>1. Users(K, s) = {}
    BY <1>1 DEF Users
  <2>2. Cardinality(Users(K, s)) = 0
    BY <2>1, FS_EmptySet
  <2> HIDE DEF m
  <2> QED BY <2>1, <2>2, <1>3 DEF Holders, Taken, Sound
<1> HIDE DEF m
<1>5. /\ m \in Mempool /\ ~m.corrupt /\ m.txs \in Seq(Tx) /\ m.nonce \in Nat \cup {None} /\ Len(m.txs) \in Nat
      /\ m.users \in Nat /\ m.locked \in BOOLEAN
  BY <1>3 DEF Sound, Run, Mempool
<1>6. /\ Append(m.txs, tx) \in Seq(Tx) /\ ToSet(Append(m.txs, tx)) = ToSet(m.txs) \cup {tx}
      /\ Append(m.txs, tx) # <<>>
  BY <1>5, AppendedTo
<1>7. Has(p, Append(m.txs, tx), tx.nonce, m.users, m.locked)
  BY <1>1, <1>5, <1>6, FieldsSet
<1> HIDE DEF p
<1>8. /\ Len(p.txs) = Len(m.txs) + 1 /\ p.txs[Len(m.txs) + 1] = tx
      /\ \A i \in 1..Len(m.txs) : p.txs[i] = m.txs[i]
      /\ \A i \in 1..Len(p.txs) : i \in 1..Len(m.txs) \/ i = Len(m.txs) + 1
  BY <1>5, <1>7 DEF Has
<1>9. p # None /\ tx.nonce # None /\ p.txs # <<>>
  BY <1>1, <1>6, <1>7 DEF Has, PoolAssumption
<1>10. /\ Base(p, K, s) = tx.nonce - (Len(m.txs) + 1)
       /\ mp[s] # None => m.nonce \in Nat /\ m.nonce # None /\ Base(p, K, s) = Base(m, K, s) /\ tx.nonce = m.nonce + 1
       /\ mp[s] = None => Len(m.txs) = 0 /\ Base(p, K, s) = n
  <2>1. Base(p, K, s) = tx.nonce - (Len(m.txs) + 1)
    BY <1>1, <1>4, <1>5, <1>7, <1>8 DEF Base, Has
  <2>2. ASSUME mp[s] # None
        PROVE  m.nonce \in Nat /\ m.nonce # None /\ Base(p, K, s) = Base(m, K, s) /\ tx.nonce = m.nonce + 1
    <3>1. m.txs # <<>>
      BY <2>2, <1>2, <1>3, <1>4 DEF SenderOK
    <3>2. 1 \in 1..Len(m.txs)
      <4>1. Len(m.txs) = 0 => m.txs = <<>>
        BY <1>5
      <4> QED BY <4>1, <3>1, <1>5
    <3>3. m.nonce # None /\ m.nonce \in Nat
      BY <3>2, <1>3, <1>5 DEF Sound, Run
    <3>4. tx.nonce = m.nonce + 1
      BY <2>2, <1>3
    <3> QED BY <3>3, <3>4, <2>1, <1>4, <1>5 DEF Base
  <2>3. ASSUME mp[s] = None PROVE Len(m.txs) = 0 /\ Base(p, K, s) = n
    <3>1. Len(m.txs) = 0 /\ tx.nonce = n + 1 /\ n \in Nat
      BY <2>3, <1>3
    <3> HIDE DEF n
    <3> QED BY <3>1, <2>1
  <2> QED BY <2>1, <2>2, <2>3
<1> HIDE DEF n
<1>11. Run(s, p, K)
  <2>1. p.txs[Len(m.txs) + 1].nonce = Base(p, K, s) + (Len(m.txs) + 1) /\ tx.sender = s
    BY <1>1, <1>5, <1>8, <1>10
  <2>2. ASSUME NEW i \in 1..Len(m.txs) PROVE m.txs[i].sender = s /\ m.txs[i].nonce = Base(p, K, s) + i
    <3>1. mp[s] # None
      BY <1>10
    <3> QED BY <3>1, <1>3, <1>10 DEF Sound, Run
  <2>3. p \in Mempool /\ ~p.corrupt /\ p.nonce # None
    BY <1>7, <1>9 DEF Has
  <2> HIDE DEF s
  <2> QED BY <2>1, <2>2, <2>3, <1>8 DEF Run
<1>12. Kinds(s, p, K)
  <2>1. \A i \in 1..Len(m.txs) : tx.kind # "transfer" => m.txs[i].kind # tx.kind
    <3>1. SUFFICES ASSUME NEW i \in 1..Len(m.txs), tx.kind # "transfer" PROVE m.txs[i].kind # tx.kind
      OBVIOUS
    <3>2. mp[s] # None
      BY <1>10
    <3>3. m.txs[i] \in TxSet(mp[s])
      <4>1. i \in DOMAIN m.txs
        BY <1>5
      <4> QED BY <4>1, <3>2, <1>3 DEF TxSet, ToSet
    <3> QED BY <3>1, <3>3
  <2>2. ASSUME NEW i \in 1..Len(p.txs), NEW j \in 1..Len(p.txs),
               p.txs[i].kind # "transfer", p.txs[i].kind = p.txs[j].kind
        PROVE  i = j
    <3>1. CASE i \in 1..Len(m.txs) /\ j \in 1..Len(m.txs)
      BY <2>2, <3>1, <1>3, <1>8 DEF Sound, Kinds
    <3>2. CASE ~(i \in 1..Len(m.txs) /\ j \in 1..Len(m.txs))
      BY <2>1, <2>2, <3>2, <1>8
    <3> QED BY <3>1, <3>2
  <2> QED BY <2>2, <1>4 DEF Kinds
<1>13. Locks(s, p, K)
  BY <1>3, <1>4, <1>7 DEF Locks, Sound, Has
<1>14. SenderOK(s, p, K)
  BY <1>4, <1>7, <1>9, <1>11, <1>12, <1>13 DEF SenderOK, Sound, Has
<1>15. Begins(s, mp[s], K, n) => Begins(s, p, K, n)
  <2>1. CASE mp[s] = None
    <3>1. n \in Nat
      BY DEF n
    <3> QED BY <2>1, <3>1, <1>10 DEF Begins
  <2>2. CASE mp[s] # None
    BY <2>2, <1>3, <1>10 DEF Begins
  <2> QED BY <2>1, <2>2
<1>16. /\ Senders(Put(mp, s, p), K)
       /\ \A c : Early(mp, K, c) /\ Begins(s, p, K, NonceIn(c, s)) => Early(Put(mp, s, p), K, c)
       /\ PooledIn(Put(mp, s, p)) = (PooledIn(mp) \ TxSet(mp[s])) \cup TxSet(p)
  <2> HIDE DEF s
  <2> QED BY <1>1, <1>14, OneSender
<1>17. Early(mp, K, chain) => Early(Pushed(mp, tx), K, chain)
  <2>1. Early(mp, K, chain) => Begins(s, mp[s], K, n)
    BY <1>1 DEF Early, n
  <2> QED BY <2>1, <1>1, <1>15, <1>16 DEF n
<1>18. PooledIn(Pushed(mp, tx)) = PooledIn(mp) \cup {tx}
  <2>1. TxSet(p) = ToSet(m.txs) \cup {tx}
    BY <1>6, <1>7, <1>9 DEF TxSet, Has
  <2>2. ToSet(m.txs) = TxSet(mp[s])
    BY <1>3 DEF TxSet, ToSet
  <2>3. TxSet(mp[s]) \subseteq PooledIn(mp)
    BY <1>1 DEF PooledIn
  <2> QED BY <2>1, <2>2, <2>3, <1>1, <1>16
<1> QED BY <1>1, <1>16, <1>17, <1>18

\* A row that is read: its transaction is pushed, refused, or takes another's
\* place.
LEMMA ReaddNextStep ==
  ASSUME PoolAssumption, PoolInv, ReaddNext
  PROVE  PoolInv' /\ (PoolStored => PoolStored')
<1> DEFINE tx == Head(readding).tx
           s == tx.sender
           rest == Tail(readding)
<1>1. /\ readding \in Seq(Row) /\ readding # <<>> /\ readding # None /\ readding' = rest
      /\ \A c \in Call : calls[c].pc = "idle"
      /\ UNCHANGED <<calls, blocks, accepted, cleaning, failed, node, count>>
  BY DEF ReaddNext, PoolInv, PoolTyped, Idle
<1>2. /\ tx \in Tx /\ rest \in Seq(Row) /\ TxsOf(readding) = {tx} \cup TxsOf(rest)
      /\ Distinct(readding) => Distinct(rest) /\ tx \notin TxsOf(rest)
  BY <1>1, HeadAndTail DEF Row
<1>3. s \in Sender /\ NonceIn(blocks, s) \in Nat /\ rest # None
  BY <1>2, ChainNonceType DEF PoolAssumption, ChainNonce
<1>4. Senders(mempool, calls) /\ \A c \in Call, t \in Sender : ~Uses(calls[c], t)
  BY <1>1 DEF PoolInv, PoolSenders, Uses
<1>5. Passed(calls) = {} /\ Cardinality(Passed(calls)) = 0
  BY <1>1, FS_EmptySet DEF Passed
<1>6. \A t \in Sender : Unlocked(t)
  <2>1. SUFFICES ASSUME NEW t \in Sender, mempool[t] # None PROVE ~mempool[t].locked
    BY DEF Unlocked
  <2>2. Sound(t, mempool[t], calls) /\ Users(calls, t) = {}
    BY <2>1, <1>4 DEF Senders, SenderOK, Users
  <2> QED BY <2>2 DEF Sound, Locks, Holders
<1>7. Takes(tx) => /\ tx.kind # "transfer" => \A o \in TxSet(mempool[s]) : o.kind # tx.kind
                   /\ tx.nonce = (IF mempool[s] = None THEN NonceIn(blocks, s) ELSE mempool[s].nonce) + 1
  <2>1. ToSet(Txs(s)) = TxSet(mempool[s])
    BY <1>3, PooledIsIn
  <2> QED BY <2>1 DEF Takes, MayEnter, NoneOfKind, ChainNonce
<1>8. IsFiniteSet(Pooled) /\ Cardinality(Pooled) \in Nat
  BY FS_CardinalityType DEF PoolInv, Bounded
\* What has to be shown of the step.
<1> DEFINE Goal == /\ Senders(mempool', calls) /\ (Early(mempool, calls, blocks) => Early(mempool', calls, blocks))
                   /\ storage' \in Seq(Row) /\ Bounded(Pooled', calls)
                   /\ PoolStored => StoredOK(storage', Pooled', calls, failed \cup {accepted}, rest)
<1>9. ASSUME Takes(tx), Size < MaxTransactionsInPool, mempool' = Pushed(mempool, tx), storage' = storage
      PROVE  Goal
  <2>1. /\ Senders(mempool', calls) /\ (Early(mempool, calls, blocks) => Early(mempool', calls, blocks))
        /\ Pooled' = Pooled \cup {tx}
    <3> HIDE DEF tx
    <3> QED BY <1>2, <1>3, <1>4, <1>7, <1>9, PushedIs, PooledIsIn, PooledIsInNext
  <2>2. Bounded(Pooled', calls)
    <3>1. /\ IsFiniteSet(Pooled') /\ Cardinality(Pooled') \in Nat
          /\ Cardinality(Pooled') <= Cardinality(Pooled) + 1
      BY <2>1, <1>8, OneMore
    <3>2. Cardinality(Pooled) < MaxTransactionsInPool
      BY <1>9 DEF Size
    <3>3. Cardinality(Call) \in Nat \ {0}
      BY PassedFinite, FS_EmptySet DEF PoolAssumption
    <3> QED BY <3>1, <3>2, <3>3, <1>5, <1>8 DEF Bounded, PoolAssumption
  <2>3. PoolStored => StoredOK(storage', Pooled', calls, failed \cup {accepted}, rest)
    <3>1. \A c \in Call : calls[c].tx = None
      BY <1>1 DEF PoolInv, PoolTyped, CallsTyped
    <3> HIDE DEF tx, rest
    <3> QED BY <3>1, <2>1, <1>1, <1>2, <1>3, <1>9 DEF PoolStored, StoredOK
  <2>4. storage' \in Seq(Row)
    BY <1>9 DEF PoolInv, PoolTyped
  <2> QED BY <2>1, <2>2, <2>3, <2>4
<1>10. ASSUME Refused(tx), mempool' = mempool PROVE Goal
  <2>1. Pooled' = Pooled
    BY <1>10, PooledIsIn, PooledIsInNext
  <2>2. storage' \in Seq(Row) /\ TxsOf(storage') = TxsOf(storage) \ {tx} /\ (Distinct(storage) => Distinct(storage'))
    <3> HIDE DEF tx
    <3> QED BY <1>10, DeletedIs DEF Refused, PoolInv, PoolTyped
  <2>3. PoolStored => StoredOK(storage', Pooled', calls, failed \cup {accepted}, rest)
    <3>1. \A c \in Call : calls[c].tx = None
      BY <1>1 DEF PoolInv, PoolTyped, CallsTyped
    <3> HIDE DEF tx, rest
    <3> QED BY <3>1, <2>1, <2>2, <1>1, <1>2, <1>3 DEF PoolStored, StoredOK
  <2> QED BY <2>1, <2>2, <2>3, <1>4, <1>10 DEF PoolInv
<1>11. ASSUME Takes(tx), NEW lowest \in Lowest,
              IF s # lowest.sender
              THEN mempool' = Pushed(Without(lowest), tx) /\ storage' = Deleted(storage, Taking(lowest).removed)
              ELSE mempool' = Without(lowest) /\ storage' = Deleted(storage, Taking(lowest).removed \union {tx})
       PROVE  Goal
  <2> DEFINE R == Taking(lowest).removed
             pool == Without(lowest)
  <2>1. lowest \in Pooled /\ lowest.sender \in Sender
    BY <1>4, PooledIsIn, PooledInIs DEF Lowest, PoolAssumption
  <2>2. /\ Senders(pool, calls) /\ (Early(mempool, calls, blocks) => Early(pool, calls, blocks))
        /\ lowest \in R /\ R \subseteq Pooled /\ PooledIn(pool) = Pooled \ R
    BY <2>1, <1>4, <1>6, WithoutIs
  <2>3. /\ IsFiniteSet(Pooled \ R) /\ Cardinality(Pooled \ R) \in Nat
        /\ Cardinality(Pooled \ R) + 1 <= Cardinality(Pooled)
    <3>1. IsFiniteSet(Pooled \ {lowest}) /\ Cardinality(Pooled \ {lowest}) = Cardinality(Pooled) - 1
      BY <2>1, <1>8, FS_RemoveElement
    <3>2. Pooled \ R \subseteq Pooled \ {lowest}
      BY <2>2
    <3>3. /\ IsFiniteSet(Pooled \ R) /\ Cardinality(Pooled \ R) \in Nat
          /\ Cardinality(Pooled \ R) <= Cardinality(Pooled \ {lowest})
      BY <3>1, <3>2, FS_Subset, FS_CardinalityType
    <3> QED BY <3>1, <3>3, <1>8
  <2>4. Cardinality(Pooled) <= MaxTransactionsInPool + Cardinality(Call) - 1 /\ Cardinality(Call) \in Nat
    BY <1>5, <1>8, PassedFinite DEF PoolInv, Bounded
  <2>5. s # lowest.sender => pool[s] = mempool[s]
    BY <1>3 DEF Without, Put, PoolInv, PoolSenders, Senders
  <2>6. \A c \in Call : calls[c].tx = None
    BY <1>1 DEF PoolInv, PoolTyped, CallsTyped
  <2>7. CASE s # lowest.sender
    <3> HIDE DEF pool, R
    <3>1. mempool' = Pushed(pool, tx) /\ storage' = Deleted(storage, R)
      BY <1>11, <2>7 DEF pool, R
    <3>2. /\ Senders(mempool', calls) /\ (Early(pool, calls, blocks) => Early(mempool', calls, blocks))
          /\ Pooled' = (Pooled \ R) \cup {tx}
      <4>1. /\ tx.nonce = (IF pool[s] = None THEN NonceIn(blocks, s) ELSE pool[s].nonce) + 1
            /\ tx.kind # "transfer" => \A o \in TxSet(pool[s]) : o.kind # tx.kind
        <5> HIDE DEF s
        <5> QED BY <1>7, <1>11, <2>5, <2>7
      <4>2. /\ Senders(Pushed(pool, tx), calls)
            /\ Early(pool, calls, blocks) => Early(Pushed(pool, tx), calls, blocks)
            /\ PooledIn(Pushed(pool, tx)) = PooledIn(pool) \cup {tx}
        <5> HIDE DEF tx
        <5> QED BY <1>2, <1>3, <1>4, <2>2, <4>1, PushedIs
      <4> QED BY <3>1, <4>2, <2>2, PooledIsInNext
    <3>3. Bounded(Pooled', calls)
      <4>1. /\ IsFiniteSet(Pooled') /\ Cardinality(Pooled') \in Nat
            /\ Cardinality(Pooled') <= Cardinality(Pooled \ R) + 1
        BY <3>2, <2>3, OneMore
      <4> QED BY <4>1, <2>3, <2>4, <1>5, <1>8 DEF Bounded, PoolAssumption
    <3>4. /\ storage' \in Seq(Row) /\ TxsOf(storage') = TxsOf(storage) \ R
          /\ Distinct(storage) => Distinct(storage')
      BY <3>1, DeletedIs DEF PoolInv, PoolTyped
    <3>5. PoolStored => StoredOK(storage', Pooled', calls, failed \cup {accepted}, rest)
      <4> HIDE DEF tx, rest
      <4> QED BY <3>2, <3>4, <2>2, <2>6, <1>1, <1>2, <1>3 DEF PoolStored, StoredOK
    <3> QED BY <3>2, <3>3, <3>4, <3>5, <2>2
  <2>8. CASE s = lowest.sender
    <3> HIDE DEF pool, R
    <3>1. mempool' = pool /\ storage' = Deleted(storage, R \cup {tx})
      BY <1>11, <2>8 DEF pool, R
    <3>2. Pooled' = Pooled \ R
      BY <3>1, <2>2, PooledIsInNext
    <3>3. Bounded(Pooled', calls)
      BY <3>2, <2>3, <2>4, <1>5, <1>8 DEF Bounded, PoolAssumption
    <3>4. /\ storage' \in Seq(Row) /\ TxsOf(storage') = TxsOf(storage) \ (R \cup {tx})
          /\ Distinct(storage) => Distinct(storage')
      BY <3>1, DeletedIs DEF PoolInv, PoolTyped
    <3>5. PoolStored => StoredOK(storage', Pooled', calls, failed \cup {accepted}, rest)
      <4> HIDE DEF tx, rest
      <4> QED BY <3>2, <3>4, <2>2, <2>6, <1>1, <1>2, <1>3 DEF PoolStored, StoredOK
    <3> QED BY <3>1, <3>3, <3>4, <3>5, <2>2
  <2> QED BY <2>7, <2>8
<1>12. Goal
  <2>1. \/ Takes(tx) /\ Size < MaxTransactionsInPool /\ mempool' = Pushed(mempool, tx) /\ storage' = storage
        \/ Refused(tx) /\ mempool' = mempool
        \/ /\ Takes(tx)
           /\ \E lowest \in Lowest :
                 IF s # lowest.sender
                 THEN mempool' = Pushed(Without(lowest), tx) /\ storage' = Deleted(storage, Taking(lowest).removed)
                 ELSE mempool' = Without(lowest) /\ storage' = Deleted(storage, Taking(lowest).removed \union {tx})
    BY DEF ReaddNext, Without, Put, Taking
  <2> HIDE DEF Goal, tx, s
  <2> QED BY <2>1, <1>9, <1>10, <1>11
<1>13. PoolTyped'
  BY <1>1, <1>2, <1>12 DEF PoolInv, PoolTyped, Height, ChainNonce, Idle
<1>14. PoolSenders'
  BY <1>1, <1>12 DEF PoolInv, PoolSenders
<1>15. PoolStored => PoolStored'
  BY <1>1, <1>12 DEF PoolStored
<1> QED BY <1>1, <1>12, <1>13, <1>14, <1>15 DEF PoolInv

LEMMA TrimOrRoomStep ==
  ASSUME PoolAssumption, PoolInv, NEW c \in Call, Trim(c) \/ MakeRoom(c)
  PROVE  PoolInv' /\ (PoolStored => PoolStored')
<1>1. calls[c].pc = "fee" /\ Others /\ readding = None
  BY NotReadding DEF Trim, MakeRoom, PoolInv
<1>2. CASE Trim(c)
  <2>1. TrimStep /\ UNCHANGED <<calls, node>>
    BY <1>2 DEF Trim
  <2>2. cleaning' \in BOOLEAN /\ UNCHANGED <<blocks, accepted, failed, readding, count>>
    BY <1>1 DEF Others, PoolInv, PoolTyped
  <2> QED BY <2>1, <2>2, <1>1, TrimsStep
<1>3. CASE MakeRoom(c)
  <2>1. PICK lowest \in Lowest :
          \/ FailEarly(c)
          \/ Unlocked(lowest.sender) /\ RemoveFrom(lowest) /\ To(c, "enter") /\ UNCHANGED node
    BY <1>3 DEF MakeRoom
  <2>2. lowest \in Pooled /\ Trimmed
    BY <1>3 DEF Lowest, MakeRoom
  <2> QED BY <2>1, <2>2, <1>1, FailEarlyStep, RoomMadeStep
<1> QED BY <1>2, <1>3

LEMMA CleanUpStep ==
  ASSUME PoolAssumption, PoolInv, CleanUp
  PROVE  PoolInv' /\ (PoolStored => PoolStored')
<1>1. /\ readding = None /\ UNCHANGED <<calls, blocks, accepted, failed, readding, node, count>>
      /\ cleaning' \in BOOLEAN
  BY DEF CleanUp
<1>2. CASE TrimStep
  BY <1>1, <1>2, TrimsStep
<1>3. CASE UNCHANGED <<mempool, storage>>
  <2>1. Pooled' = Pooled
    BY <1>3, PooledIsIn, PooledIsInNext
  <2>2. PoolTyped'
    BY <1>1, <1>3, TypedKept DEF PoolInv, PoolTyped
  <2> QED BY <2>1, <2>2, <1>1, <1>3 DEF PoolInv, PoolSenders, PoolStored
<1> QED BY <1>2, <1>3 DEF CleanUp

\* Every step keeps the invariant, and what is stored unless an addition races
\* a removal.
LEMMA PoolStep ==
  ASSUME PoolAssumption, PoolInv, [Next]_vars
  PROVE  PoolInv' /\ (~Racing /\ PoolStored => PoolStored')
<1>1. ASSUME NEW c \in Call, NEW tx \in Tx, AddTransaction(c, tx)
      PROVE  PoolInv' /\ (~Racing /\ PoolStored => PoolStored')
  BY <1>1, AddTransactionStep
<1>2. ASSUME NEW c \in Call, Unfitting(c) PROVE PoolInv' /\ (PoolStored => PoolStored')
  BY <1>2, FailEarlyStep DEF Unfitting
<1>3. ASSUME NEW c \in Call, Trim(c) \/ MakeRoom(c) PROVE PoolInv' /\ (PoolStored => PoolStored')
  BY <1>3, TrimOrRoomStep
<1>4. ASSUME NEW c \in Call, Enter(c) \/ Verify(c) \/ Apply(c) \/ Push(c)
      PROVE  PoolInv' /\ (PoolStored => PoolStored')
  BY <1>4, EnterStep, VerifyStep, ApplyStep, PushStep
<1>5. ASSUME NEW c \in Call, RevertBlock(c) PROVE PoolInv' /\ (~Racing /\ PoolStored => PoolStored')
  BY <1>5, RevertBlockStep
<1>6. ASSUME NEW tx \in Tx \cup {None}, ApplyBlock(tx) PROVE PoolInv' /\ (~Racing /\ PoolStored => PoolStored')
  BY <1>6, ApplyBlockStep
<1>7. ASSUME RemoveForged \/ CleanUp \/ GetBlockCandidateTransactions PROVE PoolInv' /\ (PoolStored => PoolStored')
  BY <1>7, RemoveForgedStep, CleanUpStep, CollatorStep
<1>8. ASSUME NEW tx \in Tx, RemoveFailed(tx) PROVE PoolInv' /\ (PoolStored => PoolStored')
  BY <1>8, RemoveFailedStep
<1>9. ASSUME StartReadding \/ Restart \/ ReaddNext \/ EndReadding PROVE PoolInv' /\ (PoolStored => PoolStored')
  BY <1>9, StartReaddingStep, RestartStep, ReaddNextStep, EndReaddingStep
<1>10. ASSUME UNCHANGED vars PROVE PoolInv' /\ (PoolStored => PoolStored')
  <2>1. Pooled' = Pooled
    BY <1>10, PooledIsIn, PooledIsInNext DEF vars
  <2> QED BY <1>10, <2>1 DEF vars, PoolInv, PoolTyped, PoolSenders, PoolStored, Height, ChainNonce, Idle
<1> QED BY <1>1, <1>2, <1>3, <1>4, <1>5, <1>6, <1>7, <1>8, <1>9, <1>10 DEF Next, AddStep

LEMMA PoolStart ==
  ASSUME PoolAssumption, Init
  PROVE  PoolInv /\ PoolStored
<1>1. \A c \in Call : calls[c] = NoCall /\ calls[c].tx = None /\ calls[c].pc = "idle"
  BY DEF Init, NoCall
<1>2. Senders(mempool, calls) /\ PooledIn(mempool) = {} /\ \A chain : Early(mempool, calls, chain)
  <2>1. \A c \in Call, s \in Sender : ~Uses(calls[c], s)
    BY <1>1 DEF Uses
  <2> QED BY <2>1, NoSenders DEF Init
<1>3. Pooled = {}
  BY <1>2, PooledIsIn
<1>4. Bounded(Pooled, calls)
  BY <1>3, FS_EmptySet, RoomBounded DEF PoolAssumption
<1>5. PoolTyped
  <2>1. CallsTyped(calls)
    BY <1>1 DEF Init, CallsTyped, CallState, NoCall
  <2>2. storage = <<>> /\ storage \in Seq(Row) /\ blocks \in Seq(Tx \cup {None}) /\ Len(blocks) = 0
    BY DEF Init
  <2>3. count \in [reverts : Nat, restarts : Nat, readds : Nat] /\ node = "up"
    BY DEF Init
  <2>4. accepted = None /\ cleaning = FALSE /\ failed = {} /\ readding = None
    BY DEF Init
  <2>5. Height <= MaxHeight
    BY <2>2 DEF Height, PoolAssumption
  <2>6. node \in {"up", "corrupted"} /\ accepted \in Tx \cup {None} /\ failed \subseteq Tx /\ cleaning \in BOOLEAN
    BY <2>3, <2>4
  <2>7. readding \in Seq(Row) \cup {None}
    BY <2>4
  <2> QED BY <2>1, <2>2, <2>3, <2>4, <2>5, <2>6, <2>7 DEF PoolTyped
<1>6. PoolStored
  <2>1. TxsOf(storage) = {} /\ Distinct(storage) /\ readding = None
    BY DEF Init, TxsOf, Distinct
  <2> QED BY <2>1, <1>1, <1>3 DEF PoolStored, StoredOK
<1> QED BY <1>2, <1>4, <1>5, <1>6 DEF PoolInv, PoolSenders

-----------------------------------------------------------------------------
(* What it gives *)

LEMMA Typing ==
  ASSUME PoolAssumption, PoolInv
  PROVE  TypeOK
<1>1. Stored \subseteq Tx
  <2>1. storage \in Seq(Row)
    BY DEF PoolInv, PoolTyped
  <2>2. ASSUME NEW i \in DOMAIN storage PROVE storage[i].tx \in Tx
    <3>1. storage[i] \in Row
      BY <2>1
    <3> QED BY <3>1 DEF Row
  <2> QED BY <2>2 DEF Stored
<1>2. ASSUME NEW s \in Sender, mempool[s] # None
      PROVE  /\ ToSet(mempool[s].txs) \subseteq {tx \in Tx : tx.sender = s}
             /\ mempool[s].nonce \in Nat \union {None} /\ mempool[s].users \in 0..Cardinality(Call)
             /\ mempool[s].locked \in BOOLEAN /\ mempool[s].corrupt \in BOOLEAN
  <2>1. Sound(s, mempool[s], calls) /\ mempool[s] \in Mempool
    BY <1>2 DEF PoolInv, PoolSenders, Senders, SenderOK, Sound, Run
  <2>2. ToSet(mempool[s].txs) \subseteq {tx \in Tx : tx.sender = s}
    <3>1. ToSet(mempool[s].txs) = TxSet(mempool[s])
      BY <1>2 DEF TxSet
    <3> QED BY <3>1, PooledInIs DEF PoolInv, PoolSenders
  <2>3. mempool[s].users \in 0..Cardinality(Call)
    <3>1. mempool[s].users = Cardinality(Users(calls, s)) /\ Users(calls, s) \subseteq Call /\ IsFiniteSet(Call)
      BY <2>1 DEF Sound, Users, PoolAssumption
    <3>2. /\ Cardinality(Users(calls, s)) <= Cardinality(Call) /\ Cardinality(Users(calls, s)) \in Nat
          /\ Cardinality(Call) \in Nat
      BY <3>1, FS_Subset, FS_CardinalityType
    <3> QED BY <3>1, <3>2
  <2> QED BY <2>1, <2>2, <2>3 DEF Mempool
<1>3. calls \in [Call -> [tx : Tx \union {None}, reverted : BOOLEAN,
                          pc : {"idle", "fee", "enter", "waiting", "verified", "applied"}]]
  <2>1. CallState = [tx : Tx \union {None}, reverted : BOOLEAN,
                     pc : {"idle", "fee", "enter", "waiting", "verified", "applied"}]
    BY DEF CallState
  <2> QED BY <2>1 DEF PoolInv, PoolTyped, CallsTyped
<1> QED BY <1>1, <1>2, <1>3 DEF TypeOK, PoolInv, PoolTyped

LEMMA Consecutive ==
  ASSUME PoolAssumption, PoolInv
  PROVE  NoncesAreConsecutive /\ OneOfAKind /\ NextOrStale
<1>1. ASSUME NEW s \in Sender, mempool[s] # None
      PROVE  /\ Sound(s, mempool[s], calls) /\ Txs(s) = mempool[s].txs /\ Txs(s) \in Seq(Tx)
             /\ DOMAIN Txs(s) = 1..Len(Txs(s)) /\ Len(Txs(s)) \in Nat
             /\ Taken(calls, s) \in Nat /\ mempool[s].nonce \in Nat \cup {None}
             /\ \A i \in 1..Len(Txs(s)) : /\ Txs(s)[i].nonce = Base(mempool[s], calls, s) + i
                                          /\ Base(mempool[s], calls, s) \in Int /\ mempool[s].nonce \in Nat
             /\ Txs(s) # <<>> => 1 \in 1..Len(Txs(s)) /\ Len(Txs(s)) \in 1..Len(Txs(s))
  <2>1. Sound(s, mempool[s], calls) /\ Txs(s) = mempool[s].txs
    BY <1>1 DEF PoolInv, PoolSenders, Senders, SenderOK, Txs
  <2>2. Txs(s) \in Seq(Tx) /\ mempool[s].nonce \in Nat \cup {None}
    BY <2>1 DEF Sound, Run, Mempool
  <2>3. DOMAIN Txs(s) = 1..Len(Txs(s)) /\ Len(Txs(s)) \in Nat /\ (Len(Txs(s)) = 0 => Txs(s) = <<>>)
    BY <2>2
  <2>4. Taken(calls, s) \in Nat
    BY DEF Taken
  <2>5. ASSUME NEW i \in 1..Len(Txs(s))
        PROVE  /\ Txs(s)[i].nonce = Base(mempool[s], calls, s) + i
               /\ Base(mempool[s], calls, s) \in Int /\ mempool[s].nonce \in Nat
    <3>1. Txs(s)[i].nonce = Base(mempool[s], calls, s) + i /\ mempool[s].nonce # None
      BY <2>1 DEF Sound, Run
    <3> QED BY <3>1, <2>1, <2>2, <2>3, <2>4 DEF Base
  <2> QED BY <2>1, <2>2, <2>3, <2>4, <2>5
<1>2. NoncesAreConsecutive
  <2>1. SUFFICES ASSUME NEW s \in Sender, mempool[s] # None
                 PROVE  /\ ~mempool[s].corrupt
                        /\ \A i \in DOMAIN Txs(s) : i > 1 => Txs(s)[i].nonce = Txs(s)[i - 1].nonce + 1
                        /\ ~mempool[s].locked /\ Txs(s) # <<>> => Last(Txs(s)).nonce = mempool[s].nonce
    BY DEF NoncesAreConsecutive
  <2>2. ~mempool[s].corrupt
    BY <2>1, <1>1 DEF Sound, Run
  <2>3. ASSUME NEW i \in DOMAIN Txs(s), i > 1 PROVE Txs(s)[i].nonce = Txs(s)[i - 1].nonce + 1
    <3>1. i \in 1..Len(Txs(s)) /\ i - 1 \in 1..Len(Txs(s)) /\ i \in Int
      BY <2>1, <2>3, <1>1
    <3>2. Txs(s)[i].nonce = Base(mempool[s], calls, s) + i /\ Txs(s)[i - 1].nonce = Base(mempool[s], calls, s) + (i - 1)
          /\ Base(mempool[s], calls, s) \in Int
      BY <2>1, <3>1, <1>1
    <3> QED BY <3>1, <3>2
  <2>4. ASSUME ~mempool[s].locked, Txs(s) # <<>> PROVE Last(Txs(s)).nonce = mempool[s].nonce
    <3>1. /\ Len(Txs(s)) \in 1..Len(Txs(s)) /\ Len(Txs(s)) \in Nat /\ Txs(s) = mempool[s].txs
          /\ Txs(s)[Len(Txs(s))].nonce = Base(mempool[s], calls, s) + Len(Txs(s)) /\ mempool[s].nonce \in Nat
      BY <2>1, <2>4, <1>1
    <3>2. Taken(calls, s) = 0
      BY <2>1, <2>4, <1>1, NothingTaken
    <3> QED BY <3>1, <3>2 DEF Last, Base
  <2> QED BY <2>2, <2>3, <2>4
<1>3. OneOfAKind
  <2>1. SUFFICES ASSUME NEW s \in Sender, NEW i \in DOMAIN Txs(s), NEW j \in DOMAIN Txs(s),
                        Txs(s)[i].kind # "transfer", Txs(s)[i].kind = Txs(s)[j].kind
                 PROVE  i = j
    BY DEF OneOfAKind
  <2>2. mempool[s] # None
    BY DEF Txs
  <2>3. Txs(s) = mempool[s].txs /\ Kinds(s, mempool[s], calls)
    BY <2>2, <1>1 DEF Sound
  <2>4. i \in 1..Len(mempool[s].txs) /\ j \in 1..Len(mempool[s].txs)
    BY <2>2, <2>3, <1>1
  <2> QED BY <2>1, <2>3, <2>4 DEF Kinds
<1>4. NextOrStale
  <2>1. SUFFICES ASSUME count.reverts = 0, NEW s \in Sender, Txs(s) # <<>>
                 PROVE  Head(Txs(s)).nonce <= ChainNonce(s) + 1
    BY DEF NextOrStale
  <2>2. mempool[s] # None
    BY <2>1 DEF Txs
  <2>3. /\ 1 \in 1..Len(Txs(s)) /\ Txs(s)[1].nonce = Base(mempool[s], calls, s) + 1
        /\ Base(mempool[s], calls, s) \in Int /\ mempool[s].nonce \in Nat /\ Head(Txs(s)) = Txs(s)[1]
    BY <2>1, <2>2, <1>1
  <2>4. Base(mempool[s], calls, s) <= ChainNonce(s)
    BY <2>1, <2>2, <2>3 DEF PoolInv, PoolSenders, Early, Begins, ChainNonce, PoolAssumption
  <2>5. ChainNonce(s) \in Nat
    BY ChainNonceType
  <2> QED BY <2>3, <2>4, <2>5
<1> QED BY <1>2, <1>3, <1>4

LEMMA LimitAndSenders ==
  ASSUME PoolAssumption, PoolInv
  PROVE  PoolLimit /\ SendersGivenUp
<1>1. PoolLimit
  <2>1. Cardinality(Pooled) \in Nat
    BY FS_CardinalityType DEF PoolInv, Bounded
  <2> QED BY <2>1, PassedFinite DEF PoolInv, Bounded, PoolLimit, Size, PoolAssumption
<1>2. SendersGivenUp
  <2>1. SUFFICES ASSUME NEW s \in Sender, mempool[s] # None
                 PROVE  /\ Txs(s) # <<>> \/ mempool[s].users > 0
                        /\ mempool[s].users = Cardinality(Users(calls, s))
    BY DEF SendersGivenUp, Users, Uses
  <2> QED BY <2>1 DEF PoolInv, PoolSenders, Senders, SenderOK, Sound, Txs
<1> QED BY <1>1, <1>2

LEMMA StorageIs ==
  ASSUME PoolAssumption, PoolInv, PoolStored
  PROVE  StorageIsMempool
<1>1. SUFFICES ASSUME Quiet PROVE Stored = Pooled
  BY DEF StorageIsMempool
<1>2. \A c \in Call : calls[c].tx = None
  BY <1>1 DEF Quiet, Idle, PoolInv, PoolTyped, CallsTyped
<1>3. Adding(calls) = {}
  BY <1>2 DEF Adding
<1> QED BY <1>1, <1>3, StoredIs DEF PoolStored, StoredOK, Quiet

\* Whatever the steps do, fair or not.
LEMMA AlwaysSound ==
  ASSUME PoolAssumption
  PROVE  Init /\ [][Next]_vars =>
           [](TypeOK /\ NoncesAreConsecutive /\ OneOfAKind /\ PoolLimit /\ SendersGivenUp /\ NextOrStale)
<1>1. Init => PoolInv
  BY PoolStart
<1>2. PoolInv /\ [Next]_vars => PoolInv'
  BY PoolStep
<1>3. PoolInv => TypeOK /\ NoncesAreConsecutive /\ OneOfAKind /\ PoolLimit /\ SendersGivenUp /\ NextOrStale
  BY Typing, Consecutive, LimitAndSenders
<1> QED BY <1>1, <1>2, <1>3, PTL

LEMMA AlwaysStored ==
  ASSUME PoolAssumption, ~Racing
  PROVE  Init /\ [][Next]_vars => []StorageIsMempool
<1>1. Init => PoolInv /\ PoolStored
  BY PoolStart
<1>2. PoolInv /\ PoolStored /\ [Next]_vars => (PoolInv /\ PoolStored)'
  BY PoolStep
<1>3. PoolInv /\ PoolStored => StorageIsMempool
  BY StorageIs
<1> QED BY <1>1, <1>2, <1>3, PTL

\* However addTransaction, the blocks, cleanUp, the collator and a restart
\* interleave, a sender's mempool is a run of consecutive nonces that its copy
\* of the wallet has applied, with one vote and one registration at most; it is
\* given up when nothing and nobody is in it; the pool passes its limit by one
\* transaction a call at most; until a block is reverted, no mempool begins
\* later than the chain expects.
THEOREM PoolStaysSound ==
  ASSUME PoolAssumption
  PROVE  Spec => [](TypeOK /\ NoncesAreConsecutive /\ OneOfAKind /\ PoolLimit /\ SendersGivenUp /\ NextOrStale)
<1> QED BY AlwaysSound, PTL DEF Spec

\* Unless a transaction is added while it is to be removed, the storage has just
\* the transactions of the mempool whenever nothing is on its way.
THEOREM StorageStaysMempool ==
  ASSUME PoolAssumption, ~Racing
  PROVE  Spec => []StorageIsMempool
<1> QED BY AlwaysStored, PTL DEF Spec
=============================================================================
