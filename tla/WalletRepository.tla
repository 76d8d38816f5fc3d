-------------------------- MODULE WalletRepository --------------------------
(* The wallets of the chain and a copy of them (core-state WalletRepository,   *)
(* WalletIndex, WalletRepositoryClone, WalletRepositoryCopyOnWrite): indexes    *)
(* of two maps each, wallets that are created when they are looked for, and a   *)
(* copy that takes over a wallet of the chain when it is first asked for it.    *)
(* A wallet object is known by its repository, its address and its turn.        *)
EXTENDS Integers, FiniteSets, TLC, FiniteSetsExt

CONSTANTS Addresses, Usernames,
          CopyOnWrite,   \* the pool's copy: the chain moves on beside it
          None,
          MaxVersion, MaxCopies   \* bounds

RepositoryAssumption == CopyOnWrite \in BOOLEAN /\ None \notin Usernames

VARIABLES base, copy,   \* the indexes of the two repositories
          forgotten,    \* #forgetIndexes of the clone: their keys
          data,         \* of each wallet object: key set?, username, resigned, balance
          step          \* history: who moved last

vars == <<base, copy, forgotten, data, step>>

Indexes == {"addresses", "publicKeys", "usernames", "resignations"}
Object(r, a, n) == [repo |-> r, address |-> a, turn |-> n]
EmptyIndex == [byKey |-> <<>>, byWallet |-> <<>>]
NewWallet == [publicKey |-> FALSE, username |-> None, resigned |-> FALSE, balance |-> 0]

-----------------------------------------------------------------------------
(* WalletIndex.                                                               *)

Has(index, k) == k \in DOMAIN index.byKey
WalletKeys(index, w) == IF w \in DOMAIN index.byWallet THEN index.byWallet[w] ELSE {}

\* A key is taken from the wallet it was of.
WithoutOwner(index, k) ==
    IF Has(index, k) THEN [index.byWallet EXCEPT ![index.byKey[k]] = @ \ {k}] ELSE index.byWallet

WithKey(index, k, w) ==
    [byKey |-> (k :> w) @@ index.byKey, byWallet |-> (w :> (WalletKeys(index, w) \union {k})) @@ index.byWallet]
SetKey(index, k, w) == WithKey([index EXCEPT !.byWallet = WithoutOwner(index, k)], k, w)

SetKeys(index, K, w) == FoldSet(LAMBDA k, i : SetKey(i, k, w), index, K)

ForgetWallet(index, w) ==
    [byKey |-> [k \in DOMAIN index.byKey \ WalletKeys(index, w) |-> index.byKey[k]],
     byWallet |-> [v \in DOMAIN index.byWallet \ {w} |-> index.byWallet[v]]]

\* The indexers.
KeysOf(x, w, d) ==
    CASE x = "addresses" -> {w.address}
      [] x = "publicKeys" -> IF d.publicKey THEN {w.address} ELSE {}
      [] x = "usernames" -> {d.username} \ {None}
      [] x = "resignations" -> IF d.resigned THEN {d.username} \ {None} ELSE {}

IndexWallet(repo, w, d) ==
    [x \in Indexes |-> SetKeys(ForgetWallet(repo[x], w), KeysOf(x, w, d), w)]

-----------------------------------------------------------------------------
(* Both repositories, as a record r of base, copy, forgotten and data.        *)

Now == [base |-> base, copy |-> copy, forgotten |-> forgotten, data |-> data]
Become(r, who) ==
    /\ base' = r.base /\ copy' = r.copy /\ forgotten' = r.forgotten /\ data' = r.data /\ step' = who

Changed(r, w, d) == [r EXCEPT !.data = (w :> d) @@ @]

\* The wallet that is known by an address.
Known(repo, a) == repo["addresses"].byKey[a]

\* findByAddress of the chain's repository.
BaseFind(r, a) ==
    IF Has(r.base["addresses"], a) THEN r
    ELSE LET w == Object("base", a, 0)
         IN  Changed([r EXCEPT !.base["addresses"] = SetKey(@, a, w)], w, NewWallet)

\* setPublicKey.
WithPublicKey(r, w) == Changed(r, w, [r.data[w] EXCEPT !.publicKey = TRUE])

\* findByPublicKey of the chain's repository.
BaseGivePublicKey(r, a, w) == WithPublicKey([r EXCEPT !.base["publicKeys"] = SetKey(@, a, w)], w)
BaseGive(r, a) == BaseGivePublicKey(r, a, Known(r.base, a))
BaseFindByPublicKey(r, a) == IF Has(r.base["publicKeys"], a) THEN r ELSE BaseGive(BaseFind(r, a), a)

Turns(r, a) == {w.turn : w \in {v \in DOMAIN r.data : v.repo = "copy" /\ v.address = a}}
NextObject(r, a) == Object("copy", a, Cardinality(Turns(r, a)))

\* cloneWallet: the copy gets every key that the wallet has in the chain.
CloneAs(r, w, c) ==
    Changed([r EXCEPT !.copy = [x \in Indexes |-> SetKeys(@[x], WalletKeys(r.base[x], w), c)]], c, r.data[w])
CloneWallet(r, w) == CloneAs(r, w, NextObject(r, w.address))

\* Faulty variant: keys that a wallet loses are not remembered.
IndexCopyKeeping(r, w) == [r EXCEPT !.copy = IndexWallet(@, w, r.data[w])]

\* index of the copy; the clone remembers the keys that a wallet loses.
Reindexed(r, w, indexed) ==
    [r EXCEPT !.copy = indexed,
              !.forgotten = IF CopyOnWrite THEN @
                            ELSE [x \in Indexes |-> @[x] \union (WalletKeys(r.copy[x], w) \ WalletKeys(indexed[x], w))]]
IndexCopy(r, w) == Reindexed(r, w, IndexWallet(r.copy, w, r.data[w]))

CloneKnown(r, a) == CloneWallet(r, Known(r.base, a))

\* findByAddress of the clone, and of the pool's copy: this one has the wallet
\* created in the chain's repository.
CopyFind(r, a) ==
    IF Has(r.copy["addresses"], a) THEN r
    ELSE IF CopyOnWrite THEN CloneKnown(BaseFind(r, a), a)
    ELSE IndexCopy(IF Has(r.base["addresses"], a) THEN CloneKnown(r, a)
                   ELSE Changed(r, NextObject(r, a), NewWallet), NextObject(r, a))

\* hasByIndex of the pool's copy takes over the wallet that it finds.
CopyOfKey(r, x, k) ==
    IF CopyOnWrite /\ ~Has(r.copy[x], k) /\ Has(r.base[x], k) THEN CloneWallet(r, r.base[x].byKey[k]) ELSE r

\* findByPublicKey of the copy: index.has is the own index in both.
CopyGivePublicKey(r, a, w) == IF CopyOnWrite THEN [r EXCEPT !.copy["publicKeys"] = SetKey(@, a, w)] ELSE IndexCopy(r, w)
CopyGive(r, a) == CopyGivePublicKey(WithPublicKey(r, Known(r.copy, a)), a, Known(r.copy, a))
CopyFindByPublicKey(r, a) == IF Has(r.copy["publicKeys"], a) THEN r ELSE CopyGive(CopyFind(r, a), a)

\* hasByIndex: what the copy answers.
HasByIndex(r, x, k) ==
    \/ Has(r.copy[x], k)
    \/ Has(r.base[x], k) /\ (CopyOnWrite \/ k \notin r.forgotten[x])

-----------------------------------------------------------------------------
(* What the handlers do to a repository.                                      *)

\* Applying and reverting a registration and a resignation, on wallet data.
Handled(d, u) ==
    IF d.username = None THEN {[d EXCEPT !.username = u]}
    ELSE IF d.resigned THEN {[d EXCEPT !.resigned = FALSE]}
    ELSE {[d EXCEPT !.username = None], [d EXCEPT !.resigned = TRUE]}

\* A name that is registered is free.
Free(taken, old, new) == new.username \in {None, old.username} \/ ~taken

Frozen == ~CopyOnWrite /\ \E w \in DOMAIN data : w.repo = "copy"

HandleBase(r, w, u) ==
    \E d \in Handled(r.data[w], u) :
       /\ Free(Has(r.base["usernames"], u), r.data[w], d)
       /\ Become(Changed([r EXCEPT !.base = IndexWallet(@, w, d)], w, d), "base")
BaseHandle(a, u) ==
    /\ ~Frozen
    /\ \E r \in {BaseFindByPublicKey(Now, a)} : HandleBase(r, Known(r.base, a), u)

Pay(r, w, who) ==
    /\ r.data[w].balance < MaxVersion
    /\ Become(Changed(r, w, [r.data[w] EXCEPT !.balance = @ + 1]), who)
BasePay(a) == ~Frozen /\ \E r \in {BaseFind(Now, a)} : Pay(r, Known(r.base, a), "base")
CopyPay(a) == \E r \in {CopyFind(Now, a)} : Pay(r, Known(r.copy, a), "copy")

HandleCopy(r, w, u) ==
    /\ \A v \in DOMAIN r.data : v.turn < MaxCopies
    /\ \E d \in Handled(r.data[w], u) :
         /\ Free(HasByIndex(r, "usernames", u), r.data[w], d)
         /\ Become(IndexCopy(Changed(r, w, d), w), "copy")
ForName(r, w, u) == IF r.data[w].username = None THEN CopyOfKey(r, "usernames", u) ELSE r
CopyHandle(a, u) ==
    \E f \in {CopyFindByPublicKey(Now, a)} : \E r \in {ForName(f, Known(f.copy, a), u)} :
        HandleCopy(r, Known(r.copy, a), u)

\* allByUsername, as the ranking of a round's validators asks it.
AllByUsername ==
    LET ws == {base["usernames"].byKey[k] : k \in DOMAIN base["usernames"].byKey}
    IN  Become(FoldSet(LAMBDA w, r : IF Has(r.copy["addresses"], w.address) THEN r
                                     ELSE IF CopyOnWrite THEN CloneWallet(r, w) ELSE CopyFind(r, w.address), Now, ws), "copy")

Init ==
    /\ base = [x \in Indexes |-> EmptyIndex] /\ copy = [x \in Indexes |-> EmptyIndex]
    /\ forgotten = [x \in Indexes |-> {}] /\ data = <<>> /\ step = "base"

Next ==
    \/ \E a \in Addresses : BasePay(a) \/ CopyPay(a) \/ \E u \in Usernames : BaseHandle(a, u) \/ CopyHandle(a, u)
    \/ AllByUsername

Spec == Init /\ [][Next]_vars

-----------------------------------------------------------------------------
TypeOK ==
    /\ forgotten \in [Indexes -> SUBSET (Addresses \union Usernames)]
    /\ \A w \in DOMAIN data : data[w] \in
          [publicKey : BOOLEAN, username : Usernames \union {None}, resigned : BOOLEAN, balance : 0..MaxVersion]

\* The two maps of an index are each other's inverse; its keys are those that
\* the data of the wallet says. (The pool's copy only keeps the first: a key it
\* has given to one wallet moves to another when the chain gives it to that one.)
IndexesSound ==
    /\ \A repo \in {base, copy}, x \in Indexes :
         /\ \A k \in DOMAIN repo[x].byKey : k \in WalletKeys(repo[x], repo[x].byKey[k])
         /\ \A w \in DOMAIN repo[x].byWallet :
              \A k \in repo[x].byWallet[w] : Has(repo[x], k) /\ repo[x].byKey[k] = w
    /\ \A repo \in {base} \union (IF CopyOnWrite THEN {} ELSE {copy}), x \in {"usernames", "resignations"} :
         \A w \in DOMAIN repo[x].byWallet : repo[x].byWallet[w] = KeysOf(x, w, data[w])

\* The wallet that the copy stands for at an address.
View(a) ==
    IF Has(copy["addresses"], a) THEN data[copy["addresses"].byKey[a]]
    ELSE IF Has(base["addresses"], a) THEN data[base["addresses"].byKey[a]] ELSE NewWallet

\* The clone answers as the chain's own repository would if the same was done to
\* it: a key it knows is that of a wallet it shows, names it took back are free.
CloneAnswers ==
    ~CopyOnWrite =>
        /\ \A u \in Usernames :
             /\ HasByIndex(Now, "usernames", u) <=> \E a \in Addresses : View(a).username = u
             /\ HasByIndex(Now, "resignations", u) <=> \E a \in Addresses : View(a).username = u /\ View(a).resigned
        /\ \A a \in Addresses : HasByIndex(Now, "publicKeys", a) <=> View(a).publicKey

\* All keys of a copied wallet lead to one copy. (Not so of the pool's copy: a
\* wallet found by a key that the chain gave it later is copied again.)
OneCopy ==
    ~CopyOnWrite => \A x \in Indexes : \A k \in DOMAIN copy[x].byKey :
        LET w == copy[x].byKey[k] IN Has(copy["addresses"], w.address) /\ copy["addresses"].byKey[w.address] = w

\* What is done to a copy changes nothing of the chain; the pool's copy adds
\* empty wallets to it.
Isolated ==
    step' = "copy" =>
        /\ \A w \in DOMAIN data : w.repo = "base" => data'[w] = data[w]
        /\ \A x \in Indexes : \A k \in DOMAIN base[x].byKey : Has(base'[x], k) /\ base'[x].byKey[k] = base[x].byKey[k]
        /\ \A w \in DOMAIN data' \ DOMAIN data : w.repo = "base" => CopyOnWrite /\ data'[w] = NewWallet
=============================================================================
