----------------------------- MODULE BlockState -----------------------------
(* How blocks change the wallets (core-state/source/block-state.ts, the       *)
(* mutators, and the transaction handlers): the transactions of a block are   *)
(* applied one after the other, a failing one takes back those before it, a   *)
(* block that is reverted is taken back from its end, and after a restart     *)
(* the wallets are built again from the stored blocks (state-builder.ts).     *)
(* Amounts are small integers, a transaction is its type and the data its     *)
(* handler reads, and of the nonces a sender may choose the model takes the   *)
(* right one and one too high. A wallet's attributes are a record that has    *)
(* the attributes the wallet has. All stored blocks are in Chain.             *)
EXTENDS Integers, Sequences, FiniteSets, TLC, SequencesExt

CONSTANTS Wallet, WalletOrder,   \* the wallets; the order their public keys were seen in
          Username,              \* what a validator can be called
          GenesisWallet, GenesisTxs,
          Txs,                   \* transactions without their nonce
          Reward,                \* of a block
          ActiveValidators,      \* milestone.activeValidators
          Restarts,              \* whether the node may restart
          MaxHeight, MaxTxs      \* bounds: blocks in the chain, transactions in a block

BlockStateAssumption ==
    /\ Wallet = ToSet(WalletOrder) /\ GenesisWallet \in Wallet
    /\ \A tx \in Txs \union ToSet(GenesisTxs) :
          /\ {"type", "sender", "fee", "payments", "votes", "unvotes", "signed"} \subseteq DOMAIN tx
          /\ tx.type \in {"transfer", "multiPayment", "vote", "registration", "resignation", "multiSignature"}

VARIABLES repo,    \* wallets and the indexes by username
          chain,   \* blocks applied, the genesis block first
          block,   \* the block being applied or reverted, with the transactions applied
          pc

vars == <<repo, chain, block, pc>>

ValidatorKeys == {"username", "voteBalance", "resigned", "lastBlock"}

NoBlock == [forger |-> GenesisWallet, txs |-> <<>>]

\* Wallet: the attributes and the balance.
Has(r, w, k) == k \in DOMAIN r.wallets[w].attrs
Attr(r, w, k) == r.wallets[w].attrs[k]
SetAttr(r, w, k, v) == [r EXCEPT !.wallets[w].attrs = (k :> v) @@ @]
Forget(r, w, K) == [r EXCEPT !.wallets[w].attrs = [k \in DOMAIN @ \ K |-> @[k]]]
IsValidator(r, w) == DOMAIN r.wallets[w].attrs \intersect ValidatorKeys # {}
Pay(r, w, x) == [r EXCEPT !.wallets[w].balance = @ + x]

\* The indexes by username: all validators, and those that resigned.
Without(index, w) == [u \in {v \in DOMAIN index : index[v] # w} |-> index[u]]
NameOf(r, w) == IF Has(r, w, "username") THEN Attr(r, w, "username") ELSE "undefined"

Index(r, w) ==
    LET names == Without(r.usernames, w)
        left  == Without(r.resigned, w)
    IN  [r EXCEPT !.usernames = IF IsValidator(r, w) THEN (NameOf(r, w) :> w) @@ names ELSE names,
                  !.resigned = IF Has(r, w, "resigned") THEN (NameOf(r, w) :> w) @@ left ELSE left]

\* Transactions: what the sender pays besides the fee; for a multipayment it is
\* not the transaction's amount, which is zero.
Total(tx) == FoldLeft(LAMBDA s, p : s + p.amount, 0, tx.payments)
Amount(tx) == IF tx.type = "transfer" THEN Total(tx) ELSE 0
Fees(txs) == FoldLeft(LAMBDA s, tx : s + tx.fee, 0, txs)

PayAll(r, tx, sign) == FoldLeft(LAMBDA q, p : Pay(q, p.to, sign * p.amount), r, tx.payments)
Received(r, tx) == Pay(r, tx.payments[1].to, Amount(tx))
TransferTakenBack(r, tx) == Pay(r, tx.payments[1].to, -Amount(tx))

-----------------------------------------------------------------------------
(* The vote balances of validators.                                          *)

AddVotes(r, v, x) ==
    SetAttr(r, v, "voteBalance", x + IF Has(r, v, "voteBalance") THEN Attr(r, v, "voteBalance") ELSE 0)

AddVotesOfVoter(r, w, x) == IF Has(r, w, "vote") THEN AddVotes(r, Attr(r, w, "vote"), x) ELSE r

UpdateVoteBalances(r, tx, revert) ==
    LET sign   == IF revert THEN -1 ELSE 1
        amount == r.wallets[tx.sender].balance - IF revert THEN tx.fee ELSE 0
    IN  IF tx.type = "vote"
        THEN LET unvoted == FoldLeft(LAMBDA q, v : AddVotes(q, v, -sign * (amount + tx.fee)), r, tx.unvotes)
             IN  FoldLeft(LAMBDA q, v : AddVotes(q, v, sign * amount), unvoted, tx.votes)
        ELSE FoldLeft(LAMBDA q, p : AddVotesOfVoter(q, p.to, sign * p.amount),
                      AddVotesOfVoter(r, tx.sender, -sign * (Total(tx) + tx.fee)), tx.payments)

-----------------------------------------------------------------------------
(* The transaction handlers.                                                 *)

\* Transaction: nonce, balance and signatures. verifySignatures is not awaited
\* and refuses nothing, so signatures of a multisignature wallet count as good.
Payable(r, tx) ==
    LET sender == r.wallets[tx.sender]
    IN  /\ tx.nonce = sender.nonce + 1
        /\ sender.balance >= Total(tx) + tx.fee
        /\ \/ Has(r, tx.sender, "multiSignature")
           \/ ~tx.signed
           \/ tx.type = "multiSignature"

VoteAllowed(r, tx) ==
    /\ \A i \in DOMAIN tx.unvotes :
          /\ Has(r, tx.sender, "vote") /\ Attr(r, tx.sender, "vote") = tx.unvotes[i]
          /\ IsValidator(r, tx.unvotes[i])
    /\ \A i \in DOMAIN tx.votes :
          /\ tx.unvotes # <<>> \/ ~Has(r, tx.sender, "vote")
          /\ IsValidator(r, tx.votes[i])
          /\ ~Has(r, tx.votes[i], "resigned")

RegistrationAllowed(r, tx) ==
    /\ ~Has(r, tx.sender, "multiSignature")
    /\ ~IsValidator(r, tx.sender)
    /\ tx.username \notin DOMAIN r.usernames

ResignationAllowed(r, tx) ==
    /\ IsValidator(r, tx.sender) /\ ~Has(r, tx.sender, "resigned")
    /\ Cardinality({u \in DOMAIN r.usernames : ~Has(r, r.usernames[u], "resigned")}) - 1 >= ActiveValidators

MultiSignatureAllowed(r, tx) == ~Has(r, tx.wallet, "multiSignature")

MultiPaymentAllowed(r, tx) == r.wallets[tx.sender].balance >= Total(tx) + tx.fee

\* The checks of the transaction's own handler, then those of every transaction.
CanApply(r, tx) ==
    /\ CASE tx.type = "vote" -> VoteAllowed(r, tx)
         [] tx.type = "registration" -> RegistrationAllowed(r, tx)
         [] tx.type = "resignation" -> ResignationAllowed(r, tx)
         [] tx.type = "multiSignature" -> MultiSignatureAllowed(r, tx)
         [] tx.type = "multiPayment" -> MultiPaymentAllowed(r, tx)
         [] OTHER -> TRUE
    /\ Payable(r, tx)

\* The attributes a validator registers with; whatever was there is replaced.
Registered(r, tx) ==
    LET q == Forget(r, tx.sender, ValidatorKeys)
    IN  Index(SetAttr(SetAttr(q, tx.sender, "username", tx.username), tx.sender, "voteBalance", 0), tx.sender)

Voted(r, tx) ==
    LET unvoted == IF tx.unvotes # <<>> THEN Forget(r, tx.sender, {"vote"}) ELSE r
    IN  FoldLeft(LAMBDA q, v : SetAttr(q, tx.sender, "vote", v), unvoted, tx.votes)

Resigned(r, tx) == Index(SetAttr(r, tx.sender, "resigned", TRUE), tx.sender)

MadeMultiSignature(r, tx) == SetAttr(r, tx.wallet, "multiSignature", TRUE)

\* What a transaction changes besides its sender's nonce and balance.
Effect(r, tx) ==
    CASE tx.type = "vote" -> Voted(r, tx)
      [] tx.type = "registration" -> Registered(r, tx)
      [] tx.type = "resignation" -> Resigned(r, tx)
      [] tx.type = "multiSignature" -> MadeMultiSignature(r, tx)
      [] tx.type = "multiPayment" -> PayAll(r, tx, 1)
      [] OTHER -> Received(r, tx)

\* Faulty variant: an unvote is not taken back.
VoteTakenBackKeepingUnvote(r, tx) == IF tx.votes # <<>> THEN Forget(r, tx.sender, {"vote"}) ELSE r

VoteTakenBack(r, tx) ==
    LET forgotten == IF tx.votes # <<>> THEN Forget(r, tx.sender, {"vote"}) ELSE r
    IN  FoldLeft(LAMBDA q, v : SetAttr(q, tx.sender, "vote", v), forgotten, tx.unvotes)

RegistrationTakenBack(r, tx) == Index(Forget(r, tx.sender, ValidatorKeys), tx.sender)

ResignationTakenBack(r, tx) == Index(Forget(r, tx.sender, {"resigned"}), tx.sender)

MultiSignatureTakenBack(r, tx) == Forget(r, tx.wallet, {"multiSignature"})

PaymentsTakenBack(r, tx) == PayAll(r, tx, -1)

EffectTakenBack(r, tx) ==
    CASE tx.type = "vote" -> VoteTakenBack(r, tx)
      [] tx.type = "registration" -> RegistrationTakenBack(r, tx)
      [] tx.type = "resignation" -> ResignationTakenBack(r, tx)
      [] tx.type = "multiSignature" -> MultiSignatureTakenBack(r, tx)
      [] tx.type = "multiPayment" -> PaymentsTakenBack(r, tx)
      [] OTHER -> TransferTakenBack(r, tx)

Applied(r, tx) ==
    LET paid == Pay([r EXCEPT !.wallets[tx.sender].nonce = tx.nonce], tx.sender, -(Total(tx) + tx.fee))
    IN  UpdateVoteBalances(Effect(paid, tx), tx, FALSE)

\* The sender is paid back before the nonce is verified.
CanRevert(r, tx) == r.wallets[tx.sender].nonce = tx.nonce
HalfReverted(r, tx) == Pay(r, tx.sender, Amount(tx) + tx.fee)

Reverted(r, tx) ==
    LET paid == Pay([r EXCEPT !.wallets[tx.sender].nonce = @ - 1], tx.sender, Total(tx) + tx.fee)
    IN  UpdateVoteBalances(EffectTakenBack(paid, tx), tx, TRUE)

-----------------------------------------------------------------------------
(* The mutators, which give the forger its last block, the reward and fees.  *)

\* The mutators fail for a forger that is no validator, before they change anything.
ForgerFound(r, b) == IsValidator(r, b.forger)

SetLastBlock(r, b, height) == SetAttr(r, b.forger, "lastBlock", height)

Rewarded(r, b, sign) ==
    LET amount == sign * (Reward + Fees(b.txs))
    IN  Pay(AddVotesOfVoter(r, b.forger, amount), b.forger, amount)

\* The last block is forgotten, and the one before it is not put back.
RewardTakenBack(r, b) == Rewarded(Forget(r, b.forger, {"lastBlock"}), b, -1)

-----------------------------------------------------------------------------
(* StateBuilder: the wallets from the stored blocks.                         *)

EmptyRepo == [wallets   |-> [w \in Wallet |-> [balance |-> 0, nonce |-> 0, attrs |-> <<>>]],
              usernames |-> <<>>, resigned |-> <<>>]

\* The handlers in the order their packages are registered. Each replays its
\* transactions of the block; the first that throws ends the block.
HandlerOrder == <<"registration", "resignation", "multiPayment", "multiSignature", "transfer", "vote">>

BootstrapVote(r, tx) ==
    LET un  == \A i \in DOMAIN tx.unvotes : Has(r, tx.sender, "vote") /\ Attr(r, tx.sender, "vote") = tx.unvotes[i]
        q   == IF tx.unvotes # <<>> THEN Forget(r, tx.sender, {"vote"}) ELSE r
        set == tx.votes = <<>> \/ ~Has(q, tx.sender, "vote")
    IN  IF ~un THEN [r |-> r, ok |-> FALSE]
        ELSE IF ~set THEN [r |-> q, ok |-> FALSE]
        ELSE [r |-> FoldLeft(LAMBDA p, v : SetAttr(p, tx.sender, "vote", v), q, tx.votes), ok |-> TRUE]

BootstrapPayments(r, tx) == [r |-> Pay(PayAll(r, tx, 1), tx.sender, -Total(tx)), ok |-> TRUE]

BootstrapTransfer(r, tx) == [r |-> Received(r, tx), ok |-> TRUE]

BootstrapRegistration(r, tx) == [r |-> Registered(r, tx), ok |-> TRUE]

BootstrapResignation(r, tx) == [r |-> Resigned(r, tx), ok |-> TRUE]

BootstrapMultiSignature(r, tx) ==
    IF Has(r, tx.wallet, "multiSignature") THEN [r |-> r, ok |-> FALSE]
    ELSE [r |-> Index(MadeMultiSignature(r, tx), tx.wallet), ok |-> TRUE]

Bootstrap(r, tx) ==
    CASE tx.type = "vote" -> BootstrapVote(r, tx)
      [] tx.type = "multiSignature" -> BootstrapMultiSignature(r, tx)
      [] tx.type = "multiPayment" -> BootstrapPayments(r, tx)
      [] tx.type = "registration" -> BootstrapRegistration(r, tx)
      [] tx.type = "resignation" -> BootstrapResignation(r, tx)
      [] OTHER -> BootstrapTransfer(r, tx)

BootstrapAll(r, txs) ==
    LET OfType(t) == SelectSeq(txs, LAMBDA tx : tx.type = t)
        inOrder   == FlattenSeq([i \in DOMAIN HandlerOrder |-> OfType(HandlerOrder[i])])
    IN  FoldLeft(LAMBDA s, tx : IF s.ok THEN Bootstrap(s.r, tx) ELSE s, [r |-> r, ok |-> TRUE], inOrder)

\* buildVoteBalances adds each voter's balance once more for every block, until
\* a voter's validator has no vote balance.
BuildVoteBalances(r) ==
    LET Step(s, w) ==
            IF ~s.ok \/ ~Has(s.r, w, "vote") THEN s
            ELSE IF Has(s.r, Attr(s.r, w, "vote"), "voteBalance")
            THEN [s EXCEPT !.r = AddVotesOfVoter(s.r, w, s.r.wallets[w].balance)]
            ELSE [s EXCEPT !.ok = FALSE]
    IN  FoldLeft(Step, [r |-> r, ok |-> TRUE], WalletOrder).r

\* Rewards without fees, nonces, the sender's amounts and fees, then the handlers.
BuildBlock(r, b) ==
    LET Sent(q, tx) == Pay([q EXCEPT !.wallets[tx.sender].nonce = tx.nonce], tx.sender, -(Amount(tx) + tx.fee))
        rewarded == Pay(r, b.forger, IF b.txs = GenesisTxs THEN 0 ELSE Reward)
        booted   == BootstrapAll(FoldLeft(Sent, rewarded, b.txs), b.txs)
    IN  IF booted.ok THEN BuildVoteBalances(booted.r) ELSE booted.r

Built(blocks) == FoldLeft(BuildBlock, EmptyRepo, blocks)

GenesisBlock == [forger |-> GenesisWallet, txs |-> GenesisTxs]

-----------------------------------------------------------------------------
(* Blocks are applied and reverted.                                          *)

Init ==
    /\ chain = <<GenesisBlock>>
    /\ repo = Built(chain)
    /\ block = NoBlock
    /\ pc = "idle"

BeginBlock(f) ==
    /\ pc = "idle" /\ Len(chain) < MaxHeight
    /\ block' = [forger |-> f, txs |-> <<>>]
    /\ pc' = "applying"
    /\ UNCHANGED <<repo, chain>>

\* The next transaction of the block, which the block has had from the start.
NextTx(t, n) == [t EXCEPT !.nonce = repo.wallets[t.sender].nonce + n]

ApplyTransaction ==
    /\ pc = "applying" /\ Len(block.txs) < MaxTxs
    /\ \E t \in Txs : LET tx == NextTx(t, 1) IN
          /\ CanApply(repo, tx)
          /\ repo' = Applied(repo, tx)
          /\ block' = [block EXCEPT !.txs = Append(@, tx)]
    /\ UNCHANGED <<chain, pc>>

TransactionFails ==
    /\ pc = "applying" /\ Len(block.txs) < MaxTxs
    /\ \E t \in Txs, n \in 1..2 : ~CanApply(repo, NextTx(t, n))
    /\ pc' = "undoing"
    /\ UNCHANGED <<repo, chain, block>>

FinishBlock ==
    /\ pc = "applying"
    /\ ForgerFound(repo, block)
    /\ repo' = Rewarded(SetLastBlock(repo, block, Len(chain) + 1), block, 1)
    /\ chain' = Append(chain, block)
    /\ block' = NoBlock /\ pc' = "idle"

ForgerFails ==
    /\ pc = "applying"
    /\ ~ForgerFound(repo, block)
    /\ pc' = "undoing"
    /\ UNCHANGED <<repo, chain, block>>

\* The transactions before the failing one are reverted, the last first. A step
\* that could not be taken would leave the model stuck here.
UndoTransaction ==
    /\ pc = "undoing" /\ block.txs # <<>>
    /\ CanRevert(repo, Last(block.txs))
    /\ repo' = Reverted(repo, Last(block.txs))
    /\ block' = [block EXCEPT !.txs = Front(@)]
    /\ UNCHANGED <<chain, pc>>

Refuse ==
    /\ pc = "undoing" /\ block.txs = <<>>
    /\ pc' = "idle" /\ block' = NoBlock
    /\ UNCHANGED <<repo, chain>>

\* The forger of the last block is still a validator, or the model is stuck.
RevertBlock ==
    /\ pc = "idle" /\ Len(chain) > 1
    /\ ForgerFound(repo, Last(chain))
    /\ repo' = RewardTakenBack(repo, Last(chain))
    /\ block' = Last(chain)
    /\ pc' = "reverting"
    /\ UNCHANGED chain

RevertTransaction ==
    /\ pc = "reverting" /\ block.txs # <<>>
    /\ CanRevert(repo, Last(block.txs))
    /\ repo' = Reverted(repo, Last(block.txs))
    /\ block' = [block EXCEPT !.txs = Front(@)]
    /\ UNCHANGED <<chain, pc>>

FinishRevert ==
    /\ pc = "reverting" /\ block.txs = <<>>
    /\ chain' = Front(chain)
    /\ block' = NoBlock /\ pc' = "idle"
    /\ UNCHANGED repo

\* A transaction that cannot be reverted: those reverted are applied again, the
\* forger gets nothing back, and the block handler reports corruption.
RevertFails ==
    /\ pc = "reverting" /\ block.txs # <<>>
    /\ ~CanRevert(repo, Last(block.txs))
    /\ repo' = HalfReverted(repo, Last(block.txs))
    /\ pc' = "redoing"
    /\ UNCHANGED <<chain, block>>

ApplyAgain ==
    /\ pc = "redoing" /\ Len(block.txs) < Len(Last(chain).txs)
    /\ LET tx == Last(chain).txs[Len(block.txs) + 1] IN
       \/ /\ CanApply(repo, tx)
          /\ repo' = Applied(repo, tx) /\ block' = [block EXCEPT !.txs = Append(@, tx)] /\ pc' = pc
       \/ /\ ~CanApply(repo, tx)
          /\ pc' = "failed" /\ UNCHANGED <<repo, block>>
    /\ UNCHANGED chain

GiveUp ==
    /\ pc = "redoing" /\ Len(block.txs) = Len(Last(chain).txs)
    /\ pc' = "failed"
    /\ UNCHANGED <<repo, chain, block>>

\* The process ends anywhere and starts again; blocks are stored in chunks, so
\* any number of the last ones may be missing. The storage is read in the order
\* of the blocks' identifiers, which says nothing of their heights.
Restart ==
    /\ Restarts
    /\ \E n \in 1..Len(chain) : \E order \in Permutations(1..n) :
          /\ chain' = SubSeq(chain, 1, n)
          /\ repo' = Built([i \in 1..n |-> chain[order[i]]])
    /\ block' = NoBlock /\ pc' = "idle"

Next ==
    \/ \E f \in Wallet : BeginBlock(f)
    \/ ApplyTransaction \/ TransactionFails \/ FinishBlock \/ ForgerFails
    \/ UndoTransaction \/ Refuse
    \/ RevertBlock \/ RevertTransaction \/ FinishRevert \/ RevertFails \/ ApplyAgain \/ GiveUp
    \/ Restart

Spec == Init /\ [][Next]_vars

-----------------------------------------------------------------------------
(* Properties.                                                               *)

\* The values the variables take: attributes are known ones, the indexes give
\* wallets, and a block has at most MaxTxs transactions.
TypeOK ==
    /\ \A w \in Wallet :
          /\ repo.wallets[w].balance \in Int /\ repo.wallets[w].nonce \in Nat
          /\ DOMAIN repo.wallets[w].attrs \subseteq ValidatorKeys \union {"vote", "multiSignature"}
          /\ Has(repo, w, "vote") => Attr(repo, w, "vote") \in Wallet
          /\ Has(repo, w, "lastBlock") => Attr(repo, w, "lastBlock") \in 1..MaxHeight
    /\ \A index \in {repo.usernames, repo.resigned} :
          DOMAIN index \subseteq Username \union {"undefined"} /\ Range(index) \subseteq Wallet
    /\ Len(chain) \in 1..MaxHeight /\ block.forger \in Wallet
    /\ Len(block.txs) <= MaxTxs \/ block.txs = GenesisTxs
    /\ pc \in {"idle", "applying", "undoing", "reverting", "redoing", "failed"}

SumOver(W, Value(_)) == FoldFunction(LAMBDA x, s : x + s, 0, [w \in W |-> Value(w)])

\* After every transaction, applied or reverted, and after the forger's reward,
\* a validator's vote balance is the sum of what the wallets that vote for it
\* own (block-state.ts:173-271, balance.ts): the updates for the sender, each
\* recipient and the forger never miss one and never count one twice.
VoteBalancesAreSums ==
    \A v \in {w \in Wallet : Has(repo, w, "voteBalance")} :
        Attr(repo, v, "voteBalance") =
            SumOver({w \in Wallet : Has(repo, w, "vote") /\ Attr(repo, w, "vote") = v},
                    LAMBDA w : repo.wallets[w].balance)

\* All balances together are the rewards of the blocks of the chain, and the
\* fees of a block on its way are the forger's at its end: neither a refused
\* block nor a reverted one makes or destroys money.
MoneySupply ==
    SumOver(Wallet, LAMBDA w : repo.wallets[w].balance) + Fees(IF pc = "idle" THEN <<>> ELSE block.txs)
        = Reward * (Len(chain) - IF pc = "reverting" THEN 2 ELSE 1)

AppliedBlock(r, b) == Rewarded(FoldLeft(Applied, r, b.txs), b, 1)
WithoutLastBlocks(r) == FoldLeft(LAMBDA q, w : Forget(q, w, {"lastBlock"}), r, WalletOrder)

\* Between blocks the wallets and indexes are those that applying the chain's
\* blocks to the genesis block gives, whatever was refused or reverted on the
\* way (all but the validators' last blocks, which a revert does not put back).
WalletsOfChain ==
    pc = "idle" =>
        WithoutLastBlocks(repo) = WithoutLastBlocks(FoldLeft(AppliedBlock, Built(<<GenesisBlock>>), Tail(chain)))

\* The indexes agree with the attributes: a username leads to the validator that
\* has it, and the resigned ones are those with the attribute.
IndexesAgree ==
    /\ repo.usernames = [u \in {NameOf(repo, w) : w \in {x \in Wallet : IsValidator(repo, x)}} |->
                            CHOOSE w \in Wallet : IsValidator(repo, w) /\ NameOf(repo, w) = u]
    /\ DOMAIN repo.resigned = {NameOf(repo, w) : w \in {x \in Wallet : Has(repo, x, "resigned")}}

\* However registrations and resignations are applied and reverted, enough
\* validators stay to fill a round (validator-resignation.ts:65-72).
EnoughValidators ==
    Cardinality({w \in Wallet : IsValidator(repo, w) /\ ~Has(repo, w, "resigned")}) >= ActiveValidators

\* A validator's last block, when it has one, is the last block of the chain it
\* forged, after reverts and restarts too (attribute.ts).
LastBlockInChain ==
    pc = "idle" =>
        \A w \in {v \in Wallet : Has(repo, v, "lastBlock")} :
            /\ Attr(repo, w, "lastBlock") \in 1..Len(chain)
            /\ chain[Attr(repo, w, "lastBlock")].forger = w
            /\ \A h \in Attr(repo, w, "lastBlock") + 1..Len(chain) : chain[h].forger # w

\* No wallet but the genesis wallet owes anything. StateBuilder asserts it of
\* the wallets it builds (state-builder.ts:103-107).
NonGenesisNotNegative ==
    pc = "idle" => \A w \in Wallet \ {GenesisWallet} : repo.wallets[w].balance >= 0

\* What was applied can be taken back: when it is the turn of a transaction to
\* be reverted its sender's nonce is the transaction's, so that no block is half
\* reverted and the handler never reports corruption.
RevertsPossible ==
    /\ pc # "failed"
    /\ pc # "idle" /\ block.txs # <<>> => CanRevert(repo, Last(block.txs))
    /\ pc = "idle" /\ Len(chain) > 1 => ForgerFound(repo, Last(chain))
=============================================================================
