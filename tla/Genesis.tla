------------------------------ MODULE Genesis ------------------------------
(* The genesis block core-configuration-generator makes                        *)
(* (source/generators/genesis-block.ts): the premine is paid to one wallet, or *)
(* shared among the validators, each validator registers and votes for itself. *)
(* Wallets are numbers: 0 is the premine wallet, which signs the block and is  *)
(* left in debt; 1..n are the validators, n + 1 the genesis wallet. Signatures *)
(* and identifiers are left out.                                               *)
EXTENDS Integers, Sequences, SequencesExt

Transfers == 0
Registrations == 2
Votes == 3

Premine == 0
GenesisWallet(options) == options.validators + 1
Wallets(options) == 0..GenesisWallet(options)

CreateTransferTransaction(recipient, amount, nonce) ==
    [type |-> Transfers, sender |-> Premine, nonce |-> nonce, amount |-> amount, recipient |-> recipient]

(* What does not divide is not paid to anybody. *)
CreateTransferTransactions(options) ==
    [i \in 1..options.validators |->
       CreateTransferTransaction(i, options.premine \div options.validators, i)]
BuildValidatorTransactions(options) ==
    [i \in 1..options.validators |->
       [type |-> Registrations, sender |-> i, nonce |-> 1, amount |-> 0, username |-> i]]
BuildVoteTransactions(options) ==
    [i \in 1..options.validators |->
       [type |-> Votes, sender |-> i, nonce |-> 2, amount |-> 0, votes |-> i]]

Generated(options) ==
    (IF options.distribute THEN CreateTransferTransactions(options)
     ELSE <<CreateTransferTransaction(GenesisWallet(options), options.premine, 1)>>)
      \o BuildValidatorTransactions(options) \o BuildVoteTransactions(options)

(* The block's order: by type, and by amount within a type; the sort is        *)
(* stable, and the amounts of a type are equal here.                           *)
Sorted(transactions) ==
    LET OfType(type) == SelectSeq(transactions, LAMBDA x : x.type = type)
    IN OfType(Transfers) \o OfType(Registrations) \o OfType(Votes)

(* MilestonesGenerator: the first milestone carries everything, the second the *)
(* reward; two of one height are written as they are.                          *)
GeneratedMilestones(options) ==
    <<[height |-> 1, reward |-> 0, activeValidators |-> options.validators],
      [height |-> options.rewardHeight, reward |-> options.reward]>>

CreateGenesisBlock(options) ==
    LET transactions == Sorted(Generated(options))
        Sum(f(_)) == FoldSeq(LAMBDA x, sum : f(x) + sum, 0, transactions)
    IN [height |-> 1, generator |-> Premine, reward |-> 0,
        numberOfTransactions |-> Len(transactions),
        payloadLength |-> 32 * Len(transactions),
        totalAmount |-> Sum(LAMBDA x : x.amount), totalFee |-> 0,
        transactions |-> transactions]

(* What the chain makes of the block, transaction by transaction: StateBuilder *)
(* and the handlers, for the types the block has.                              *)
Applied(transaction, state) ==
    LET s == transaction.sender
        valid ==
          /\ transaction.nonce = state.nonce[s] + 1
          /\ CASE transaction.type = Transfers -> s = Premine
               [] transaction.type = Registrations ->
                    s \notin state.validators /\ transaction.username \notin state.usernames
               [] transaction.type = Votes -> transaction.votes \in state.validators /\ state.vote[s] = Premine
        counted == [state EXCEPT !.nonce[s] = @ + 1, !.balance[s] = @ - transaction.amount,
                                 !.valid = @ /\ valid]
    IN CASE transaction.type = Transfers -> [counted EXCEPT !.balance[transaction.recipient] = @ + transaction.amount]
         [] transaction.type = Registrations ->
              [counted EXCEPT !.validators = @ \cup {s}, !.usernames = @ \cup {transaction.username}]
         [] transaction.type = Votes -> [counted EXCEPT !.vote[s] = transaction.votes]

AfterGenesis(options) ==
    FoldLeft(LAMBDA state, transaction : Applied(transaction, state),
             [nonce |-> [w \in Wallets(options) |-> 0], balance |-> [w \in Wallets(options) |-> 0],
              vote |-> [w \in Wallets(options) |-> Premine], validators |-> {}, usernames |-> {}, valid |-> TRUE],
             CreateGenesisBlock(options).transactions)

\* The chain can apply the block in its order: every nonce follows, every vote
\* finds its validator; there are as many validators as the first milestone
\* wants, each with a vote, nobody but the premine wallet is in debt, and what is
\* paid out is the premine but for less than one unit for each validator.
Applies(options) ==
    LET after == AfterGenesis(options)
        block == CreateGenesisBlock(options)
    IN /\ after.valid
       /\ after.validators = 1..GeneratedMilestones(options)[1].activeValidators
       /\ {after.vote[v] : v \in after.validators} = after.validators
       /\ \A w \in Wallets(options) \ {Premine} : after.balance[w] >= 0
       /\ after.balance[Premine] = -block.totalAmount
       /\ options.premine - block.totalAmount \in 0..(options.validators - 1)
       /\ block.numberOfTransactions = 2 * options.validators + (IF options.distribute THEN options.validators ELSE 1)
=============================================================================
