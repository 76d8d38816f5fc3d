------------------------------ MODULE MCLedger ------------------------------
(* What a node knows of its own chain: the database, the configuration by     *)
(* height, slots, rounds and wallets. A behaviour is one of one component;    *)
(* each has its own small instance.                                           *)
EXTENDS Ledger, TLC

CONSTANTS gena, anna, bert, carl, dora

VARIABLES
    component,   \* the component this behaviour is of: no other one moves
    milestones, cursor, height, walk,
    blockTimes, validators, time, slot,
    repo, walletsChain, block, pc,
    base, copy, forgotten, data, step

\* Two branches of blocks: transaction t1 is in three blocks, t2 in two.
StoredBlocks == {"g", "a2", "a3", "a4", "a5", "b3", "b4"}
StoredPrevious ==
    [x \in StoredBlocks |-> CASE x \in {"g", "a2"} -> "g" [] x \in {"a3", "b3"} -> "a2"
                              [] x = "a4" -> "a3" [] x = "a5" -> "a4" [] x = "b4" -> "b3"]
StoredHeights ==
    [x \in StoredBlocks |-> CASE x = "g" -> 1 [] x = "a2" -> 2 [] x \in {"a3", "b3"} -> 3
                              [] x \in {"a4", "b4"} -> 4 [] x = "a5" -> 5]
StoredTransactions ==
    [x \in StoredBlocks |-> CASE x = "a2" -> <<"t1">> [] x \in {"a3", "b4"} -> <<"t2", "t3">>
                              [] x = "b3" -> <<"t3">> [] x \in {"a4", "a5"} -> <<"t1">> [] OTHER -> <<>>]

\* A peer is served from a chain of four blocks and a branch.
FewServed ==
    /\ budget'.crashes >= MaxCrashes - 1 /\ budget'.faults >= MaxFaults - 1
    /\ ToSet(job'.accepted) \subseteq {"g", "a2", "a3", "a4", "b3"}
    /\ request'.kind = "common" => ToSet(request'.ids) \subseteq {"g", "a2", "a3", "a4", "b3"}

ByKey == <<"v1", "v2", "v3">>

\* The genesis wallet, two validators of the genesis block, a voter that can
\* become a validator, and the wallet of a multisignature.
Tx(type, sender, fee) ==
    [type |-> type, sender |-> sender, fee |-> fee, nonce |-> 0, payments |-> <<>>,
     votes |-> <<>>, unvotes |-> <<>>, signed |-> FALSE]
Transfer(s, to, x) == [Tx("transfer", s, 1) EXCEPT !.payments = <<[to |-> to, amount |-> x]>>]
MultiPayment(s, x, y) ==
    [Tx("multiPayment", s, 1) EXCEPT !.payments = <<[to |-> x, amount |-> 1], [to |-> y, amount |-> 1]>>]
Vote(s, us, vs) == [Tx("vote", s, 1) EXCEPT !.unvotes = us, !.votes = vs]
Registration(s, u) == Tx("registration", s, 1) @@ ("username" :> u)
Resignation(s) == Tx("resignation", s, 1)
MultiSignature(s, w) == [Tx("multiSignature", s, 1) EXCEPT !.signed = TRUE] @@ ("wallet" :> w)
Free(tx, n) == [tx EXCEPT !.fee = 0, !.nonce = n]
GenesisTransactions ==
    <<Free(Transfer(gena, anna, 6), 1), Free(Transfer(gena, bert, 3), 2), Free(Transfer(gena, carl, 5), 3),
      Free(Registration(anna, "A"), 1), Free(Registration(bert, "B"), 1),
      Free(Vote(carl, <<>>, <<bert>>), 1), Free(Vote(anna, <<>>, <<anna>>), 2)>>
BlockTransactions ==
    {Transfer(anna, carl, 2), Transfer(anna, dora, 3), MultiPayment(carl, bert, carl),
     Vote(carl, <<bert>>, <<anna>>), Vote(carl, <<bert>>, <<>>),
     Vote(carl, <<>>, <<anna>>), Registration(carl, "C"), Registration(carl, "A"), Resignation(anna),
     MultiSignature(bert, dora),
     [Transfer(dora, anna, 2) EXCEPT !.signed = TRUE]}
FewTransactions ==
    {Transfer(anna, carl, 7), Transfer(bert, carl, 3), Vote(carl, <<bert>>, <<anna>>), Vote(carl, <<>>, <<bert>>),
     Resignation(anna)}

ASSUME LedgerInstance == LedgerAssumption
Milestones == INSTANCE Milestones WITH MaxHeight <- 7, Counts <- {1, 2, 3},
    BlockTimes <- {1, 2}, MaxLength <- 3, Restating <- FALSE
ASSUME MilestonesInstance == Milestones!MilestonesAssumption
Slots == INSTANCE Slots WITH BlockTimes <- {2, 3}, Counts <- {1, 2, 3}, MaxTimeChanges <- 1,
    MaxHeight <- 5, MaxMissed <- 2, Epoch <- 4, DefaultLookup <- FALSE
ASSUME SlotsInstance == Slots!SlotsAssumption
Wallets == INSTANCE BlockState WITH Wallet <- {gena, anna, bert, carl, dora},
    WalletOrder <- <<gena, anna, bert, carl, dora>>, Username <- {"A", "B", "C"},
    GenesisWallet <- gena, GenesisTxs <- GenesisTransactions, Txs <- BlockTransactions,
    Reward <- 2, ActiveValidators <- 2, Restarts <- FALSE, MaxHeight <- 3, MaxTxs <- 2,
    chain <- walletsChain
ASSUME WalletsInstance == Wallets!BlockStateAssumption
Restarted == INSTANCE BlockState WITH Wallet <- {gena, anna, bert, carl, dora},
    WalletOrder <- <<gena, anna, bert, carl, dora>>, Username <- {"A", "B", "C"},
    GenesisWallet <- gena, GenesisTxs <- GenesisTransactions, Txs <- FewTransactions,
    Reward <- 2, ActiveValidators <- 1, Restarts <- TRUE, MaxHeight <- 3, MaxTxs <- 2,
    chain <- walletsChain
ASSUME RestartedInstance == Restarted!BlockStateAssumption
Clone == INSTANCE WalletRepository WITH Addresses <- {anna, bert}, Usernames <- {"A", "B"},
    CopyOnWrite <- FALSE, None <- dora, MaxVersion <- 1, MaxCopies <- 2
ASSUME CloneInstance == Clone!RepositoryAssumption
PoolCopy == INSTANCE WalletRepository WITH Addresses <- {anna, bert}, Usernames <- {"A"},
    CopyOnWrite <- TRUE, None <- dora, MaxVersion <- 1, MaxCopies <- 1
ASSUME PoolCopyInstance == PoolCopy!RepositoryAssumption

databaseVars == <<disk, node, job, budget, request, answer, served>>
milestonesVars == <<milestones, cursor, height, walk>>
slotsVars == <<blockTimes, validators, time, slot>>
roundsVars == <<chain, votes, round, roundsDisk, roundsJob, roundsBudget>>
walletsVars == <<repo, walletsChain, block, pc>>
cloneVars == <<base, copy, forgotten, data, step>>
ledgerVars == <<component, databaseVars, milestonesVars, slotsVars, roundsVars, walletsVars,
    cloneVars>>

Idle == "idle"

LedgerInit ==
    /\ component \in {"database", "server", "milestones", "slots", "rounds", "wallets", "restarted", "clone", "poolCopy"}
    /\ ServerInit
    /\ IF component = "milestones" THEN Milestones!Init
       ELSE milestones = Idle /\ cursor = Idle /\ height = Idle /\ walk = Idle
    /\ IF component = "slots" THEN Slots!Init
       ELSE blockTimes = Idle /\ validators = Idle /\ time = Idle /\ slot = Idle
    /\ Rounds!Init /\ (component # "rounds" => chain = <<"v1">>)
    /\ IF component = "wallets" THEN Wallets!Init
       ELSE IF component = "restarted" THEN Restarted!Init
       ELSE repo = Idle /\ walletsChain = Idle /\ block = Idle /\ pc = Idle
    /\ IF component = "clone" THEN Clone!Init
       ELSE IF component = "poolCopy" THEN PoolCopy!Init
       ELSE base = Idle /\ copy = Idle /\ forgotten = Idle /\ data = Idle /\ step = Idle

LedgerNext ==
    \/ component = "database" /\ Next /\ UNCHANGED <<request, answer, served>>
       /\ UNCHANGED <<component, milestonesVars, slotsVars, roundsVars, walletsVars, cloneVars>>
    \/ component = "server" /\ ServerNext /\ FewServed
       /\ UNCHANGED <<component, milestonesVars, slotsVars, roundsVars, walletsVars, cloneVars>>
    \/ component = "milestones" /\ Milestones!Next
       /\ UNCHANGED <<component, databaseVars, slotsVars, roundsVars, walletsVars, cloneVars>>
    \/ component = "slots" /\ Slots!Next
       /\ UNCHANGED <<component, databaseVars, milestonesVars, roundsVars, walletsVars, cloneVars>>
    \/ component = "rounds" /\ Rounds!Next
       /\ UNCHANGED <<component, databaseVars, milestonesVars, slotsVars, walletsVars, cloneVars>>
    \/ component = "wallets" /\ Wallets!Next
       /\ UNCHANGED <<component, databaseVars, milestonesVars, slotsVars, roundsVars, cloneVars>>
    \/ component = "restarted" /\ Restarted!Next
       /\ UNCHANGED <<component, databaseVars, milestonesVars, slotsVars, roundsVars, cloneVars>>
    \/ component = "clone" /\ Clone!Next
       /\ UNCHANGED <<component, databaseVars, milestonesVars, slotsVars, roundsVars, walletsVars>>
    \/ component = "poolCopy" /\ PoolCopy!Next
       /\ UNCHANGED <<component, databaseVars, milestonesVars, slotsVars, roundsVars, walletsVars>>

LedgerSpec == LedgerInit /\ [][LedgerNext]_ledgerVars

\* The values the variables of each component take.
LedgerTypeOK ==
    /\ ServerTypeOK
    /\ component = "milestones" => Milestones!TypeOK
    /\ component = "slots" => Slots!TypeOK
    /\ component = "rounds" => Rounds!TypeOK
    /\ component = "wallets" => Wallets!TypeOK
    /\ component = "clone" => Clone!TypeOK

\* Whatever is registered, resigned and taken back in a copy of the wallets, its
\* indexes agree with its wallets, it answers as the chain would, each wallet has
\* one copy, and the chain's wallets are as they were.
CopiesApart ==
    /\ [](component = "clone" => Clone!IndexesSound /\ Clone!CloneAnswers /\ Clone!OneCopy)
    /\ [](component = "poolCopy" => PoolCopy!IndexesSound)
    /\ [][/\ component = "clone" => Clone!Isolated
          /\ component = "poolCopy" => PoolCopy!Isolated]_ledgerVars

\* Whatever heights were asked before, the milestone, round and block time of a
\* height are those counted block by block; across changes of the block time,
\* slots have no gaps, begin when slot-calculator.ts says, and validators take
\* turns.
CalendarExact ==
    /\ component = "milestones" =>
          /\ Milestones!CursorIsNoMemory /\ Milestones!RoundIsCounted
          /\ Milestones!NewRoundIsCounted /\ Milestones!NewBlockTimeIsChange
    /\ component = "slots" =>
          /\ Slots!SlotIsCounted /\ Slots!SlotsIncrease /\ Slots!SlotTimeIsStart /\ Slots!ForgersTakeTurns

\* After applied and reverted blocks and restarts, vote balances are the sums
\* of their voters' balances, no money appears or is lost, the wallets are those
\* of the chain, the indexes agree with them, no wallet but genesis owes, and
\* the last block can be reverted.
BalancesAsDecided ==
    /\ component = "wallets" =>
          /\ Wallets!VoteBalancesAreSums /\ Wallets!MoneySupply /\ Wallets!WalletsOfChain
          /\ Wallets!EnoughValidators /\ Wallets!NonGenesisNotNegative
          /\ Wallets!IndexesAgree /\ Wallets!LastBlockInChain /\ Wallets!RevertsPossible
    /\ component = "restarted" => Restarted!IndexesAgree /\ Restarted!LastBlockInChain

=============================================================================
