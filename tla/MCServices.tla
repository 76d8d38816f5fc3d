----------------------------- MODULE MCServices -----------------------------
(* What runs beside the chain of a node: the transaction pool, the forger, the *)
(* coding of blocks and transactions, the boot, the command line, webhooks and *)
(* submitted transactions. A behaviour is one of one component; each has its   *)
(* own small instance.                                                         *)
EXTENDS Services, Integers, Sequences, FiniteSets, TLC

CONSTANTS anna, bert

VARIABLES
    component,   \* the component this behaviour is of: no other one moves
    package, origin, held, check,
    phase, at, config, aliases, bound, loaded, bootFailed, deferred, active, listeners,
    bootCalls, closing, after, booted, bootBlocks, reboots,
    shipped, further, transactionTypes, schemas, registries, handlers, registered, attributes,
    uses,
    processes, registry, installed, file, terminals, runs, turns,
    folder, configurationTerminals, configurationRuns,
    plugins, pluginsOrigin, pluginsTerminals, pluginsRuns,
    database, webhooksFile, listening, server, dispatched, sending, told, history

\* The turns of three rounds; what is submitted as buffers, and as JSON.
TurnsOfRounds == <<{0}, {1}, {0}>>
OneBatch == {<<"t", "x">>}
TwoBatches == {<<"t", "x">>, <<"u", "t">>}

Senders == {anna, bert}

\* Two senders: two votes of one nonce and the next, a transfer that expires,
\* and one that is refused; and, for reverts and restarts, a choice of them.
Transfer(s, n, fee) ==
    [sender |-> s, nonce |-> n, fee |-> fee, kind |-> "transfer", name |-> None, expiration |-> 0]
Vote(s, n) == [Transfer(s, n, 2) EXCEPT !.kind = "vote"]
PoolTransactions ==
    {[Transfer(anna, 1, 1) EXCEPT !.expiration = 2], Vote(anna, 1), Vote(anna, 2), Transfer(bert, 1, 9)}
UnfitTransactions == {Transfer(bert, 1, 9)}
FewTransactions == {Transfer(anna, 1, 1), Vote(anna, 2), Transfer(bert, 1, 2)}

\* Bytes of eight values; opaque values of two or four cells; one transaction
\* of each type, and blocks of none to three of them.
CellWidth == [uint8 |-> 1, uint16 |-> 1, uint32 |-> 2, uint64 |-> 3]
CellSize == [hash |-> 2, address |-> 2, publicKey |-> 2, signature |-> 4]
TextCells == [x \in {"", "hi", "bob"} |-> CASE x = "" -> 0 [] x = "hi" -> 2 [] x = "bob" -> 3]
Plain(type, nonce) ==
    [marker |-> 7, version |-> 1, network |-> 2, typeGroup |-> 1, type |-> type, nonce |-> nonce, fee |-> 1,
     senderPublicKey |-> "k1", vendorField |-> "", signature |-> "", signatures |-> <<>>, id |-> ""]
Paid == [amount |-> 100, expiration |-> 9, recipient |-> "a"] @@ [Plain(0, 9) EXCEPT !.vendorField = "hi"]
PaidAgain == [amount |-> 5, expiration |-> 0, recipient |-> "b"] @@ Plain(0, 10)
Registered == [username |-> "bob"] @@ Plain(2, 1)
Voted == [votes |-> <<"k2">>, unvotes |-> <<"k1">>] @@ Plain(3, 2)
Grouped == [min |-> 1, publicKeys |-> <<"k1", "k2">>] @@ Plain(4, 4)
PaidMany ==
    [payments |-> <<[amount |-> 1, recipient |-> "a"], [amount |-> 70, recipient |-> "b"]>>]
      @@ [Plain(6, 3) EXCEPT !.vendorField = "hi"]
Resigned == Plain(7, 5)

\* The chain needs the state, which boots when the database does; a hook needs
\* what is not there.
BootPlugins == <<"state", "database", "chain", "hooks">>
FewPlugins == <<"state", "database", "chain">>
BootProviders == {"state", "database", "chain", "hooks"}
PluginAlias == [p \in BootProviders |-> IF p = "database" THEN "db" ELSE None]
PluginOptions == [p \in BootProviders |-> IF p = "hooks" THEN [enabled |-> "yes"] ELSE <<>>]
NoOptions == [p \in BootProviders |-> <<>>]
Needs(name, required) == [name |-> name, required |-> required, inRange |-> TRUE]
PluginNeeds ==
    [p \in BootProviders |-> CASE p = "chain" -> <<Needs("state", TRUE)>> [] p = "hooks" -> <<Needs("gone", TRUE)>>
                              [] OTHER -> <<>>]
BootsWhen == [p \in BootProviders |-> IF p = "state" THEN {"database"} ELSE {None}]
Never == [p \in BootProviders |-> {}]

\* Webhooks of one event, and one of the events the webhooks cause themselves.
Number(n) == [number |-> n]
Hook(event, conditions, target) == [event |-> event, conditions |-> conditions, target |-> target, enabled |-> TRUE]
Hooks ==
    {Hook("block.applied", <<>>, "x"), Hook("webhooks.failed", <<>>, "x"),
     Hook("block.applied", <<[condition |-> "gt", key |-> "height", value |-> Number(1)],
                             [condition |-> "truthy", key |-> "late", value |-> None]>>, "y")}
Told == {[height |-> Number(1)], [height |-> Number(2), late |-> [flag |-> TRUE]]}

\* Transaction plugins beside the shipped ones: a second version, a type whose
\* class its handler registers, and two that take the key of another.
Class(key, group, type, version, name, registers) ==
    [key |-> key, typeGroup |-> group, type |-> type, version |-> version, name |-> name, needs |-> {},
     attributes |-> {name}, fee |-> [managed |-> 1, static |-> 1], registers |-> registers]
FurtherClasses ==
    {Class("vote", 1, 3, 2, "Vote2", TRUE), Class("entity", 2, 1, 1, "Entity", FALSE),
     Class("vote", 1, 9, 1, "OtherVote", TRUE), Class("vote", 2, 0, 1, "OwnVote", TRUE)}
Arriving ==
    {[typeGroup |-> x[1], type |-> x[2], version |-> v, fee |-> 1, size |-> 2] :
        x \in {<<1, 0>>, <<1, 3>>, <<1, 9>>, <<2, 0>>, <<2, 1>>}, v \in 0..3}

\* What config:generate is asked for, and the packages plugin:install is.
GenesisOptions ==
    {[validators |-> 3, premine |-> 7, distribute |-> d, rewardHeight |-> 2, reward |-> 1] : d \in BOOLEAN}
ShippedConfiguration ==
    [n \in {"testnet", "livenet"} |->
        IF n = "livenet" THEN {}
        ELSE {".env", "app.json", "crypto.json", "genesis-wallet.json", "peers.json", "validators.json"}]
Package(value, kind, name) == [value |-> value, kind |-> kind, name |-> name]
PackageSet ==
    {Package("a", "npm", "a"), Package("b", "npm", "b"), Package("b", "file", "a"),
     Package("g", "git", "b"), Package("x", "file", None)}

ASSUME ServicesInstance == ServicesAssumption
Readding == INSTANCE TransactionPool WITH Tx <- FewTransactions, Unfit <- {},
    Sender <- {anna, bert}, Call <- {1, 2}, None <- None, MaxTransactionsInPool <- 1,
    MaxTransactionsPerSender <- 2, MaxTransactionAge <- 1, Racing <- FALSE, MaxHeight <- 1,
    MaxReverts <- 1, MaxRestarts <- 1, MaxReadds <- 1
ASSUME ReaddingInstance == Readding!PoolAssumption
Codec == INSTANCE Codec WITH Base <- 8, Width <- CellWidth, Size <- CellSize,
    TextLength <- TextCells, Capacity <- 140,
    Unsigned <- {Paid, Registered, Voted, Grouped, PaidMany, Resigned},
    Originals <- {<<>>, <<Paid>>, <<Paid, PaidAgain>>, <<Voted, PaidMany, Registered>>},
    MultiKeys <- {"k1", "k2", "k3"}, MaxTransactions <- 3, MaxPayload <- 130,
    Packages <- {"signature", "hash"}
ASSUME CodecInstance == Codec!CodecAssumption
Booting == INSTANCE ServiceProviders WITH Plugins <- BootPlugins, Alias <- PluginAlias,
    Defaults <- NoOptions, Globals <- NoOptions, Options <- PluginOptions, Invalid <- {"no"},
    Required <- {"state", "database", "chain"}, Dependencies <- PluginNeeds,
    BootWhen <- BootsWhen, DisposeWhen <- Never, MayThrow <- {"state", "hooks"},
    Moody <- {"hooks"}, Chain <- "chain", Overlapping <- FALSE, None <- None, MaxBlocks <- 2,
    MaxReboots <- 0, MaxTasks <- 6, failed <- bootFailed, calls <- bootCalls,
    blocks <- bootBlocks
ASSUME BootingInstance == Booting!ProvidersAssumption
Rebooting == INSTANCE ServiceProviders WITH Plugins <- FewPlugins, Alias <- PluginAlias,
    Defaults <- NoOptions, Globals <- NoOptions, Options <- PluginOptions, Invalid <- {"no"},
    Required <- {"state", "database", "chain"}, Dependencies <- PluginNeeds,
    BootWhen <- BootsWhen, DisposeWhen <- Never, MayThrow <- {}, Moody <- {}, Chain <- "chain",
    Overlapping <- FALSE, None <- None, MaxBlocks <- 1, MaxReboots <- 1, MaxTasks <- 9,
    failed <- bootFailed, calls <- bootCalls, blocks <- bootBlocks
ASSUME RebootingInstance == Rebooting!ProvidersAssumption
Types == INSTANCE TransactionTypes WITH Further <- FurtherClasses, Data <- Arriving,
    FeeType <- "static", SatoshiPerByte <- 3, None <- None, MaxUses <- 2
ASSUME TypesInstance == Types!TypesAssumption
Cli == INSTANCE CommandLine WITH Terminals <- {1, 2},
    Commands <- {"start", "stopDaemon", "restart", "clear"}, Published <- {"livenet"},
    None <- None, MaxRelease <- 1, MaxRuns <- 2, MaxTurns <- 1
ASSUME CliInstance == Cli!CommandLineAssumption
Updates == INSTANCE CommandLine WITH Terminals <- {1, 2},
    Commands <- {"updateRestart", "useNext", "reinstall", "stop"},
    Published <- {"livenet", "testnet"}, None <- None, MaxRelease <- 2, MaxRuns <- 2,
    MaxTurns <- 0
ASSUME UpdatesInstance == Updates!CommandLineAssumption
Configured == INSTANCE Configuration WITH Terminals <- {1, 2},
    Networks <- {"testnet", "livenet"}, Shipped <- ShippedConfiguration,
    Options <- GenesisOptions, Keys <- {"k", "m"}, None <- None, MaxRuns <- 2,
    terminals <- configurationTerminals, runs <- configurationRuns
ASSUME ConfiguredInstance == Configured!ConfigurationAssumption
Installing == INSTANCE Plugins WITH Terminals <- {1, 2}, Packages <- PackageSet, None <- None,
    MaxRuns <- 3, origin <- pluginsOrigin, terminals <- pluginsTerminals, runs <- pluginsRuns
ASSUME InstallingInstance == Installing!PluginsAssumption
Hooking == INSTANCE Webhooks WITH Events <- {"block.applied"}, Payloads <- Told,
    Requests <- Hooks, None <- None, MaxHooks <- 2, MaxEvents <- 2, MaxCrashes <- 1,
    MaxChanges <- 2, file <- webhooksFile
ASSUME HookingInstance == Hooking!WebhooksAssumption
Jsoned == INSTANCE Submission WITH Nodes <- Nodes, Batches <- TwoBatches, Misread <- {},
    Broken <- {"x"}, Private <- Private, BuffersArrive <- FALSE, MaxPeers <- MaxPeers,
    MaxCalls <- 2, MaxForged <- 1, MaxDisposed <- 1, storage <- submissionStorage,
    calls <- submissionCalls, history <- submissionHistory
ASSUME JsonedInstance == Jsoned!SubmissionAssumption

poolVars == <<storage, mempool, calls, blocks, accepted, cleaning, failed, readding, node,
    count>>
forgerVars == <<now, tip, pc, wake, round, network, incoming, queue, coldStart, restarts,
    forged, waited, odd>>
codecVars == <<package, origin, held, check>>
bootVars == <<phase, at, config, aliases, bound, loaded, bootFailed, deferred, active,
    listeners, bootCalls, closing, after, booted, bootBlocks, reboots>>
typesVars == <<shipped, further, transactionTypes, schemas, registries, handlers, registered,
    attributes, uses>>
cliVars == <<processes, registry, installed, file, terminals, runs, turns>>
configurationVars == <<folder, configurationTerminals, configurationRuns>>
pluginsVars == <<plugins, pluginsOrigin, pluginsTerminals, pluginsRuns>>
webhooksVars == <<database, webhooksFile, listening, server, dispatched, sending, told,
    history>>
submissionVars == <<submissionStorage, submissionCalls, answers, posts, disposed,
    submissionHistory>>
vars == <<component, poolVars, forgerVars, codecVars, bootVars, typesVars, cliVars,
    configurationVars, pluginsVars, webhooksVars, submissionVars>>

Idle == "idle"

Init ==
    /\ component \in {"pool", "readding", "forger", "codec", "boot", "reboot", "types", "cli", "updates", "configuration", "plugins", "webhooks", "submission", "json"}
    /\ Pool!Init
    /\ Forging!Init
    /\ IF component = "codec" THEN Codec!Init
       ELSE package = Idle /\ origin = Idle /\ held = Idle /\ check = Idle
    /\ IF component = "boot" THEN Booting!Init
       ELSE IF component = "reboot" THEN Rebooting!Init
       ELSE phase = Idle /\ at = Idle /\ config = Idle /\ aliases = Idle /\ bound = Idle /\
            loaded = Idle /\ bootFailed = Idle /\ deferred = Idle /\ active = Idle /\
            listeners = Idle /\ bootCalls = Idle /\ closing = Idle /\ after = Idle /\
            booted = Idle /\ bootBlocks = Idle /\ reboots = Idle
    /\ IF component = "types" THEN Types!Init
       ELSE shipped = Idle /\ further = Idle /\ transactionTypes = Idle /\ schemas = Idle /\
            registries = Idle /\ handlers = Idle /\ registered = Idle /\ attributes = Idle /\
            uses = Idle
    /\ IF component = "cli" THEN Cli!Init
       ELSE IF component = "updates" THEN Updates!Init
       ELSE processes = Idle /\ registry = Idle /\ installed = Idle /\ file = Idle /\
            terminals = Idle /\ runs = Idle /\ turns = Idle
    /\ IF component = "configuration" THEN Configured!Init
       ELSE folder = Idle /\ configurationTerminals = Idle /\ configurationRuns = Idle
    /\ IF component = "plugins" THEN Installing!Init
       ELSE plugins = Idle /\ pluginsOrigin = Idle /\ pluginsTerminals = Idle /\
            pluginsRuns = Idle
    /\ IF component = "webhooks" THEN Hooking!Init
       ELSE database = Idle /\ webhooksFile = Idle /\ listening = Idle /\ server = Idle /\
            dispatched = Idle /\ sending = Idle /\ told = Idle /\ history = Idle
    /\ Submitting!Init

Next ==
    \/ component = "pool" /\ Pool!Next
       /\ UNCHANGED <<component, forgerVars, codecVars, bootVars, typesVars, cliVars,
          configurationVars, pluginsVars, webhooksVars, submissionVars>>
    \/ component = "readding" /\ Readding!Next
       /\ UNCHANGED <<component, forgerVars, codecVars, bootVars, typesVars, cliVars,
          configurationVars, pluginsVars, webhooksVars, submissionVars>>
    \/ component = "forger" /\ Forging!Next
       /\ UNCHANGED <<component, poolVars, codecVars, bootVars, typesVars, cliVars,
          configurationVars, pluginsVars, webhooksVars, submissionVars>>
    \/ component = "codec" /\ Codec!Next
       /\ UNCHANGED <<component, poolVars, forgerVars, bootVars, typesVars, cliVars,
          configurationVars, pluginsVars, webhooksVars, submissionVars>>
    \/ component = "boot" /\ Booting!Next
       /\ UNCHANGED <<component, poolVars, forgerVars, codecVars, typesVars, cliVars,
          configurationVars, pluginsVars, webhooksVars, submissionVars>>
    \/ component = "reboot" /\ Rebooting!Next
       /\ UNCHANGED <<component, poolVars, forgerVars, codecVars, typesVars, cliVars,
          configurationVars, pluginsVars, webhooksVars, submissionVars>>
    \/ component = "types" /\ Types!Next
       /\ UNCHANGED <<component, poolVars, forgerVars, codecVars, bootVars, cliVars,
          configurationVars, pluginsVars, webhooksVars, submissionVars>>
    \/ component = "cli" /\ Cli!Next
       /\ UNCHANGED <<component, poolVars, forgerVars, codecVars, bootVars, typesVars,
          configurationVars, pluginsVars, webhooksVars, submissionVars>>
    \/ component = "updates" /\ Updates!Next
       /\ UNCHANGED <<component, poolVars, forgerVars, codecVars, bootVars, typesVars,
          configurationVars, pluginsVars, webhooksVars, submissionVars>>
    \/ component = "configuration" /\ Configured!Next
       /\ UNCHANGED <<component, poolVars, forgerVars, codecVars, bootVars, typesVars, cliVars,
          pluginsVars, webhooksVars, submissionVars>>
    \/ component = "plugins" /\ Installing!Next
       /\ UNCHANGED <<component, poolVars, forgerVars, codecVars, bootVars, typesVars, cliVars,
          configurationVars, webhooksVars, submissionVars>>
    \/ component = "webhooks" /\ Hooking!Next
       /\ UNCHANGED <<component, poolVars, forgerVars, codecVars, bootVars, typesVars, cliVars,
          configurationVars, pluginsVars, submissionVars>>
    \/ component = "submission" /\ Submitting!Next
       /\ UNCHANGED <<component, poolVars, forgerVars, codecVars, bootVars, typesVars, cliVars,
          configurationVars, pluginsVars, webhooksVars>>
    \/ component = "json" /\ Jsoned!Next
       /\ UNCHANGED <<component, poolVars, forgerVars, codecVars, bootVars, typesVars, cliVars,
          configurationVars, pluginsVars, webhooksVars>>

Spec == Init /\ [][Next]_vars

\* The values the variables of each component take.
ServicesTypeOK ==
    /\ component = "pool" => Pool!TypeOK
    /\ component = "readding" => Readding!TypeOK
    /\ Forging!ForgerTypeOK
    /\ component = "codec" => Codec!TypeOK
    /\ component = "boot" => Booting!TypeOK
    /\ component = "types" => Types!TypeOK
    /\ component = "cli" => Cli!TypeOK
    /\ component = "updates" => Updates!TypeOK
    /\ component = "configuration" => Configured!TypeOK
    /\ component = "plugins" => Installing!TypeOK
    /\ component = "webhooks" => Hooking!TypeOK
    /\ component = "submission" => Submitting!TypeOK
    /\ component = "json" => Jsoned!TypeOK

\* Through all its forms a transaction means what it did, and a block keeps its
\* header, its id and its transactions; a block verifies as it was made and not
\* when altered, its size is what it takes, and no key counts twice. A transaction
\* is handled as the class that read it.
MeaningKept ==
    /\ component = "codec" =>
          /\ Codec!TransactionKept /\ Codec!BlockKept /\ Codec!VerifiedAsMade
          /\ Codec!SizeIsTaken /\ Codec!MultiVerified
    /\ component = "types" => Types!ReadAsHandled

\* Whatever boots, fails or is applied meanwhile: no provider is booted twice, each
\* one is loaded, deferred or failed and loaded only if booted, one that waits for
\* another boots with it, and none outlives what was loaded before it. Transaction
\* handlers are used only when all of them are registered with what they need.
ProvidersAccounted ==
    /\ component = "boot" => Booting!BootedOnce /\ Booting!Accounted /\ Booting!BootedWithTheirs
    /\ component = "reboot" => Rebooting!BootedWithTheirs /\ Rebooting!ClosedInReverse
    /\ component = "types" => Types!RegisteredMeansAll /\ Types!NeverHalfRegistered

\* Commands in terminals beside each other start and clear only what they found
\* stopped, install only what is newer and with its dependencies, and replace no
\* configuration or plugin but their own, unless another command came between
\* their look and their change; webhooks survive a restart, and what comes of a
\* post is reported once and causes no other.
OperatedSafely ==
    /\ [][/\ component = "cli" => Cli!StartsAlone /\ Cli!ClearsAlone /\ Cli!RestartsWhatRan
          /\ component = "updates" => Updates!DependenciesFit /\ Updates!UpdatesAfterADay /\ Updates!RestartedAllRunIt
          /\ component = "configuration" =>
                Configured!NothingReplaced /\ Configured!OthersKept /\ Configured!GeneratedWhole
          /\ component = "plugins" =>
                Installing!PlacesWhatItFound /\ Installing!OthersUntouched /\ Installing!InstalledWithDependencies
          /\ component = "webhooks" => Hooking!RestartKeepsHooks /\ Hooking!OthersStay]_vars
    /\ [](component = "webhooks" => Hooking!NoCycle /\ Hooking!EveryPostReported)

=============================================================================
