--------------------------- MODULE Configuration ---------------------------
(* The configuration of a node on disk, and the commands that write it:        *)
(* config:publish, config:generate (core-configuration-generator),             *)
(* config:forger, config:database and env:set (core/source/commands). Commands *)
(* run in terminals beside each other; each task of a list, each file the      *)
(* generator writes and each half of a read and write is a step.               *)
(*                                                                             *)
(* Abstracted: a file is the run that made it (0 for those that ship with the  *)
(* code) and what was set in it since; the crypto configuration also keeps the *)
(* options it was generated with.                                              *)
EXTENDS Genesis, FiniteSets, TLC

CONSTANTS
    Terminals,
    Networks,
    Shipped,        \* network -> the files bin/config has for it, {} if none
    Options,        \* the options of config:generate
    Keys,           \* the variables env:set and config:database set
    None,
    MaxRuns         \* bound: commands run

Files == {".env", "app.json", "crypto.json", "genesis-wallet.json", "peers.json", "validators.json"}
ConfigurationAssumption ==
    /\ DOMAIN Shipped = Networks /\ \A n \in Networks : Shipped[n] \subseteq Files
    /\ \A o \in Options : o.validators \in Nat \ {0} /\ o.premine \in Nat /\ o.rewardHeight \in Nat
    /\ MaxRuns \in Nat

VARIABLES
    folder,     \* network -> None, or the files of its configuration
    terminals,  \* terminal -> the command it runs
    runs        \* bounded counter, and the name of the last command
vars == <<folder, terminals, runs>>

Empty == [f \in {} |-> None]
File(run) == [run |-> run, set |-> Empty, options |-> None]
ShippedFile(f) == [File(0) EXCEPT !.set = IF f = ".env" THEN [k \in Keys |-> 0] ELSE Empty]
ShippedFiles(n) == [f \in Shipped[n] |-> ShippedFile(f)]
Exists(n) == folder[n] # None
Has(n, f) == Exists(n) /\ f \in DOMAIN folder[n]

(* A terminal: the command, its network, run and flags, the tasks left, and    *)
(* what it has read. Not of the code: the files others wrote or removed since  *)
(* it began to write.                                                          *)
Ready ==
    [command |-> None, network |-> None, run |-> 0, flag |-> FALSE, options |-> None, todo |-> <<>>,
     read |-> None, key |-> None, touched |-> {}]
At(t, task) == terminals[t].todo # <<>> /\ Head(terminals[t].todo) = task
Here(t) == terminals[t].network
Going(t) == [terminals[t] EXCEPT !.todo = Tail(@)]

(* What one terminal changes, the others of the same network did not see.      *)
Goes(t, terminal, changed) ==
    terminals' = [u \in Terminals |->
       IF u = t THEN IF terminal.todo = <<>> THEN Ready ELSE terminal
       ELSE IF terminals[u].network = Here(t) THEN [terminals[u] EXCEPT !.touched = @ \cup changed]
       ELSE terminals[u]]
Stays(t, terminal) == Goes(t, terminal, {}) /\ UNCHANGED <<folder, runs>>
Fails(t) == Stays(t, Ready)
Writes(t, files) ==
    /\ folder' = [folder EXCEPT ![Here(t)] = files @@ (IF @ = None THEN Empty ELSE @)]
    /\ Goes(t, Going(t), DOMAIN files)
    /\ UNCHANGED runs

Init ==
    /\ folder \in [Networks -> {None} \cup {ShippedFiles(n) : n \in {m \in Networks : Shipped[m] # {}}}]
    /\ \A n \in Networks : Exists(n) => DOMAIN folder[n] = Shipped[n]
    /\ terminals = [t \in Terminals |-> Ready]
    /\ runs = 0

(* The tasks of each command, in order. *)
PublishTasks == <<"prepare", "publish environment", "publish configuration">>
GenerateTasks ==
    <<"prepare", "genesis-wallet.json", "crypto.json", "peers.json", "validators.json", ".env", "app.json">>
SetTasks == <<"read variables", "write variables">>
ForgerTasks == <<"read validators", "write validators">>

Begin(t, terminal) ==
    /\ terminals[t] = Ready /\ runs < MaxRuns
    /\ runs' = runs + 1
    /\ terminals' = [terminals EXCEPT ![t] = [terminal EXCEPT !.run = runs + 1]]
    /\ UNCHANGED folder
Publish(t) ==
    \E n \in Networks, reset \in BOOLEAN :
        Begin(t, [Ready EXCEPT !.command = "publish", !.network = n, !.flag = reset, !.todo = PublishTasks])
Generate(t) ==
    \E n \in Networks, overwrite \in BOOLEAN, o \in Options :
        Begin(t, [Ready EXCEPT !.command = "generate", !.network = n, !.flag = overwrite, !.options = o,
                               !.todo = GenerateTasks])
(* env:set sets one variable, config:database one or more of its own. *)
SetVariable(t) ==
    \E n \in Networks, k \in Keys :
        Begin(t, [Ready EXCEPT !.command = "set", !.network = n, !.key = k, !.todo = SetTasks])
Forger(t) ==
    \E n \in Networks :
        Begin(t, [Ready EXCEPT !.command = "forger", !.network = n, !.key = "secrets", !.todo = ForgerTasks])

(* config:publish, "Prepare directories": with --reset the folder is removed   *)
(* before anything else is looked at.                                          *)
PreparePublish(t) ==
    /\ At(t, "prepare") /\ terminals[t].command = "publish"
    /\ LET n == Here(t)
           reset == terminals[t].flag
           refused == (Exists(n) /\ ~reset) \/ Shipped[n] = {}
           removed == IF reset THEN Files ELSE {}
       IN /\ folder' = [folder EXCEPT ![n] =
                          IF refused THEN (IF reset THEN None ELSE @) ELSE Empty]
          /\ Goes(t, IF refused THEN Ready ELSE Going(t), removed)
          /\ UNCHANGED runs
PublishEnvironment(t) ==
    /\ At(t, "publish environment")
    /\ IF ".env" \in Shipped[Here(t)] THEN Writes(t, ".env" :> ShippedFile(".env")) ELSE Fails(t)
PublishConfiguration(t) ==
    /\ At(t, "publish configuration")
    /\ Writes(t, ShippedFiles(Here(t)))

(* config:generate: refuses a folder that exists unless it may overwrite; the  *)
(* files are written one by one, with an await before each.                    *)
PrepareGenerate(t) ==
    /\ At(t, "prepare") /\ terminals[t].command = "generate"
    /\ IF Exists(Here(t)) /\ ~terminals[t].flag THEN Fails(t)
       ELSE /\ folder' = [folder EXCEPT ![Here(t)] = IF @ = None THEN Empty ELSE @]
            /\ Goes(t, Going(t), {})
            /\ UNCHANGED runs
WriteGenerated(t, f) ==
    /\ At(t, f)
    /\ IF ~Exists(Here(t)) THEN Fails(t)
       ELSE Writes(t, f :> [File(terminals[t].run) EXCEPT
                              !.options = IF f = "crypto.json" THEN terminals[t].options ELSE None])

(* Environment.updateVariables reads the file, sets, and writes all of it      *)
(* back; config:forger does the same with validators.json.                     *)
Edited(t) == IF terminals[t].command = "set" THEN ".env" ELSE "validators.json"
ReadFile(t) ==
    /\ At(t, "read variables") \/ At(t, "read validators")
    /\ IF ~Has(Here(t), Edited(t)) THEN Fails(t)
       ELSE Stays(t, [Going(t) EXCEPT !.read = folder[Here(t)][Edited(t)], !.touched = {}])
WriteFile(t) ==
    /\ At(t, "write variables") \/ At(t, "write validators")
    /\ IF ~Exists(Here(t)) THEN Fails(t)
       ELSE Writes(t, Edited(t) :> [terminals[t].read EXCEPT
                                      !.set = (terminals[t].key :> terminals[t].run) @@ @])
Refuse(t) == At(t, "read validators") /\ Fails(t)

Next ==
    \E t \in Terminals :
        \/ Publish(t) \/ Generate(t) \/ SetVariable(t) \/ Forger(t)
        \/ PreparePublish(t) \/ PublishEnvironment(t) \/ PublishConfiguration(t)
        \/ PrepareGenerate(t) \/ \E f \in Files : WriteGenerated(t, f)
        \/ ReadFile(t) \/ WriteFile(t) \/ Refuse(t)

Spec == Init /\ [][Next]_vars
-----------------------------------------------------------------------------
(* Properties. *)

\* The values the variables take.
TypeOK ==
    /\ \A n \in Networks : Exists(n) => DOMAIN folder[n] \subseteq Files
    /\ \A t \in Terminals : terminals[t].run \in 0..runs /\ terminals[t].touched \subseteq Files
    /\ runs \in 0..MaxRuns

\* Neither config:publish without --reset nor config:generate without
\* --overwriteConfig changes a file that was there before it began: what it
\* replaces somebody wrote meanwhile.
NothingReplaced ==
    \A t \in Terminals, n \in Networks :
        /\ terminals[t].command \in {"publish", "generate"} /\ terminals'[t].todo # terminals[t].todo
        /\ Here(t) = n /\ ~terminals[t].flag /\ Exists(n) /\ Exists(n)'
        => \A f \in DOMAIN folder[n] \cap DOMAIN folder'[n] :
              folder'[n][f] # folder[n][f] => f \in terminals[t].touched

\* A variable that is set changes no other, unless somebody else wrote the file
\* between the read and the write.
OthersKept ==
    \A t \in Terminals :
        WriteFile(t) /\ Exists(Here(t)) /\ Edited(t) \notin terminals[t].touched
          => LET before == folder[Here(t)][Edited(t)]
                 after == folder'[Here(t)][Edited(t)]
             IN /\ after.run = before.run
                /\ DOMAIN after.set = DOMAIN before.set \cup {terminals[t].key}
                /\ \A k \in DOMAIN before.set \ {terminals[t].key} : after.set[k] = before.set[k]

\* A configuration generated to its end, with nobody beside, is of one piece:
\* the secrets are of the validators its genesis block registers, and the chain
\* can apply that block.
GeneratedWhole ==
    \A t \in Terminals :
        /\ At(t, "app.json") /\ terminals[t].touched = {} /\ terminals'[t] = Ready /\ Exists(Here(t))
        => LET made == folder'[Here(t)]
           IN /\ DOMAIN made = Files
              /\ \A f \in Files : made[f].run = terminals[t].run
              /\ Applies(made["crypto.json"].options)
=============================================================================
