---------------------------- MODULE CommandLine ----------------------------
(* The command line: terminals that run commands beside each other on one      *)
(* machine (core/source/cli.ts, commands/*.ts; core-cli actions, Process,      *)
(* ProcessManager, Updater, Installer, Config). They share the processes pm2   *)
(* keeps, the installed packages and the registry; each shell call, prompt and *)
(* request is a step, and the others run between two of them.                  *)
(*                                                                             *)
(* Abstracted: one token; a release is a number, larger is newer; the peer     *)
(* dependency of a release is the release of its own number; logging, tables   *)
(* and the command line of a process are left out. pm2 always answers.         *)
EXTENDS Integers, Sequences, FiniteSets

CONSTANTS
    Terminals,
    Commands,       \* the commands of the instance, out of AllCommands
    Published,      \* the networks a configuration is published of
    None,
    MaxRelease,     \* bound: releases published
    MaxRuns,        \* bound: commands begun
    MaxTurns        \* bound: times a process changes by itself

Names == {"core", "relay", "forger"}
Channels == {"latest", "next"}
Statuses == {"missing", "online", "stopped", "errored"}
AllCommands ==
    {"start", "stop", "stopDaemon", "restart", "clear", "update", "updateForced", "updateRestart",
     "reinstall", "useNext", "useLatest"}

CommandLineAssumption ==
    /\ Commands \subseteq AllCommands /\ Published \subseteq {"livenet", "testnet"}
    /\ MaxRelease \in Nat \ {0} /\ MaxRuns \in Nat /\ MaxTurns \in Nat

VARIABLES
    processes,      \* name -> [status, release]: what pm2 keeps
    registry,       \* channel -> the release its tag names
    installed,      \* [cli, peers]: the releases installed globally
    file,           \* config.json: the channel, the latest release seen, if one was looked for
    terminals,      \* terminal -> the command it runs
    runs, turns     \* bounded counters
vars == <<processes, registry, installed, file, terminals, runs, turns>>

(* What a command does, in order. *)
Step(do, on) == [do |-> do, on |-> on]
Refuse(n) == Step("refuseRunning", n)
Installs(tag) == <<Step("installPeers", tag), Step("install", tag)>>
AskRestart(n) == Step("askRestart", n)
AskRestarts == <<AskRestart("core"), AskRestart("relay"), AskRestart("forger")>>
RestartOnline(n) == Step("restartOnline", n)
RestartsOnline == <<RestartOnline("core"), RestartOnline("relay"), RestartOnline("forger")>>
Network == Step("network", None)

\* Faulty variant: a running relay is not looked for.
CoreStartBesideRelay == <<Network, Refuse("forger"), Step("daemonize", "core"), Step("start", "core")>>

CoreStart ==
    <<Network, Refuse("forger"), Refuse("relay"), Step("daemonize", "core"), Step("start", "core")>>
ProcessStop(daemon) ==
    <<Step("refuseMissing", "core"), Step("refuseUnknown", "core"), Step("refuseStopped", "core"),
      Step(IF daemon THEN "delete" ELSE "stop", "core")>>
ProcessRestart == <<Step("refuseMissing", "core"), Step("refuseStopped", "core"), Step("restart", "core")>>
PoolClear ==
    <<Network, Refuse("core"), Refuse("forger"), Refuse("relay"), Step("confirm", None), Step("clear", None)>>
UpdaterUpdate(force) ==
    (IF force THEN <<>> ELSE <<Step("confirm", None)>>) \o Installs("channel")
Update(force, restart) ==
    <<Step("recheck", None)>> \o UpdaterUpdate(force)
      \o (IF restart THEN RestartsOnline ELSE IF force THEN <<>> ELSE AskRestarts)
Reinstall ==
    <<Step("confirm", None)>> \o Installs("own") \o <<Step("updateManager", None)>> \o AskRestarts
ConfigCli(channel) == <<Step("setChannel", channel)>> \o Installs("channel") \o AskRestarts

Does(command) ==
    CASE command = "start" -> CoreStart
      [] command = "stop" -> ProcessStop(FALSE)
      [] command = "stopDaemon" -> ProcessStop(TRUE)
      [] command = "restart" -> ProcessRestart
      [] command = "clear" -> PoolClear
      [] command = "update" -> Update(FALSE, FALSE)
      [] command = "updateForced" -> Update(TRUE, FALSE)
      [] command = "updateRestart" -> Update(FALSE, TRUE)
      [] command = "reinstall" -> Reinstall
      [] command = "useNext" -> ConfigCli("next")
      [] command = "useLatest" -> ConfigCli("latest")

(* A terminal: the command, the steps left, the release the command line is    *)
(* of, its copy of the configuration, Updater's #latestVersion and whether a   *)
(* day has passed since it looked. Not of the code: whether a day passed at    *)
(* all, the names that came up or went down since they were looked at, and     *)
(* whether others touched the packages since this one began to install.        *)
Ready ==
    [command |-> None, todo |-> <<>>, release |-> 0, store |-> None, latest |-> None, dayOld |-> FALSE,
     waited |-> FALSE, cameUp |-> {}, wentDown |-> {}, disturbed |-> FALSE]
Running(t) == terminals[t].todo # <<>>
At(t, do) == Running(t) /\ Head(terminals[t].todo).do = do
On(t) == Head(terminals[t].todo).on

(* Config.initialize writes the defaults before it loads the file: every start *)
(* of the command line forgets what the last one saved.                        *)
Defaults == [channel |-> "latest", latest |-> None, looked |-> FALSE]

(* getLatestVersion: a release of the channel newer than this one. *)
Newer(t, channel) ==
    IF registry[channel] > terminals[t].release THEN registry[channel] ELSE None

(* Updater.check; with no last check in the store the interval compares with   *)
(* NaN and the registry is asked.                                              *)
Checked(terminal, newer) ==
    IF terminal.store.looked /\ ~terminal.dayOld
      THEN [terminal EXCEPT !.latest = terminal.store.latest, !.store.latest = None]
      ELSE [terminal EXCEPT !.store.looked = TRUE, !.dayOld = FALSE,
                            !.store.latest = newer,
                            !.latest = IF newer = None THEN terminal.store.latest ELSE newer]
FoundNew(terminal, newer) == (~terminal.store.looked \/ terminal.dayOld) /\ newer # None

(* A terminal goes on, or ends: fatal() throws, and so does a shell call that  *)
(* fails.                                                                      *)
Continue(terminal) == [terminal EXCEPT !.todo = Tail(@)]
Goes(t, terminal) ==
    terminals' = [terminals EXCEPT ![t] = IF terminal.todo = <<>> THEN Ready ELSE terminal]
Looked(terminal, n) == [terminal EXCEPT !.cameUp = @ \ {n}, !.wentDown = @ \ {n}]

(* A process changes: what the terminals know of it is of another state now.   *)
Status(n) == processes[n].status
Turned(n, status, others) ==
    /\ processes' = [processes EXCEPT ![n] =
                       [status |-> status, release |-> IF status = "online" THEN installed.cli ELSE 0]]
    /\ terminals' = [u \in Terminals |->
         IF others[u].todo = <<>> THEN Ready
         ELSE [others[u] EXCEPT
                 !.cameUp = IF status = "online" /\ Status(n) # "online" THEN @ \cup {n} ELSE @,
                 !.wentDown = IF status # "online" /\ Status(n) = "online" THEN @ \cup {n} ELSE @]]

Init ==
    /\ processes \in [Names -> {[status |-> "missing", release |-> 0], [status |-> "online", release |-> 1]}]
    /\ processes["relay"].status = "missing"
    /\ registry = [c \in Channels |-> 1]
    /\ installed = [cli |-> 1, peers |-> 1]
    /\ file = Defaults
    /\ terminals = [t \in Terminals |-> Ready]
    /\ runs = 0 /\ turns = 0

(* CommandLineInterface.execute: makes the application (the configuration is   *)
(* the defaults again), checks for updates, and registers and runs the command.*)
Execute(t, command) ==
    /\ ~Running(t) /\ runs < MaxRuns
    /\ runs' = runs + 1
    /\ LET begun == [Ready EXCEPT !.command = command, !.release = installed.cli, !.store = Defaults,
                                  !.todo = <<Step("discover", None)>> \o Does(command)]
           newer == IF registry["latest"] > installed.cli THEN registry["latest"] ELSE None
       IN /\ Goes(t, Checked(begun, newer))
          /\ file' = Checked(begun, newer).store
    /\ UNCHANGED <<processes, registry, installed, turns>>

(* The checks of the processes: AbortRunningProcess, AbortMissingProcess,      *)
(* AbortUnknownProcess, AbortStoppedProcess.                                   *)
Refuses(t, do, refused) ==
    /\ At(t, do)
    /\ Goes(t, IF refused THEN Ready ELSE Looked(Continue(terminals[t]), On(t)))
    /\ UNCHANGED <<processes, registry, installed, file, runs, turns>>
AbortRunning(t) == At(t, "refuseRunning") /\ Refuses(t, "refuseRunning", Status(On(t)) = "online")
AbortMissing(t) == At(t, "refuseMissing") /\ Refuses(t, "refuseMissing", Status(On(t)) = "missing")
AbortUnknown(t) == At(t, "refuseUnknown") /\ Refuses(t, "refuseUnknown", Status(On(t)) = "missing")
AbortStopped(t) == At(t, "refuseStopped") /\ Refuses(t, "refuseStopped", Status(On(t)) = "stopped")

(* DaemonizeProcess: the process is looked at only if pm2 has it. *)
Daemonize(t) ==
    /\ At(t, "daemonize")
    /\ Goes(t, [terminals[t] EXCEPT
                  !.todo = (IF Status(On(t)) = "missing" THEN <<>>
                            ELSE <<Step("refuseUnknown", On(t)), Refuse(On(t))>>) \o Tail(@)])
    /\ UNCHANGED <<processes, registry, installed, file, runs, turns>>

(* ProcessManager: what a call of pm2 does (a call for a process pm2 does not  *)
(* have fails, and so does the start of one that runs).                        *)
Calls(t, do, fails, status) ==
    /\ At(t, do)
    /\ IF fails THEN Goes(t, Ready) /\ UNCHANGED processes
       ELSE Turned(On(t), status, [terminals EXCEPT ![t] = Continue(@)])
    /\ UNCHANGED <<registry, installed, file, runs, turns>>
Start(t) == At(t, "start") /\ Calls(t, "start", Status(On(t)) = "online", "online")
Stop(t) == At(t, "stop") /\ Calls(t, "stop", Status(On(t)) = "missing", "stopped")
Delete(t) == At(t, "delete") /\ Calls(t, "delete", Status(On(t)) = "missing", "missing")
Restart(t) == At(t, "restart") /\ Calls(t, "restart", Status(On(t)) = "missing", "online")

(* RestartRunningProcess and RestartRunningProcessWithPrompt: look, ask,       *)
(* restart; the answer may come much later than the look.                      *)
RestartIfOnline(t, prompted) ==
    /\ At(t, IF prompted THEN "askRestart" ELSE "restartOnline")
    /\ Goes(t, LET next == Continue(terminals[t]) IN
               IF Status(On(t)) # "online" THEN next
               ELSE Looked([next EXCEPT !.todo =
                      <<Step(IF prompted THEN "answer" ELSE "restart", On(t))>> \o @], On(t)))
    /\ UNCHANGED <<processes, registry, installed, file, runs, turns>>
Answer(t) ==
    /\ At(t, "answer")
    /\ \E yes \in BOOLEAN :
         Goes(t, [terminals[t] EXCEPT !.todo = (IF yes THEN <<Step("restart", On(t))>> ELSE <<>>) \o Tail(@)])
    /\ UNCHANGED <<processes, registry, installed, file, runs, turns>>

(* The prompts: the network whose plugins bring commands, if several are       *)
(* published; the network of a command that needs one; a confirmation. A       *)
(* prompt may stay open for a day.                                             *)
Discover(t) ==
    /\ At(t, "discover")
    /\ Goes(t, Continue(terminals[t]))
    /\ UNCHANGED <<processes, registry, installed, file, runs, turns>>
DiscoverNetwork(t) ==
    /\ At(t, "network")
    /\ \/ Published # {} /\ Goes(t, Continue(terminals[t]))
       \/ Cardinality(Published) # 1 /\ Goes(t, Ready)
    /\ UNCHANGED <<processes, registry, installed, file, runs, turns>>
Confirm(t) ==
    /\ At(t, "confirm")
    /\ \E yes \in BOOLEAN : Goes(t, IF yes THEN Continue(terminals[t]) ELSE Ready)
    /\ UNCHANGED <<processes, registry, installed, file, runs, turns>>
DayPasses(t) ==
    /\ At(t, "confirm") \/ (Cardinality(Published) > 1 /\ (At(t, "discover") \/ At(t, "network")))
    /\ ~terminals[t].waited
    /\ terminals' = [terminals EXCEPT ![t].dayOld = TRUE, ![t].waited = TRUE]
    /\ UNCHANGED <<processes, registry, installed, file, runs, turns>>

(* update: looks again, and has nothing to do unless that found a release.     *)
Recheck(t) ==
    /\ At(t, "recheck")
    /\ LET newer == Newer(t, terminals[t].store.channel)
           checked == Checked(terminals[t], newer)
       IN /\ Goes(t, IF FoundNew(terminals[t], newer) THEN Continue(checked) ELSE Ready)
          /\ file' = checked.store
    /\ UNCHANGED <<processes, registry, installed, runs, turns>>

(* config:cli: refuses the channel the configuration names already.            *)
SetChannel(t) ==
    /\ At(t, "setChannel")
    /\ IF terminals[t].store.channel = On(t) THEN Goes(t, Ready) /\ UNCHANGED file
       ELSE /\ Goes(t, [Continue(terminals[t]) EXCEPT !.store.channel = On(t)])
            /\ file' = [terminals[t].store EXCEPT !.channel = On(t)]
    /\ UNCHANGED <<processes, registry, installed, runs, turns>>

(* Installer.install: the peer dependencies of the release the tag names, and  *)
(* then that release; the tag is read anew each time, and each may fail.       *)
Tagged(t) == IF On(t) = "own" THEN terminals[t].release ELSE registry[terminals[t].store.channel]
Disturb(t, terminal) ==
    [u \in Terminals |->
       IF u = t THEN (IF terminal.todo = <<>> THEN Ready ELSE terminal)
       ELSE [terminals[u] EXCEPT !.disturbed = Running(u)]]
InstallPeers(t) ==
    /\ At(t, "installPeers")
    /\ \/ /\ installed' = [installed EXCEPT !.peers = Tagged(t)]
          /\ terminals' = Disturb(t, [Continue(terminals[t]) EXCEPT !.disturbed = FALSE])
       \/ UNCHANGED installed /\ Goes(t, Ready)
    /\ UNCHANGED <<processes, registry, file, runs, turns>>
Install(t) ==
    /\ At(t, "install")
    /\ \/ /\ installed' = [installed EXCEPT !.cli = Tagged(t)]
          /\ terminals' = Disturb(t, Continue(terminals[t]))
       \/ UNCHANGED installed /\ Goes(t, Ready)
    /\ UNCHANGED <<processes, registry, file, runs, turns>>

(* pm2 update starts every process that runs again. *)
UpdateManager(t) ==
    /\ At(t, "updateManager")
    /\ processes' = [n \in Names |-> IF Status(n) = "online" THEN [processes[n] EXCEPT !.release = installed.cli]
                                     ELSE processes[n]]
    /\ Goes(t, Continue(terminals[t]))
    /\ UNCHANGED <<registry, installed, file, runs, turns>>

(* pool:clear removes the folder transaction-pool of the data; the pool keeps  *)
(* its rows in the file transaction-pool.sqlite, which stays.                  *)
Clear(t) ==
    /\ At(t, "clear")
    /\ Goes(t, Continue(terminals[t]))
    /\ UNCHANGED <<processes, registry, installed, file, runs, turns>>

(* What happens beside the command line: a release is published, a process     *)
(* fails for good, comes up by itself or by another hand, or is started anew.  *)
Publish(channel) ==
    /\ \E n \in 1..MaxRelease :
         /\ \A c \in Channels : registry[c] < n
         /\ registry' = [registry EXCEPT ![channel] = n]
    /\ terminals' = [u \in Terminals |-> [terminals[u] EXCEPT !.disturbed = @ \/ At(u, "install")]]
    /\ UNCHANGED <<processes, installed, file, runs, turns>>
TurnsItself(n) ==
    /\ turns < MaxTurns
    /\ turns' = turns + 1
    /\ \/ Status(n) = "online" /\ Turned(n, "errored", terminals)
       \/ Turned(n, "online", terminals)
    /\ UNCHANGED <<registry, installed, file, runs>>

Next ==
    \/ \E t \in Terminals :
         \/ \E command \in Commands : Execute(t, command)
         \/ AbortRunning(t) \/ AbortMissing(t) \/ AbortUnknown(t) \/ AbortStopped(t)
         \/ Daemonize(t) \/ Start(t) \/ Stop(t) \/ Delete(t) \/ Restart(t)
         \/ \E prompted \in BOOLEAN : RestartIfOnline(t, prompted)
         \/ Answer(t) \/ Discover(t) \/ DiscoverNetwork(t) \/ Confirm(t) \/ DayPasses(t)
         \/ Recheck(t) \/ SetChannel(t) \/ InstallPeers(t) \/ Install(t) \/ UpdateManager(t) \/ Clear(t)
    \/ \E c \in Channels : Publish(c)
    \/ \E n \in Names : TurnsItself(n)

Spec == Init /\ [][Next]_vars
-----------------------------------------------------------------------------
(* Properties. *)

Online == {n \in Names : Status(n) = "online"}

\* The values the variables take.
TypeOK ==
    /\ processes \in [Names -> [status : Statuses, release : 0..MaxRelease]]
    /\ registry \in [Channels -> 1..MaxRelease]
    /\ installed \in [cli : 1..MaxRelease, peers : 1..MaxRelease]
    /\ file.channel \in Channels
    /\ \A t \in Terminals : terminals[t].command \in Commands \cup {None}
    /\ \A n \in Names : processes[n].release = 0 <=> Status(n) # "online"

\* core:start brings the node up beside a running relay or forger only if that
\* one came up after it was looked at, however the terminals interleave.
StartsAlone ==
    \A t \in Terminals :
        Start(t) /\ Status("core") # "online" => Online \subseteq terminals[t].cameUp

\* pool:clear clears beside a running process only if that one came up after
\* it was looked at, the confirmation may take as long as it likes.
ClearsAlone == \A t \in Terminals : Clear(t) => Online \subseteq terminals[t].cameUp

\* A process that was asked about because it ran is started again although it
\* does not run only if it went down after it was looked at.
RestartsWhatRan ==
    \A t \in Terminals :
        Restart(t) /\ terminals[t].command # "restart" /\ Status(On(t)) # "online"
          => On(t) \in terminals[t].wentDown

\* An installation nobody disturbs leaves a release with its own dependencies.
DependenciesFit ==
    \A t \in Terminals :
        Install(t) /\ UNCHANGED <<registry>> /\ installed' # installed /\ ~terminals[t].disturbed
            => installed'.peers = installed'.cli

\* `update` installs nothing unless one of its prompts was open for a day: the
\* start of the command line has looked for releases already. What it installs
\* is newer than what ran.
UpdatesAfterADay ==
    \A t \in Terminals :
        Install(t) /\ installed' # installed /\ terminals[t].command \in {"update", "updateForced", "updateRestart"}
            => terminals[t].waited /\ installed'.cli > terminals[t].release

\* After `update --restart` every process that runs is of the release installed.
RestartedAllRunIt ==
    \A t \in Terminals :
        /\ terminals[t].command = "updateRestart" /\ Len(terminals[t].todo) = 1
        /\ ~At(t, "install") /\ ~terminals[t].disturbed /\ terminals'[t] = Ready
        => \A n \in Names : processes'[n].release \in {0, installed'.cli}
=============================================================================
