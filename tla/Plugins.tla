------------------------------ MODULE Plugins ------------------------------
(* The plugins of the command line: PluginManager and the sources it installs  *)
(* from (core-cli/source/services/plugin-manager.ts, source-providers/*.ts).   *)
(* plugin:install, plugin:update and plugin:remove run in terminals beside     *)
(* each other and share the folder a package is unpacked in. A download, an    *)
(* unpacking, a clone or yarn may fail, and the rest of the install is left    *)
(* out.                                                                        *)
(*                                                                             *)
(* Abstracted: a package is [value, kind, name]: what is asked for, where it   *)
(* comes from, and the name in its package.json (None: it has none). A folder  *)
(* is the packages whose files are in it.                                      *)
EXTENDS Integers, Sequences, FiniteSets

CONSTANTS
    Terminals,
    Packages,
    None,
    MaxRuns     \* bound: commands run

Kinds == <<"file", "git", "npm">>
PackageNames == {p.name : p \in Packages} \ {None}
PluginsAssumption ==
    /\ \A p \in Packages : p.kind \in {Kinds[i] : i \in 1..3}
    /\ \A p, q \in Packages : p.value = q.value /\ p.kind = q.kind => p = q
    /\ MaxRuns \in Nat

VARIABLES
    plugins,    \* name -> None, or what its folder in the data path holds
    origin,     \* the folder "package" of the temporary path, or None
    terminals,  \* terminal -> the command it runs
    runs        \* bounded counter
vars == <<plugins, origin, terminals, runs>>

(* A folder: the packages with files in it, whose package.json it has, whether *)
(* files are missing, whether its dependencies are installed, and whether it   *)
(* is a clone.                                                                 *)
Folder(parts, name, broken, clone) ==
    [parts |-> parts, name |-> name, broken |-> broken, dependencies |-> FALSE, clone |-> clone]

(* A terminal: what it was asked for and what it found, the steps left, and    *)
(* the plugin it has placed. Not of the code: whether another touched the      *)
(* folders since it began.                                                     *)
Ready == [value |-> None, package |-> None, todo |-> <<>>, placed |-> None, disturbed |-> FALSE]
At(t, task) == terminals[t].todo # <<>> /\ Head(terminals[t].todo) = task
Package(t) == terminals[t].package
Going(t) == [terminals[t] EXCEPT !.todo = Tail(@)]
Goes(t, terminal, touches) ==
    terminals' = [u \in Terminals |->
       IF u = t THEN IF terminal.todo = <<>> THEN Ready ELSE terminal
       ELSE IF terminals[u] = Ready THEN Ready
       ELSE [terminals[u] EXCEPT !.disturbed = @ \/ touches]]
Fails(t) == Goes(t, Ready, FALSE) /\ UNCHANGED <<plugins, origin, runs>>

Init ==
    /\ plugins = [n \in PackageNames |-> None]
    /\ origin = None
    /\ terminals = [t \in Terminals |-> Ready]
    /\ runs = 0

Values == {p.value : p \in Packages} \cup PackageNames
InstallTasks == <<"unpack", "unpacked", "place", "dependencies", "clean">>
Begins(t, terminal, touches) ==
    /\ terminals[t] = Ready /\ runs < MaxRuns
    /\ runs' = runs + 1
    /\ Goes(t, terminal, touches)

(* PluginManager.install: the first source that has the package.               *)
Offers(value) == {p \in Packages : p.value = value}
Source(value) ==
    CHOOSE p \in Offers(value) :
        \A q \in Offers(value) : \A i, j \in 1..3 : Kinds[i] = p.kind /\ Kinds[j] = q.kind => i <= j

Install(t, value) ==
    /\ Begins(t, [Ready EXCEPT !.value = value, !.todo = <<"look">>], FALSE)
    /\ UNCHANGED <<plugins, origin>>
Look(t) ==
    /\ At(t, "look")
    /\ IF Offers(terminals[t].value) = {} THEN Fails(t)
       ELSE /\ Goes(t, [terminals[t] EXCEPT !.package = Source(terminals[t].value),
                                            !.todo = <<"start">> \o InstallTasks, !.disturbed = FALSE], FALSE)
            /\ UNCHANGED <<plugins, origin, runs>>

(* AbstractSource.install: what an earlier install left behind goes first.     *)
RemoveOrigin(t) ==
    /\ At(t, "start")
    /\ origin' = None
    /\ Goes(t, [Going(t) EXCEPT !.disturbed = FALSE], TRUE)
    /\ UNCHANGED <<plugins, runs>>

(* preparePackage: File and NPM unpack over what is there, Git refuses to      *)
(* clone into it; each goes on while others run.                               *)
Parts(folder) == IF folder = None THEN {} ELSE folder.parts
Unpack(t) ==
    /\ At(t, "unpack")
    /\ IF Package(t).kind = "git" /\ origin # None THEN Fails(t)
       ELSE /\ origin' = Folder(Parts(origin) \cup {Package(t)}, IF origin = None THEN None ELSE origin.name,
                                TRUE, Package(t).kind = "git")
            /\ Goes(t, Going(t), TRUE)
            /\ UNCHANGED <<plugins, runs>>
Unpacked(t) ==
    /\ At(t, "unpacked")
    /\ \/ /\ origin' = Folder(Parts(origin) \cup {Package(t)}, Package(t).name, origin = None,
                              Package(t).kind = "git")
          /\ Goes(t, Going(t), TRUE)
          /\ UNCHANGED <<plugins, runs>>
       \/ Fails(t)

(* The name is read from what was unpacked, the plugin of that name removed    *)
(* and the folder moved in its place, at once.                                 *)
Place(t) ==
    /\ At(t, "place")
    /\ IF origin = None THEN Fails(t) ELSE IF origin.name = None THEN Fails(t)
       ELSE /\ plugins' = [plugins EXCEPT ![origin.name] = origin]
            /\ origin' = None
            /\ Goes(t, [Going(t) EXCEPT !.placed = origin.name], TRUE)
            /\ UNCHANGED runs

(* installDependencies: yarn, in the folder of the plugin. *)
InstallDependencies(t) ==
    /\ At(t, "dependencies")
    /\ LET n == terminals[t].placed
       IN \/ /\ plugins[n] # None
             /\ plugins' = [plugins EXCEPT ![n].dependencies = TRUE]
             /\ Goes(t, Going(t), TRUE)
             /\ UNCHANGED <<origin, runs>>
          \/ Fails(t)
Clean(t) ==
    /\ At(t, "clean")
    /\ origin' = None
    /\ Goes(t, Going(t), TRUE)
    /\ UNCHANGED <<plugins, runs>>

(* PluginManager.update: a clone pulls, any other plugin is installed anew     *)
(* from the registry, whatever it came from.                                   *)
Update(t, n) ==
    /\ Begins(t, IF plugins[n] = None THEN Ready
                 ELSE IF plugins[n].clone THEN [Ready EXCEPT !.placed = n, !.todo = <<"pull", "dependencies">>]
                 ELSE [Ready EXCEPT !.value = n, !.todo = <<"registry">>], FALSE)
    /\ UNCHANGED <<plugins, origin>>
Pull(t) ==
    /\ At(t, "pull")
    /\ \/ Goes(t, Going(t), FALSE) /\ UNCHANGED <<plugins, origin, runs>>
       \/ Fails(t)
LookInRegistry(t) ==
    /\ At(t, "registry")
    /\ LET found == {p \in Packages : p.value = terminals[t].value /\ p.kind = "npm"}
       IN IF found = {} THEN Fails(t)
          ELSE /\ Goes(t, [terminals[t] EXCEPT !.package = CHOOSE p \in found : TRUE,
                                               !.todo = <<"start">> \o InstallTasks], FALSE)
               /\ UNCHANGED <<plugins, origin, runs>>

RemovePlugin(t, n) ==
    /\ Begins(t, Ready, TRUE)
    /\ plugins[n] # None
    /\ plugins' = [plugins EXCEPT ![n] = None]
    /\ UNCHANGED origin

(* PluginManager.list: what CommandLineInterface looks for commands in.        *)
Listed == {n \in PackageNames : plugins[n] # None}

Next ==
    \E t \in Terminals :
        \/ \E value \in Values : Install(t, value)
        \/ \E n \in PackageNames : Update(t, n) \/ RemovePlugin(t, n)
        \/ Look(t) \/ LookInRegistry(t) \/ RemoveOrigin(t) \/ Unpack(t) \/ Unpacked(t) \/ Place(t)
        \/ InstallDependencies(t) \/ Clean(t) \/ Pull(t)

Spec == Init /\ [][Next]_vars
-----------------------------------------------------------------------------
(* Properties. *)

\* The values the variables take; a plugin's folder has its own package.json.
TypeOK ==
    /\ \A n \in Listed : plugins[n].name = n /\ plugins[n].parts \subseteq Packages
    /\ runs \in 0..MaxRuns

\* Whatever earlier installs that failed left behind, the plugin an install
\* places is the package that was found, whole and alone, unless another command
\* worked on the folders meanwhile.
PlacesWhatItFound ==
    \A t \in Terminals :
        Place(t) /\ plugins' # plugins /\ ~terminals[t].disturbed
          => plugins'[Package(t).name] = Folder({Package(t)}, Package(t).name, FALSE, Package(t).kind = "git")

\* A plugin changes only by a command about it, or by the install of a package
\* that has its name; an install that fails before it places one changes none.
OthersUntouched ==
    \A n \in PackageNames : plugins'[n] # plugins[n] =>
        \/ runs' # runs /\ plugins'[n] = None
        \/ \E t \in Terminals :
             \/ Place(t) /\ origin.name = n /\ \E p \in origin.parts : p.name = n
             \/ InstallDependencies(t) /\ terminals[t].placed = n

\* An install that comes to its end leaves the plugin with its dependencies and
\* nothing in the temporary folder.
InstalledWithDependencies ==
    \A t \in Terminals :
        Clean(t) => /\ origin' = None
                    /\ ~terminals[t].disturbed => plugins[terminals[t].placed].dependencies
=============================================================================
