-------------------------- MODULE ServiceProviders --------------------------
(* How the application of core-kernel loads, registers, boots and disposes its  *)
(* service providers (application.ts, bootstrap/, providers/). A provider whose *)
(* condition does not hold is deferred; listeners of booted providers and of    *)
(* applied blocks boot it later, or dispose it again.                          *)
EXTENDS Integers, Sequences, FiniteSets, SequencesExt, TLC

CONSTANTS Plugins,        \* the order of app.plugins
          Alias,          \* of each; None if it has none
          Defaults, Globals, Options,   \* of each: functions of keys
          Invalid,        \* the values that no schema allows
          Required,       \* the providers that must register and boot
          Dependencies,   \* of each: records of name, required and inRange
          BootWhen, DisposeWhen,        \* of each: for which `previous` they hold
          Moody,          \* the providers whose conditions change from block to block
          MayThrow,       \* the providers whose register() or boot() may throw
          Chain,          \* the provider that applies blocks
          Overlapping,    \* whether a block may find listeners of another at work
          None, MaxBlocks, MaxReboots, MaxTasks

Provider == Range(Plugins)
ProvidersAssumption ==
    /\ Cardinality(Provider) = Len(Plugins) /\ None \notin Provider
    /\ Required \cup MayThrow \cup Moody \cup {Chain} \subseteq Provider
    /\ \A p \in Provider : BootWhen[p] \cup DisposeWhen[p] \subseteq Provider \cup {None}

VARIABLES phase, at,      \* what the application does, and with which plugin
          config, aliases, bound,     \* of the plugins that were loaded, registered
          loaded, failed, deferred,   \* of ServiceProviderRepository
          active,         \* how often each is booted and not disposed
          listeners,      \* the ChangeServiceProviderState that listen
          calls,          \* the calls of boot(name) and of the listeners
          closing, after, \* the providers still to dispose, and what follows
          booted, blocks, reboots

vars == <<phase, at, config, aliases, bound, loaded, failed, deferred, active, listeners,
          calls, closing, after, booted, blocks, reboots>>
sets == <<loaded, failed, deferred>>
boot == <<phase, at, config, aliases, bound, listeners, closing, after, booted, reboots>>

-----------------------------------------------------------------------------
(* A call: the application's own is call 0. It returns to its parent.          *)

App == 0
Nobody == -1
Free == [pc |-> "free"]
CallOf(name, previous, parent, pc) == [name |-> name, previous |-> previous, parent |-> parent, pc |-> pc]
FreeIds == {i \in 1..MaxTasks : calls[i] = Free}
Children(i) == {j \in 1..MaxTasks : calls[j] # Free /\ calls[j].parent = i}
Ended(cs, i) == [j \in DOMAIN cs |-> IF j = i THEN Free
                                     ELSE IF cs[j] # Free /\ cs[j].parent = i THEN [cs[j] EXCEPT !.parent = Nobody] ELSE cs[j]]

Configured(p) == Options[p] @@ Globals[p] @@ Defaults[p]
ValidConfiguration(p) == Range(config[p]) \cap Invalid = {}

\* changeState up to its first await.
AskBoot(c) == IF c.name \in deferred THEN [c EXCEPT !.pc = "bootWhen"] ELSE Free
ChangeState(name, previous, parent) ==
    LET c == CallOf(name, previous, parent, "disposeWhen")
    IN  IF name \in failed THEN Free ELSE IF name \in Range(loaded) THEN c ELSE AskBoot(c)

\* An event reaches the listeners there are: those of the others.
Handlers(previous, parent) ==
    LET told == SelectSeq(listeners, LAMBDA n : n # previous)
    IN  SelectSeq([i \in 1..Len(told) |-> ChangeState(told[i], previous, parent)], LAMBDA c : c # Free)
Dispatch(cs, handlers) ==
    [j \in DOMAIN cs |-> LET k == Cardinality({i \in FreeIds : i <= j})
                         IN  IF j \in FreeIds /\ k <= Len(handlers) THEN handlers[k] ELSE cs[j]]

-----------------------------------------------------------------------------
(* LoadServiceProviders.                                                       *)

LoadProvider ==
    /\ phase = "load"
    /\ LET p == Plugins[at]
       IN  IF Alias[p] # None /\ Alias[p] \in aliases THEN phase' = "threw" /\ UNCHANGED <<at, config, aliases>>
           ELSE /\ config' = (p :> Configured(p)) @@ config
                /\ aliases' = aliases \cup ({Alias[p]} \ {None})
                /\ IF at = Len(Plugins) THEN phase' = "register" /\ at' = 1 ELSE phase' = phase /\ at' = at + 1
    /\ UNCHANGED <<bound, sets, active, listeners, calls, closing, after, booted, blocks, reboots>>

-----------------------------------------------------------------------------
(* RegisterServiceProviders. A missing dependency ends the look at the others. *)

Missing(d) == d.name \notin Provider
Looked(p) ==
    LET ds == Dependencies[p] IN {ds[i] : i \in {j \in 1..Len(ds) : \A k \in 1..j - 1 : ~Missing(ds[k])}}
Unsatisfied(p) == {d \in Looked(p) : Missing(d) \/ ~d.inRange}
Terminates(p) == \E d \in Unsatisfied(p) : d.required
SatisfiesDependencies(p) == \A d \in Looked(p) : ~Missing(d)

Next1 == IF at = Len(Plugins) THEN phase' = "boot" /\ at' = 1 ELSE phase' = "register" /\ at' = at + 1

Terminate(then) ==
    /\ booted' = FALSE /\ phase' = "closing" /\ closing' = Reverse(loaded) /\ after' = then

\* After the dependencies of a provider: it is registered, or was failed.
RegisterProvider(p) ==
    \/ /\ SatisfiesDependencies(p) /\ bound' = [bound EXCEPT ![p] = @ + 1]
       /\ failed' = IF Unsatisfied(p) # {} THEN failed \cup {p} ELSE failed
       /\ Next1
    \/ /\ ~SatisfiesDependencies(p) /\ failed' = failed \cup {p} /\ Next1 /\ UNCHANGED bound
    \/ /\ SatisfiesDependencies(p) /\ p \in MayThrow /\ bound' = [bound EXCEPT ![p] = @ + 1]
       /\ IF p \in Required THEN phase' = "threw" /\ UNCHANGED <<at, failed>> ELSE failed' = failed \cup {p} /\ Next1

Register ==
    /\ phase = "register"
    /\ LET p == Plugins[at]
       IN  IF ~ValidConfiguration(p)
           THEN /\ IF p \in Required THEN phase' = "threw" /\ UNCHANGED <<at, failed>>
                   ELSE failed' = failed \cup {p} /\ Next1
                /\ UNCHANGED <<bound, closing, after, booted>>
           ELSE IF Terminates(p) THEN Terminate("register") /\ UNCHANGED <<at, bound, failed>>
           ELSE RegisterProvider(p) /\ UNCHANGED <<closing, after, booted>>
    /\ UNCHANGED <<config, aliases, loaded, deferred, active, listeners, calls, blocks, reboots>>

-----------------------------------------------------------------------------
(* BootServiceProviders, for every provider there is.                         *)

Listen ==
    /\ listeners' = Append(listeners, Plugins[at])
    /\ IF at = Len(Plugins) THEN phase' = "up" /\ booted' = TRUE /\ at' = at
       ELSE at' = at + 1 /\ UNCHANGED <<phase, booted>>

Boot ==
    /\ phase = "boot" /\ calls[App] = Free
    /\ LET p == Plugins[at]
       IN  IF None \in BootWhen[p]
           THEN /\ calls' = [calls EXCEPT ![App] = CallOf(p, None, Nobody, "booting")]
                /\ active' = [active EXCEPT ![p] = @ + 1]
                /\ UNCHANGED <<phase, at, deferred, listeners, booted>>
           ELSE /\ deferred' = deferred \cup {p} /\ Listen /\ UNCHANGED <<calls, active>>
    /\ UNCHANGED <<config, aliases, bound, loaded, failed, closing, after, blocks, reboots>>

BootReturns ==
    /\ phase = "boot" /\ calls[App].pc = "booted"
    /\ Listen /\ calls' = [calls EXCEPT ![App] = Free]
    /\ UNCHANGED <<config, aliases, bound, sets, active, closing, after, blocks, reboots>>
BootThrows ==
    /\ phase = "boot" /\ calls[App].pc = "threw"
    /\ calls' = [calls EXCEPT ![App] = Free]
    /\ IF Plugins[at] \in Required THEN phase' = "threw" /\ UNCHANGED <<at, booted, listeners, failed>>
       ELSE failed' = failed \cup {Plugins[at]} /\ Listen
    /\ UNCHANGED <<config, aliases, bound, loaded, deferred, active, closing, after, blocks, reboots>>

-----------------------------------------------------------------------------
(* ServiceProviderRepository.boot and dispose; ChangeServiceProviderState.     *)

Answers(when, c) == IF c.name \in Moody /\ c.previous = None THEN BOOLEAN ELSE {c.previous \in when[c.name]}
Returned(i) == IF i = App THEN [calls EXCEPT ![App].pc = "booted"] ELSE Ended(calls, i)

\* boot() of the provider ends, or throws; a call that throws ends its parent's.
ProviderBooted(i) ==
    /\ calls[i].pc = "booting"
    /\ \/ calls' = [calls EXCEPT ![i].pc = "dispatch"] /\ UNCHANGED active
       \/ /\ calls[i].name \in MayThrow /\ calls' = [calls EXCEPT ![i].pc = "threw"]
          /\ active' = [active EXCEPT ![calls[i].name] = @ - 1]
    /\ UNCHANGED <<boot, sets, blocks>>
Thrown(i) ==
    /\ i # App /\ calls[i].pc = "threw"
    /\ LET q == calls[i].parent
       IN  calls' = IF q = Nobody THEN Ended(calls, i)
                    ELSE Ended([Ended(calls, q) EXCEPT ![q] = [calls[q] EXCEPT !.pc = "threw"]], i)
    /\ UNCHANGED <<boot, sets, active, blocks>>
DispatchBooted(i) ==
    /\ calls[i].pc = "dispatch"
    /\ LET hs == Handlers(calls[i].name, i)
       IN  /\ Len(hs) <= Cardinality(FreeIds)
           /\ calls' = Dispatch([calls EXCEPT ![i].pc = "wait"], hs)
    /\ UNCHANGED <<boot, sets, active, blocks>>

Loaded(i) ==
    /\ calls[i].pc = "wait" /\ Children(i) = {}
    /\ LET p == calls[i].name
       IN  /\ loaded' = IF p \in Range(loaded) THEN loaded ELSE Append(loaded, p)
           /\ failed' = failed \ {p} /\ deferred' = deferred \ {p}
    /\ calls' = Returned(i) /\ UNCHANGED <<boot, active, blocks>>

AskDispose(i) ==
    /\ calls[i].pc = "disposeWhen"
    /\ \E yes \in Answers(DisposeWhen, calls[i]) : IF yes
       THEN /\ calls' = [calls EXCEPT ![i].pc = "disposing"]
            /\ active' = [active EXCEPT ![calls[i].name] = 0]
       ELSE calls' = [calls EXCEPT ![i] = AskBoot(@)] /\ UNCHANGED active
    /\ UNCHANGED <<boot, sets, blocks>>
Disposed(i) ==
    /\ calls[i].pc = "disposing"
    /\ LET p == calls[i].name
       IN  loaded' = SelectSeq(loaded, LAMBDA q : q # p) /\ failed' = failed \ {p} /\ deferred' = deferred \cup {p}
    /\ calls' = [calls EXCEPT ![i].pc = "bootWhen"] /\ UNCHANGED <<boot, active, blocks>>
AskBootWhen(i) ==
    /\ calls[i].pc = "bootWhen"
    /\ \E yes \in Answers(BootWhen, calls[i]) : IF yes
       THEN /\ calls' = [calls EXCEPT ![i].pc = "booting"]
            /\ active' = [active EXCEPT ![calls[i].name] = @ + 1]
       ELSE calls' = Ended(calls, i) /\ UNCHANGED active
    /\ UNCHANGED <<boot, sets, blocks>>

-----------------------------------------------------------------------------
BlockApplied ==
    /\ active[Chain] > 0 /\ blocks < MaxBlocks /\ blocks' = blocks + 1
    /\ Overlapping \/ \A i \in 1..MaxTasks : calls[i] = Free
    /\ LET hs == Handlers(None, Nobody)
       IN  Len(hs) <= Cardinality(FreeIds) /\ calls' = Dispatch(calls, hs)
    /\ UNCHANGED <<boot, sets, active>>

\* #disposeServiceProviders, one provider after the other.
DisposeProvider ==
    /\ phase = "closing" /\ closing # <<>>
    /\ active' = [active EXCEPT ![Head(closing)] = 0] /\ closing' = Tail(closing)
    /\ UNCHANGED <<phase, at, config, aliases, bound, sets, listeners, calls, after, booted, blocks, reboots>>
Closed ==
    /\ phase = "closing" /\ closing = <<>>
    /\ CASE after = "register" -> RegisterProvider(Plugins[at])
         [] after = "boot" -> phase' = "register" /\ at' = 1 /\ UNCHANGED <<bound, failed>>
         [] after = "end" -> phase' = "end" /\ UNCHANGED <<at, bound, failed>>
    /\ UNCHANGED <<config, aliases, loaded, deferred, active, listeners, calls, closing, after, booted, blocks, reboots>>

\* The watcher of the configuration, and the end of the process.
Reboot ==
    /\ phase = "up" /\ reboots < MaxReboots /\ reboots' = reboots + 1
    /\ phase' = "closing" /\ closing' = Reverse(loaded) /\ after' = "boot"
    /\ UNCHANGED <<at, config, aliases, bound, sets, active, listeners, calls, booted, blocks>>
Stop ==
    /\ phase = "up" /\ Terminate("end")
    /\ UNCHANGED <<at, config, aliases, bound, sets, active, listeners, calls, blocks, reboots>>

Init ==
    /\ phase = "load" /\ at = 1 /\ config = <<>> /\ aliases = {} /\ bound = [p \in Provider |-> 0]
    /\ loaded = <<>> /\ failed = {} /\ deferred = {} /\ active = [p \in Provider |-> 0]
    /\ listeners = <<>> /\ calls = [i \in 0..MaxTasks |-> Free] /\ closing = <<>> /\ after = "end"
    /\ booted = FALSE /\ blocks = 0 /\ reboots = 0

CallStep(i) ==
    \/ ProviderBooted(i) \/ Thrown(i) \/ DispatchBooted(i) \/ Loaded(i)
    \/ AskDispose(i) \/ Disposed(i) \/ AskBootWhen(i)
AppStep == LoadProvider \/ Register \/ Boot \/ BootReturns \/ BootThrows \/ DisposeProvider \/ Closed

Next == AppStep \/ (\E i \in 0..MaxTasks : CallStep(i)) \/ BlockApplied \/ Reboot \/ Stop

Spec == Init /\ [][Next]_vars

\* Promises are settled and their continuations run.
Fairness == WF_vars(AppStep) /\ \A i \in 0..MaxTasks : WF_vars(CallStep(i))
FairSpec == Spec /\ Fairness

-----------------------------------------------------------------------------
TypeOK ==
    /\ phase \in {"load", "register", "boot", "up", "closing", "end", "threw"} /\ at \in 1..Len(Plugins)
    /\ Range(loaded) \cup failed \cup deferred \subseteq Provider /\ Len(loaded) = Cardinality(Range(loaded))

Quiet == \A i \in 0..MaxTasks : calls[i] = Free

\* However blocks and booted providers interleave, no provider is booted again
\* before it was disposed.
BootedOnce == reboots = 0 => \A p \in Provider : active[p] <= 1

\* When nothing is on its way, a provider is loaded if and only if it is booted,
\* and each one is loaded, deferred or failed.
Accounted ==
    phase = "up" /\ Quiet /\ reboots = 0 =>
        /\ \A p \in Provider \ MayThrow : p \in Range(loaded) <=> active[p] = 1
        /\ Provider = Range(loaded) \cup deferred \cup failed
        /\ Range(loaded) \cap deferred = {}

\* A provider that waits for a later one was booted when that one was.
BootedWithTheirs ==
    phase = "up" /\ Quiet =>
        \A i, j \in 1..Len(Plugins) :
            LET p == Plugins[i]  q == Plugins[j]
            IN  i < j /\ q \in BootWhen[p] /\ q \in Range(loaded) /\ p \notin failed => active[p] > 0

\* While the application closes, no provider is still booted that was loaded
\* after one that no longer is (its services would be gone). One that a listener
\* boots meanwhile is not among those to dispose: not for changing conditions.
ClosedInReverse ==
    phase = "closing" =>
        \A i, j \in 1..Len(loaded) : i < j /\ active[loaded[j]] > 0 => active[loaded[i]] > 0

\* A boot comes to an end.
BootEnds == phase = "register" ~> phase \in {"up", "threw", "end"}
=============================================================================
