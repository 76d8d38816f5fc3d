-------------------------------- MODULE Lock --------------------------------
(***************************************************************************)
(* The lock of core-kernel/source/utils/lock.ts, which the transaction     *)
(* pool takes: many calls of runNonExclusive() at a time, or one of        *)
(* runExclusive().                                                         *)
(*                                                                         *)
(* All waiting is by promises, so what matters is who awaits which promise *)
(* and in what order the continuations run once it settles.  A promise     *)
(* that settles queues its reactions at once, in the order they were       *)
(* registered, so no other code comes between them; a call that begins to  *)
(* await a promise already settled is queued on its own, behind them, and  *)
(* other code may run before it.  No callback given to the lock calls the  *)
(* same lock again.  A callback that throws is like one that ends: every   *)
(* await of the lock catches or is followed by finally.                    *)
(***************************************************************************)
EXTENDS Sequences, SequencesExt

CONSTANTS
  Call,    \* the calls of runNonExclusive() and runExclusive() under way
  NoCall   \* nobody

ASSUME NoCallAssumption == NoCall \notin Call

Kind == {"shared", "exclusive"}

VARIABLES
  kind,       \* which of the two functions each call is of
  exclusive,  \* the call whose promise is #exclusivePromise, or NoCall
  running,    \* its callback runs
  shared,     \* the calls whose promises are in #nonExclusivePromises
  drain,      \* those of them the exclusive call still awaits
  reactions,  \* who awaits #exclusivePromise, in order; its owner is first
  ready,      \* continuations of a settled #exclusivePromise yet to run
  late,       \* calls that began to await it when it had settled already
  arrivals    \* history: the other calls that wait, in order of arrival

vars ==
  <<kind, exclusive, running, shared, drain, reactions, ready, late, arrivals>>

-----------------------------------------------------------------------------
Admitted(c) == c \in shared \/ c = exclusive

Waiting(c) == c \in Range(arrivals) \cup Range(late)

Outside(c) == ~Admitted(c) /\ ~Waiting(c)

\* The exclusive promise has settled and its owner is about to learn of it.
Settled == ready # <<>> /\ Head(ready) = exclusive

Init ==
  /\ kind \in [Call -> {"shared"}]
  /\ exclusive = NoCall
  /\ running = FALSE
  /\ shared = {}
  /\ drain = {}
  /\ reactions = <<>>
  /\ ready = <<>>
  /\ late = <<>>
  /\ arrivals = <<>>

\* Faulty variant: nobody is awaited before the exclusive callback.
EnterWithoutSnapshot(c, k) ==
  \/ /\ k = "shared"
     /\ shared' = shared \cup {c}
     /\ UNCHANGED <<exclusive, drain, reactions>>
  \/ /\ k = "exclusive"
     /\ exclusive' = c
     /\ drain' = {}
     /\ reactions' = <<c>>
     /\ UNCHANGED shared

\* No exclusive promise is left: a shared callback starts at once, an exclusive
\* call publishes its promise and awaits the shared ones it sees.
Enter(c, k) ==
  \/ /\ k = "shared"
     /\ shared' = shared \cup {c}
     /\ UNCHANGED <<exclusive, drain, reactions>>
  \/ /\ k = "exclusive"
     /\ exclusive' = c
     /\ drain' = shared
     /\ reactions' = <<c>>
     /\ UNCHANGED shared

\* runNonExclusive() or runExclusive() is called.
Run(c, k) ==
  /\ Outside(c)
  /\ ready = <<>> \/ Settled
  /\ kind' = [kind EXCEPT ![c] = k]
  /\ \/ exclusive = NoCall /\ Enter(c, k) /\ UNCHANGED <<late, arrivals>>
     \/ /\ exclusive # NoCall /\ ~Settled
        /\ reactions' = Append(reactions, c)
        /\ arrivals' = Append(arrivals, c)
        /\ UNCHANGED <<exclusive, shared, drain, late>>
     \/ /\ Settled
        /\ late' = Append(late, c)
        /\ UNCHANGED <<exclusive, shared, drain, reactions, arrivals>>
  /\ UNCHANGED <<running, ready>>

\* A shared callback ends; while its promise has settled and is still in the
\* set it delays nobody, so the finally is part of the step.
SharedDone(c) ==
  /\ c \in shared
  /\ shared' = shared \ {c}
  /\ drain' = drain \ {c}
  /\ UNCHANGED <<kind, exclusive, running, reactions, ready, late, arrivals>>

\* Faulty variant: the callback does not wait.
StartExclusiveAtOnce ==
  /\ exclusive # NoCall /\ ~running /\ ready = <<>> /\ late = <<>>
  /\ running' = TRUE
  /\ UNCHANGED <<kind, exclusive, shared, drain, reactions, ready, late, arrivals>>

\* All that was awaited has settled; continuations queued before go first.
StartExclusive ==
  /\ exclusive # NoCall /\ ~running /\ ready = <<>> /\ late = <<>>
  /\ drain = {}
  /\ running' = TRUE
  /\ UNCHANGED <<kind, exclusive, shared, drain, reactions, ready, late, arrivals>>

\* Faulty variant: only the owner's continuation is queued.
ExclusiveDoneForOwner ==
  /\ running
  /\ running' = FALSE
  /\ ready' = <<exclusive>>
  /\ reactions' = <<>>
  /\ UNCHANGED <<kind, exclusive, shared, drain, late, arrivals>>

ExclusiveDone ==
  /\ running
  /\ running' = FALSE
  /\ ready' = reactions
  /\ reactions' = <<>>
  /\ UNCHANGED <<kind, exclusive, shared, drain, late, arrivals>>

\* The owner's finally: the promise is forgotten.
Forget ==
  /\ Settled
  /\ exclusive' = NoCall
  /\ ready' = Tail(ready)
  /\ UNCHANGED <<kind, running, shared, drain, reactions, late, arrivals>>

\* Faulty variant: a call that must wait again goes before the others.
RecheckInFront ==
  LET c == Head(ready) IN
  /\ ready # <<>> /\ ~Settled
  /\ ready' = Tail(ready)
  /\ \/ /\ exclusive = NoCall
        /\ Enter(c, kind[c])
        /\ \E i \in DOMAIN arrivals :
             arrivals[i] = c /\ arrivals' = RemoveAt(arrivals, i)
     \/ /\ exclusive # NoCall
        /\ reactions' = <<Head(reactions), c>> \o Tail(reactions)
        /\ UNCHANGED <<exclusive, shared, drain, arrivals>>
  /\ UNCHANGED <<kind, running, late>>

\* A waiting call looks again: it enters, or awaits the next exclusive promise.
Recheck ==
  LET c == Head(ready) IN
  /\ ready # <<>> /\ ~Settled
  /\ ready' = Tail(ready)
  /\ \/ /\ exclusive = NoCall
        /\ Enter(c, kind[c])
        /\ \E i \in DOMAIN arrivals :
             arrivals[i] = c /\ arrivals' = RemoveAt(arrivals, i)
     \/ /\ exclusive # NoCall
        /\ reactions' = Append(reactions, c)
        /\ UNCHANGED <<exclusive, shared, drain, arrivals>>
  /\ UNCHANGED <<kind, running, late>>

\* The same for a call whose continuation was queued on its own.
RecheckLate ==
  LET c == Head(late) IN
  /\ ready = <<>> /\ late # <<>>
  /\ late' = Tail(late)
  /\ \/ exclusive = NoCall /\ Enter(c, kind[c]) /\ UNCHANGED arrivals
     \/ /\ exclusive # NoCall
        /\ reactions' = Append(reactions, c)
        /\ arrivals' = Append(arrivals, c)
        /\ UNCHANGED <<exclusive, shared, drain>>
  /\ UNCHANGED <<kind, running, ready>>

Next ==
  \/ \E c \in Call : SharedDone(c) \/ \E k \in Kind : Run(c, k)
  \/ StartExclusive \/ ExclusiveDone \/ Forget \/ Recheck \/ RecheckLate

Spec == Init /\ [][Next]_vars

-----------------------------------------------------------------------------
TypeOK ==
  /\ kind \in [Call -> Kind]
  /\ exclusive \in Call \cup {NoCall}
  /\ running \in BOOLEAN
  /\ shared \subseteq Call
  /\ drain \subseteq Call
  /\ reactions \in Seq(Call)
  /\ ready \in Seq(Call)
  /\ late \in Seq(Call)
  /\ arrivals \in Seq(Call)

\* What makes exclusion inductive: once an exclusive promise is published the
\* shared calls left are those it awaits, and its callback awaits them all and
\* the continuations that were queued before.
Draining ==
  /\ exclusive # NoCall => shared = drain
  /\ running => exclusive # NoCall /\ drain = {} /\ ready = <<>>

\* What makes the order of admission inductive: the calls that wait are those
\* that already await the next exclusive promise, in order, then those whose
\* continuations are queued, and no call waits twice.
InOrder ==
  /\ exclusive = NoCall => reactions = <<>> /\ arrivals = ready
  /\ Settled => reactions = <<>> /\ arrivals = Tail(ready)
  /\ exclusive # NoCall /\ ~Settled =>
       /\ reactions # <<>> /\ Head(reactions) = exclusive
       /\ arrivals = Tail(reactions) \o ready

WaitsOnce ==
  /\ IsInjective(arrivals) /\ IsInjective(late)
  /\ Range(arrivals) \cap Range(late) = {}
  /\ exclusive \notin Range(arrivals) \cup Range(late)

(***************************************************************************)
(* No exclusive callback runs beside a shared one (the pool relies on it   *)
(* while it re-adds or flushes its transactions).                          *)
(***************************************************************************)
Exclusion == running => shared = {}

(***************************************************************************)
(* The lock implements readers and writers.                                *)
(***************************************************************************)
RW == INSTANCE ReadersWriters
        WITH readers <- shared, writer <- IF running THEN exclusive ELSE NoCall

Abstract == RW!Spec

(***************************************************************************)
(* Nobody overtakes: the call that is admitted is the one that has awaited *)
(* exclusive promises longest, although every waiter starts its wait over  *)
(* and over (a call that only ever met a settled promise may be passed).   *)
(***************************************************************************)
NoOvertaking ==
  [][\A c \in Call :
       ~Admitted(c) /\ Admitted(c)' => arrivals = <<>> \/ c = Head(arrivals)]_vars

(***************************************************************************)
(* Every call is admitted, if every callback ends and continuations run.   *)
(***************************************************************************)
Fairness ==
  /\ \A c \in Call : WF_vars(SharedDone(c))
  /\ WF_vars(StartExclusive)
  /\ WF_vars(ExclusiveDone)
  /\ WF_vars(Forget)
  /\ WF_vars(Recheck)
  /\ WF_vars(RecheckLate)

FairSpec == Spec /\ Fairness

EveryCallAdmitted == \A c \in Call : Waiting(c) ~> Admitted(c)
=============================================================================
