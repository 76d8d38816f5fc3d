---------------------------- MODULE PeerRequests ----------------------------
(* Requests to one peer (core-p2p PeerCommunicator.#sendRequest), which run    *)
(* beside each other: the outgoing rate limiter, the connector and the counter *)
(* of errors in a row. Time passes in ticks: of one rate limiter's window.     *)
EXTENDS Integers, Sequences, FiniteSets, FiniteSetsExt

CONSTANTS Requests,   \* bound: requests that run beside each other
          RateLimit,  \* rateLimit (100), points of a window
          MaxErrors,  \* maxPeerSequentialErrors (3)
          Pause,      \* ticks between two connections (ten seconds)
          Repeat      \* a request that ended is followed by another

RequestsAssumption == /\ IsFiniteSet(Requests) /\ RateLimit \in Nat \ {0} /\ MaxErrors \in Nat \ {0}
                             /\ Pause \in Nat \ {0} /\ Repeat \in BOOLEAN

VARIABLES pc,         \* where each request is
          left,       \* ticks each request still waits
          used,       \* points consumed in this window
          connected,  \* #connections has the peer
          age,        \* ticks since #lastConnectionCreate; Pause when it is long ago or unknown
          timers,     \* ticks until the timers set by disconnect fire
          errors,     \* sequentialErrorCounter
          sent,       \* history: requests sent in this window
          failures,   \* history: requests that failed since one succeeded
          created     \* history: ticks since a connection was created (Pause: or more)

vars == <<pc, left, used, connected, age, timers, errors, sent, failures, created>>

\* No timer of this tick is still to fire.
Quiet == 0 \notin timers

Capped(n, m) == Min({n, m})

-----------------------------------------------------------------------------

\* hasExceededRateLimitNoConsume.
Exceeded == used >= RateLimit

\* Look, and look again later.
Throttle(r) ==
    /\ Quiet /\ pc[r] = "throttle"
    /\ IF Exceeded
       THEN left' = [left EXCEPT ![r] = 1] /\ pc' = [pc EXCEPT ![r] = "delay"]
       ELSE pc' = [pc EXCEPT ![r] = "consume"] /\ UNCHANGED left
    /\ UNCHANGED <<used, connected, age, timers, errors, sent, failures, created>>

Recheck(r) ==
    /\ Quiet /\ pc[r] = "delay" /\ left[r] = 0
    /\ pc' = [pc EXCEPT ![r] = "throttle"]
    /\ UNCHANGED <<left, used, connected, age, timers, errors, sent, failures, created>>

\* How long connect waits.
WaitFirst == IF connected THEN 0 ELSE Pause - age

\* A rejected point is ignored.
Consume(r) ==
    /\ Quiet /\ pc[r] = "consume"
    /\ used' = Capped(used + 1, RateLimit) /\ sent' = sent + 1
    /\ left' = [left EXCEPT ![r] = WaitFirst]
    /\ pc' = [pc EXCEPT ![r] = "connect"]
    /\ UNCHANGED <<connected, age, timers, errors, failures, created>>

\* The status request of connect is answered.
Connect(r) ==
    /\ Quiet /\ pc[r] = "connect" /\ left[r] = 0
    /\ connected' = TRUE /\ age' = 0
    /\ created' = IF connected THEN created ELSE 0
    /\ pc' = [pc EXCEPT ![r] = "request"]
    /\ UNCHANGED <<left, used, timers, errors, sent, failures>>

Ended(r) == pc' = [pc EXCEPT ![r] = IF Repeat THEN "throttle" ELSE "ended"]

Succeed(r) ==
    /\ Quiet /\ pc[r] = "request" /\ Ended(r)
    /\ errors' = 0 /\ failures' = 0
    /\ UNCHANGED <<left, used, connected, age, timers, sent, created>>

\* PeerConnector.disconnect.
Disconnected == connected' = FALSE /\ timers' = timers \union {Pause - age}

\* Faulty variant: an error counts twice.
CountErrorTwice(n) == n + 2

CountError(n) == n + 1

\* The last error in a row that is allowed disconnects the peer.
Fail(r) ==
    /\ Quiet /\ pc[r] \in {"connect", "request"} /\ left[r] = 0 /\ Ended(r)
    /\ \E invalid \in IF pc[r] = "request" THEN BOOLEAN ELSE {FALSE} :
          LET n == CountError(IF invalid THEN 0 ELSE errors)
          IN  /\ errors' = Capped(n, MaxErrors)
              /\ IF n >= MaxErrors THEN Disconnected ELSE UNCHANGED <<connected, timers>>
    /\ failures' = Capped(failures + 1, MaxErrors)
    /\ UNCHANGED <<left, used, age, sent, created>>

\* The peer is disconnected for other reasons (a failed ping, its version).
Disconnect ==
    /\ Quiet /\ connected /\ Disconnected
    /\ UNCHANGED <<pc, left, used, age, errors, sent, failures, created>>

Timer ==
    /\ 0 \in timers /\ timers' = timers \ {0}
    /\ age' = IF connected THEN age ELSE Pause
    /\ UNCHANGED <<pc, left, used, connected, errors, sent, failures, created>>

Tick ==
    /\ Quiet
    /\ left' = [r \in Requests |-> Max({0, left[r] - 1})]
    /\ used' = 0 /\ sent' = 0
    /\ age' = Capped(age + 1, Pause) /\ created' = Capped(created + 1, Pause)
    /\ timers' = {t - 1 : t \in timers}
    /\ UNCHANGED <<pc, connected, errors, failures>>

Init ==
    /\ pc = [r \in Requests |-> "throttle"] /\ left = [r \in Requests |-> 0]
    /\ used = 0 /\ connected = FALSE /\ age = Pause /\ timers = {}
    /\ errors = 0 /\ sent = 0 /\ failures = 0 /\ created = Pause

Step(r) == Throttle(r) \/ Recheck(r) \/ Consume(r) \/ Connect(r) \/ Succeed(r) \/ Fail(r)

Next == (\E r \in Requests : Step(r)) \/ Disconnect \/ Timer \/ Tick

\* A request ends by an answer or by its timeout, and time goes on.
Spec == Init /\ [][Next]_vars /\ (\A r \in Requests : WF_vars(Step(r))) /\ WF_vars(Timer) /\ WF_vars(Tick)

-----------------------------------------------------------------------------
TypeOK ==
    /\ pc \in [Requests -> {"throttle", "delay", "consume", "connect", "request", "ended"}]
    /\ left \in [Requests -> 0..Pause] /\ used \in 0..RateLimit /\ connected \in BOOLEAN
    /\ age \in 0..Pause /\ timers \subseteq 0..Pause /\ errors \in 0..MaxErrors

\* However requests run beside each other, a window's limit is exceeded by no
\* more than all but one of them.
Overshoot == sent + Cardinality({r \in Requests : pc[r] = "consume"}) <= RateLimit + Cardinality(Requests) - 1

\* A peer is disconnected for its errors only when as many requests in a row
\* have failed, in whatever order they ended.
GivenUpForErrors ==
    \A r \in Requests : Fail(r) /\ connected /\ ~connected' => failures' >= MaxErrors

\* Both, of every step.
Paced == [][Overshoot /\ GivenUpForErrors]_vars

\* Every request ends.
RequestsEnd == \A r \in Requests : <>(pc[r] = "ended")

\* Does not hold (README, section 5):
\* A peer is not connected to again at once ("delay a bit if last connection
\* create was less than 10 sec ago to prevent possible abuse of reconnection",
\* peer-connector.ts).
ReconnectsSlowly == [][~connected /\ connected' => created >= Pause]_vars

\* Does not hold (README, section 5):
\* The peer's rate limit is respected ("Throttling outgoing requests ... to
\* avoid triggering their rate limit", peer-communicator.ts).
WithinRate == sent <= RateLimit
=============================================================================
