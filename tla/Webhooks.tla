------------------------------ MODULE Webhooks ------------------------------
(* The events of a node and its webhooks (core-kernel/source/services/events/ *)
(* drivers/memory.ts, core-webhooks/source): a client stores, changes and     *)
(* destroys webhooks, the node dispatches events, and the one listener of all *)
(* events posts an event to the target of every webhook that wants it, and    *)
(* dispatches what came of it. What an event tells is a record; a value is    *)
(* [number |-> n], [flag |-> b] or [text |-> S], a text being the set of its  *)
(* parts. The server only stops; the node also crashes, and starts again with *)
(* what the file has.                                                         *)
EXTENDS Integers, Sequences, FiniteSets, TLC, SequencesExt

CONSTANTS Events,      \* names of the node's events
          Payloads,    \* what an event can tell
          Requests,    \* webhooks a client asks for: event, conditions, target, enabled
          None,
          MaxHooks, MaxEvents, MaxCrashes, MaxChanges   \* bounds

Own == {"webhooks.broadcasted", "webhooks.failed"}

WebhooksAssumption ==
    /\ Events \intersect Own = {}
    /\ \A h \in Requests : {"event", "conditions", "target", "enabled"} \subseteq DOMAIN h
    /\ {MaxHooks, MaxEvents, MaxCrashes, MaxChanges} \subseteq Nat

VARIABLES database,    \* webhooks in memory, in the order of their creation
          file,        \* webhooks.json, or None when a write of it was cut short
          listening,   \* whether the "*" listener is there
          server,      \* whether requests are answered
          dispatched,  \* events that wait for their turn, in the order of dispatch
          sending,     \* posts under way
          told,        \* what each client was answered last: the webhooks that are stored
          history      \* numbers: identifiers given, events dispatched, crashes, posts, reports

vars == <<database, file, listening, server, dispatched, sending, told, history>>

-----------------------------------------------------------------------------
(* The conditions of a webhook.                                              *)

Undefined == [undefined |-> TRUE]
ValueOf(c, p) == IF c.key \in DOMAIN p THEN p[c.key] ELSE Undefined

Of(kind, v) == kind \in DOMAIN v

\* compareBigNumber: no number, no match.
Compares(v, x, R(_, _)) == Of("number", v) /\ Of("number", x) /\ R(v.number, x.number)
Gt(v, x) == Compares(v, x, LAMBDA m, n : m > n)
Gte(v, x) == Compares(v, x, LAMBDA m, n : m >= n)
Lt(v, x) == Compares(v, x, LAMBDA m, n : m < n)
Lte(v, x) == Compares(v, x, LAMBDA m, n : m <= n)
Between(v, range) == Gt(v, range.min) /\ Lt(v, range.max)
Eq(v, x) == DOMAIN v = DOMAIN x /\ v = x
HasText(v, x) == x.text \subseteq v.text
Truthy(v) == v = [flag |-> TRUE] \/ v = [text |-> {"true"}]

\* Every name is stored (schema.ts allows any), also "not-between", which no
\* function has.
Known == {"between", "contains", "eq", "falsy", "gt", "gte", "lt", "lte", "ne", "notBetween", "truthy"}

Throws(c, p) ==
    LET v == ValueOf(c, p) IN
    \/ c.condition \notin Known
    \/ c.condition \in {"truthy", "falsy"} /\ v = Undefined
    \/ c.condition = "contains" /\ ~Of("text", v)

Holds(c, p) ==
    LET v == ValueOf(c, p) IN
    CASE c.condition = "between" -> Between(v, c.value)
      [] c.condition = "notBetween" -> ~Between(v, c.value)
      [] c.condition = "contains" -> HasText(v, c.value)
      [] c.condition = "eq" -> Eq(v, c.value)
      [] c.condition = "ne" -> ~Eq(v, c.value)
      [] c.condition = "gt" -> Gt(v, c.value)
      [] c.condition = "gte" -> Gte(v, c.value)
      [] c.condition = "lt" -> Lt(v, c.value)
      [] c.condition = "lte" -> Lte(v, c.value)
      [] c.condition = "truthy" -> Truthy(v)
      [] c.condition = "falsy" -> ~Truthy(v)

\* One condition is enough, unless one before it throws.
Wants(hook, p) ==
    \/ hook.conditions = <<>>
    \/ \E i \in DOMAIN hook.conditions :
          /\ \A j \in 1..i : ~Throws(hook.conditions[j], p)
          /\ Holds(hook.conditions[i], p)

WebhooksFor(e, p) == SelectSeq(database, LAMBDA h : h.event = e /\ h.enabled /\ Wants(h, p))

-----------------------------------------------------------------------------
(* The webhooks and their file.                                              *)

Position(id) == CHOOSE i \in DOMAIN database : database[i].id = id
HasById(id) == \E i \in DOMAIN database : database[i].id = id

Init ==
    /\ database = <<>> /\ file = <<>>
    /\ listening = TRUE /\ server \in BOOLEAN
    /\ dispatched = <<>> /\ sending = {}
    /\ told = <<>>
    /\ history = [ids |-> 0, events |-> 0, crashes |-> 0, changes |-> 0, posts |-> 0, reports |-> 0]

\* Every change is written at once; the client is answered after it.
Write(hooks) ==
    /\ database' = hooks /\ file' = hooks
    /\ told' = hooks

Elsewhere == UNCHANGED <<listening, server, dispatched, sending>>

Changes == /\ server /\ history.changes < MaxChanges

Create(h) ==
    /\ Changes /\ Len(database) < MaxHooks
    /\ Write(Append(database, h @@ [id |-> history.ids + 1]))
    /\ history' = [history EXCEPT !.ids = @ + 1, !.changes = @ + 1]
    /\ Elsewhere

Update(id, h) ==
    /\ Changes /\ HasById(id)
    /\ Write([database EXCEPT ![Position(id)] = h @@ @])
    /\ history' = [history EXCEPT !.changes = @ + 1]
    /\ Elsewhere

Destroy(id) ==
    /\ Changes /\ HasById(id)
    /\ Write(SelectSeq(database, LAMBDA h : h.id # id))
    /\ history' = [history EXCEPT !.changes = @ + 1]
    /\ Elsewhere

-----------------------------------------------------------------------------
(* Events.                                                                   *)

Dispatch(e, p) ==
    /\ listening /\ history.events < MaxEvents
    /\ dispatched' = Append(dispatched, [event |-> e, payload |-> p, of |-> None])
    /\ history' = [history EXCEPT !.events = @ + 1]
    /\ UNCHANGED <<database, file, listening, server, sending, told>>

\* The first turn of the event: the listener looks up the webhooks as they are
\* now and posts to all of them.
Post(e) ==
    LET hooks == WebhooksFor(e.event, e.payload)
    IN  /\ sending' = sending \union
              {[number |-> history.posts + i, hook |-> hooks[i].id, target |-> hooks[i].target,
                event |-> e.event, payload |-> e.payload] : i \in DOMAIN hooks}
        /\ history' = [history EXCEPT !.posts = @ + Len(hooks)]

\* The listener passes over its own events.
Handle ==
    /\ listening /\ dispatched # <<>>
    /\ LET e == Head(dispatched) IN
       \/ e.event \in Own /\ UNCHANGED <<sending, history>>
       \/ e.event \notin Own /\ Post(e)
    /\ dispatched' = Tail(dispatched)
    /\ UNCHANGED <<database, file, listening, server, told>>

\* A post ends: answered, refused or timed out. What came of it is dispatched.
Report(s, event) ==
    /\ sending' = sending \ {s}
    /\ dispatched' = Append(dispatched, [event |-> event, payload |-> s.payload, of |-> s.number])
    /\ history' = [history EXCEPT !.reports = @ + 1]
    /\ UNCHANGED <<database, file, listening, server, told>>

Broadcast(s) == listening /\ Report(s, "webhooks.broadcasted")
Fail(s) == listening /\ Report(s, "webhooks.failed")

-----------------------------------------------------------------------------
(* The server and the process.                                               *)

\* dispose() stops the server; the listener stays until the process ends.
Dispose ==
    /\ server /\ server' = FALSE
    /\ UNCHANGED <<database, file, listening, dispatched, sending, told, history>>

Gone ==
    /\ listening' = FALSE /\ server' = FALSE
    /\ database' = <<>> /\ dispatched' = <<>> /\ sending' = {}
    /\ history.crashes < MaxCrashes
    /\ history' = [history EXCEPT !.crashes = @ + 1, !.posts = 0, !.reports = 0]

Crash == listening /\ Gone /\ UNCHANGED <<file, told>>

\* The write of a change is cut short: the file is torn or empty, and the
\* change was not answered.
CrashWriting ==
    /\ listening /\ server /\ history.changes < MaxChanges
    /\ Gone
    /\ file' \in {None, <<>>}
    /\ told' = file'

\* A torn file cannot be read, and the plugin fails to register. The server
\* boots only if it is enabled.
Boot(enabled) ==
    /\ ~listening /\ file # None
    /\ database' = file
    /\ listening' = TRUE /\ server' = enabled
    /\ UNCHANGED <<file, dispatched, sending, told, history>>

Next ==
    \/ \E h \in Requests : Create(h)
    \/ \E id \in 1..history.ids, h \in Requests : Update(id, h)
    \/ \E id \in 1..history.ids : Destroy(id)
    \/ \E e \in Events, p \in Payloads : Dispatch(e, p)
    \/ Handle
    \/ \E s \in sending : Broadcast(s) \/ Fail(s)
    \/ Dispose \/ Crash \/ CrashWriting
    \/ \E enabled \in BOOLEAN : Boot(enabled)

Spec == Init /\ [][Next]_vars

-----------------------------------------------------------------------------
(* Properties.                                                               *)

\* The values the variables take; identifiers are not given twice.
TypeOK ==
    /\ \A i, j \in DOMAIN database : database[i].id = database[j].id => i = j
    /\ \A i \in DOMAIN database : database[i].id \in 1..history.ids
    /\ Len(database) <= MaxHooks
    /\ listening \in BOOLEAN /\ server \in BOOLEAN
    /\ \A i \in DOMAIN dispatched : dispatched[i].event \in Events \union Own
    /\ history.events <= MaxEvents /\ history.crashes <= MaxCrashes /\ history.changes <= MaxChanges

\* No event the listener dispatches is ever posted, whoever asked for it, so
\* what comes of a post causes no other (listener.ts:24, "Skip own events to
\* prevent cycling").
NoCycle == \A s \in sending : s.event \notin Own

\* Every post is under way or was reported once, also when its webhook was
\* changed or destroyed meanwhile, and when the server stopped.
EveryPostReported == history.posts = history.reports + Cardinality(sending)

\* Whenever the process ends, between two changes or within one, the node that
\* starts again has the webhooks its clients were told of, unless the very write
\* was cut short.
RestartKeepsHooks == ~listening /\ listening' => database' = told

\* A change of one webhook leaves all others as they were, and their order.
OthersStay ==
    listening /\ listening' =>
        \E id \in 0..history'.ids :
            SelectSeq(database', LAMBDA h : h.id # id) = SelectSeq(database, LAMBDA h : h.id # id)
=============================================================================
