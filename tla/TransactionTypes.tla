-------------------------- MODULE TransactionTypes --------------------------
(* What a node knows of the types of transactions                             *)
(* (core-crypto-transaction/source/registry.ts, core-transactions/source/     *)
(* handlers, the fee packages). Each transaction plugin, in the order of      *)
(* app.json, stores its fee, registers its type and binds its handler; a use of*)
(* the handlers checks all of them, and registers the types that are not the  *)
(* core's. A plugin that fails is passed over. A transaction class is the     *)
(* plugin's record: its type, version, key and class name.                    *)
EXTENDS Integers, Sequences, FiniteSets, SequencesExt

CONSTANTS Further,         \* plugins beyond the shipped ones; some leave their type to the handler
          Data,            \* what arrives: typeGroup, type, version (0: none given), fee, size
          FeeType,         \* which fee plugin there is: "static" or "managed"
          SatoshiPerByte,
          None,
          MaxUses          \* bound: uses of the handlers

Core == 1

TypesAssumption ==
    /\ FeeType \in {"static", "managed"} /\ SatoshiPerByte \in Nat /\ MaxUses \in Nat
    /\ \A p \in Further :
          {"key", "typeGroup", "type", "version", "name", "needs", "attributes", "fee", "registers"} \subseteq DOMAIN p
    /\ \A d \in Data : {d.typeGroup, d.type, d.version, d.fee, d.size} \subseteq Nat

-----------------------------------------------------------------------------
(* The shipped plugins, in their order; fees in units of a tenth of a token.  *)

Plugin(key, type, name, needs, attributes, managed, static) ==
    [key |-> key, typeGroup |-> Core, type |-> type, version |-> 1, name |-> name, needs |-> needs,
     attributes |-> attributes, fee |-> [managed |-> managed, static |-> static], registers |-> TRUE]

ValidatorRegistration ==
    Plugin("validatorRegistration", 2, "ValidatorRegistrationTransactionHandler", {},
           {"validator.rank", "validator.round", "validator.username", "validator.voteBalance", "validator"},
           400000, 250)
ValidatorResignation ==
    Plugin("validatorResignation", 7, "ValidatorResignationTransactionHandler",
           {"ValidatorRegistrationTransactionHandler"}, {"validator.resigned"}, 100, 250)
MultiPayment == Plugin("multiPayment", 6, "MultiPaymentTransactionHandler", {}, {}, 500, 1)
MultiSignature ==
    Plugin("multiSignature", 4, "MultiSignatureRegistrationTransactionHandler", {}, {"multiSignature"}, 500, 50)
Transfer == Plugin("transfer", 0, "TransferTransactionHandler", {}, {}, 100, 1)
Vote ==
    Plugin("vote", 3, "VoteTransactionHandler", {"ValidatorRegistrationTransactionHandler"}, {"vote"}, 100, 10)

Shipped == <<ValidatorRegistration, ValidatorResignation, MultiPayment, MultiSignature, Transfer, Vote>>

-----------------------------------------------------------------------------

VARIABLES shipped,           \* shipped plugins that are still to come
          further,           \* further plugins that may still come
          transactionTypes,  \* the classes of each internal type, in the order they came
          schemas,           \* by identifier: the class whose schema it is
          registries,        \* fee registries, one for each time one was asked for
          handlers,          \* classes whose handlers are bound, in order
          registered,        \* whether the handlers were all registered
          attributes,        \* wallet attributes that are known
          uses               \* results of the uses of the handlers: None or the error

vars == <<shipped, further, transactionTypes, schemas, registries, handlers, registered, attributes, uses>>

InternalType(c) == <<c.typeGroup, c.type>>

-----------------------------------------------------------------------------
(* The type registry.                                                        *)

\* Of each type only the first class is asked for its key.
KeyTaken(types, c) ==
    \E t \in DOMAIN types : types[t][1].key = c.key /\ t # InternalType(c)

AlreadyRegistered(types, c) == \E t \in DOMAIN types : c \in ToSet(types[t])

VersionTaken(types, c) ==
    /\ InternalType(c) \in DOMAIN types
    /\ \E o \in ToSet(types[InternalType(c)]) : o.version = c.version

Refused(types, c) == KeyTaken(types, c) \/ AlreadyRegistered(types, c) \/ VersionTaken(types, c)

WithType(types, c) ==
    LET t == InternalType(c)
    IN  [u \in DOMAIN types \union {t} |->
            IF u # t THEN types[u] ELSE IF t \in DOMAIN types THEN Append(types[t], c) ELSE <<c>>]

\* A schema of the same identifier is replaced.
UpdateSchemas(known, c) == [id \in DOMAIN known \union {c.key} |-> IF id = c.key THEN c ELSE known[id]]

\* The version that is asked for, or else the first there is.
Get(d) ==
    LET t == InternalType(d)
        version == IF d.version = 0 THEN 1 ELSE d.version
    IN  IF t \notin DOMAIN transactionTypes THEN None
        ELSE IF \E c \in ToSet(transactionTypes[t]) : c.version = version
             THEN CHOOSE c \in ToSet(transactionTypes[t]) : c.version = version
             ELSE transactionTypes[t][1]

-----------------------------------------------------------------------------
(* The plugins.                                                              *)

Init ==
    /\ shipped = Shipped /\ further \in SUBSET Further
    /\ transactionTypes = <<>> /\ schemas = <<>>
    /\ registries = <<>>
    /\ handlers = <<>> /\ registered = FALSE /\ attributes = {}
    /\ uses = <<>>

\* The fee registry is bound without a scope: every plugin is given one of its own.
RegisterFees(p) == registries' = Append(registries, {<<p.key, p.version, p.fee[FeeType]>>})

\* Faulty variant: the handler is bound although the type was refused.
BindAnyway(p) ==
    /\ RegisterFees(p)
    /\ handlers' = Append(handlers, p)
    /\ IF p.registers /\ ~Refused(transactionTypes, p)
       THEN /\ transactionTypes' = WithType(transactionTypes, p)
            /\ schemas' = UpdateSchemas(schemas, p)
       ELSE UNCHANGED <<transactionTypes, schemas>>
    /\ UNCHANGED <<registered, attributes, uses>>

\* A type that is refused fails the plugin before its handler is bound.
Register(p) ==
    /\ RegisterFees(p)
    /\ \/ /\ p.registers /\ Refused(transactionTypes, p)
          /\ UNCHANGED <<transactionTypes, schemas, handlers>>
       \/ /\ p.registers /\ ~Refused(transactionTypes, p)
          /\ transactionTypes' = WithType(transactionTypes, p)
          /\ schemas' = UpdateSchemas(schemas, p)
          /\ handlers' = Append(handlers, p)
       \/ /\ ~p.registers
          /\ handlers' = Append(handlers, p)
          /\ UNCHANGED <<transactionTypes, schemas>>
    /\ UNCHANGED <<registered, attributes, uses>>

RegisterShipped ==
    /\ shipped # <<>>
    /\ Register(Head(shipped)) /\ shipped' = Tail(shipped)
    /\ UNCHANGED further

RegisterFurther(p) ==
    /\ p \in further
    /\ Register(p) /\ further' = further \ {p}
    /\ UNCHANGED shipped

-----------------------------------------------------------------------------
(* The handlers.                                                             *)

HasOtherHandling(h) ==
    \E o \in ToSet(handlers) \ {h} : InternalType(o) = InternalType(h) /\ o.version = h.version

HasOtherHandler(h, name) == \E o \in ToSet(handlers) : o.name # h.name /\ o.name = name

\* One handler after the other; what was registered before an error stays.
RegisterHandler(s, h) ==
    LET own == h.typeGroup # Core
        error == CASE HasOtherHandling(h) -> "handled"
                   [] \E n \in h.needs : ~HasOtherHandler(h, n) -> "dependency"
                   [] own /\ Refused(s.types, h) -> "type"
                   [] OTHER -> None
    IN  IF s.error # None THEN s
        ELSE IF error \in {"handled", "dependency"} THEN [s EXCEPT !.error = error]
        ELSE IF own /\ error = None
             THEN [types |-> WithType(s.types, h), schemas |-> UpdateSchemas(s.schemas, h),
                   attributes |-> s.attributes \union h.attributes, error |-> None]
             ELSE [s EXCEPT !.attributes = @ \union h.attributes, !.error = error]

RegisterHandlers ==
    FoldLeft(RegisterHandler,
             [types |-> transactionTypes, schemas |-> schemas, attributes |-> attributes, error |-> None],
             handlers)

\* Every time the handlers are asked for, when all plugins are there, they are
\* registered unless they were before; an error leaves them unregistered.
Initialize ==
    /\ shipped = <<>> /\ further = {} /\ Len(uses) < MaxUses
    /\ \/ /\ registered
          /\ uses' = Append(uses, None)
          /\ UNCHANGED <<transactionTypes, schemas, attributes, registered>>
       \/ /\ ~registered
          /\ LET s == RegisterHandlers IN
                /\ transactionTypes' = s.types /\ schemas' = s.schemas /\ attributes' = s.attributes
                /\ registered' = (s.error = None)
                /\ uses' = Append(uses, s.error)
    /\ UNCHANGED <<shipped, further, registries, handlers>>

\* The handler for what arrives: of its type and its very version. All shipped
\* handlers are active.
RegisteredHandler(d) ==
    LET fit == {h \in ToSet(handlers) : InternalType(h) = InternalType(d) /\ h.version = d.version}
    IN  IF fit = {} THEN None ELSE CHOOSE h \in fit : TRUE

ActivatedHandlerForData(d) ==
    RegisteredHandler([d EXCEPT !.version = IF d.version = 0 THEN 1 ELSE d.version])

-----------------------------------------------------------------------------
(* The fees.                                                                 *)

\* A registry the matcher is given is a new one.
MatcherRegistry == {}
FeeOf(d) ==
    LET known == {f \in MatcherRegistry : Get(d) # None /\ f[1] = Get(d).key /\ f[2] = d.version}
    IN  IF known = {} THEN None ELSE (CHOOSE f \in known : TRUE)[3]

\* A comparison with no fee throws.
StaticFeeEnters(d) == FeeOf(d) # None /\ d.fee = FeeOf(d)

MinFee(d) == ((IF FeeOf(d) = None THEN 0 ELSE FeeOf(d)) + (d.size + 1) \div 2) * SatoshiPerByte
ManagedFeeEnters(d) == d.fee >= MinFee(d)

CanEnterPool(d) == IF FeeType = "static" THEN StaticFeeEnters(d) ELSE ManagedFeeEnters(d)

-----------------------------------------------------------------------------

Next ==
    \/ RegisterShipped
    \/ \E p \in Further : RegisterFurther(p)
    \/ Initialize

Spec == Init /\ [][Next]_vars

-----------------------------------------------------------------------------
(* Properties.                                                               *)

\* The values the variables take.
TypeOK ==
    /\ \A t \in DOMAIN transactionTypes :
          \A i, j \in DOMAIN transactionTypes[t] :
             /\ InternalType(transactionTypes[t][i]) = t
             /\ transactionTypes[t][i].version = transactionTypes[t][j].version => i = j
    /\ DOMAIN schemas = {c.key : c \in UNION {ToSet(transactionTypes[t]) : t \in DOMAIN transactionTypes}}
    /\ registered \in BOOLEAN
    /\ Len(uses) <= MaxUses

\* Whatever the order of the plugins and whichever of them fail: once the handlers
\* are registered, each is the only one of its type and version, its dependencies
\* are there, its attributes are known and its class decodes what it handles.
RegisteredMeansAll ==
    registered =>
        \A h \in ToSet(handlers) :
            /\ ~HasOtherHandling(h)
            /\ \A n \in h.needs : HasOtherHandler(h, n)
            /\ h.attributes \subseteq attributes
            /\ InternalType(h) \in DOMAIN transactionTypes
            /\ h \in ToSet(transactionTypes[InternalType(h)])

\* A transaction is never handled as another class than the one that read it,
\* although a missing version falls back on the first class of its type.
ReadAsHandled ==
    registered => \A d \in Data : ActivatedHandlerForData(d) \in {None, Get(d)}

\* No handler is ever used after a use that failed: the types that were
\* registered then make each later one fail as well.
NeverHalfRegistered == (\E i \in DOMAIN uses : uses[i] # None) => ~registered

\* Does not hold (README, section 5): whatever carries the fee its plugin set can
\* enter the pool.
DecidedFeeEnters ==
    (registered /\ FeeType = "static") =>
        \A d \in Data : (Get(d) # None /\ d.version = Get(d).version /\ d.fee = Get(d).fee.static) => CanEnterPool(d)
=============================================================================
