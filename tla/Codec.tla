-------------------------------- MODULE Codec --------------------------------
(* Blocks and transactions as data, objects, bytes and JSON, and their          *)
(* verification (core-serializer, core-crypto-block, core-crypto-transaction    *)
(* and its types). A buffer is a sequence of cells: a cell of a number is a     *)
(* digit, a cell of a key, a hash, a signature or a text is a part of it.       *)
EXTENDS Integers, Sequences, FiniteSets, TLC, SequencesExt

CONSTANTS Base,           \* values of a byte
          Width, Size,    \* cells of the integers and of the opaque values
          TextLength,     \* cells of each text
          Capacity,       \* cells of a block's buffer
          Unsigned,       \* transactions as a builder leaves them
          Originals,      \* the payloads of blocks, as sequences of them
          MultiKeys, MaxTransactions, MaxPayload,
          Packages        \* which argument the signature package takes first

CodecAssumption ==
    /\ Base > 1 /\ Capacity > 0
    /\ Packages \subseteq {"signature", "hash"}
    /\ Cardinality(MultiKeys) < Size["signature"]   \* 16 and 64

VARIABLES package,   \* of the signatures
          origin,    \* what was made
          held,      \* the form it is in now
          check      \* the loop of verifySignatures

vars == <<package, origin, held, check>>

-----------------------------------------------------------------------------
(* Cells.                                                                      *)

Digits(n, w) == [i \in 1..w |-> <<"byte", (n \div Base^(i - 1)) % Base>>]
Number(s) == FoldFunction(+, 0, [i \in 1..Len(s) |-> (s[i][2] % Base) * Base^(i - 1)])
Opaque(v, n) == [i \in 1..n |-> <<v, i>>]

\* Cells that are not those of one value read as a value of their own.
Value(s) ==
    IF s = <<>> THEN "" ELSE IF s = Opaque(s[1][1], Len(s)) THEN s[1][1] ELSE ToString(s)

Hash(s) == ToString(s)
Sign(h, key) == key \o " signs " \o h
Accepts(h, signature, key) == IF package = "hash" THEN signature = Sign(h, key) ELSE h = Sign(signature, key)

Integer(kind) == kind \in {"uint8", "uint16", "uint32", "uint64"}

\* One item of a list.
PaymentSize == Width["uint64"] + Size["address"]
ItemSize(kind) == IF kind = "keys" THEN Size["publicKey"] ELSE PaymentSize
CountWidth(kind) == Width[IF kind = "keys" THEN "uint8" ELSE "uint16"]
Item(kind, x) ==
    IF kind = "keys" THEN Opaque(x, Size["publicKey"])
    ELSE Digits(x.amount, Width["uint64"]) \o Opaque(x.recipient, Size["address"])
ItemRead(kind, s) ==
    IF kind = "keys" THEN Value(s)
    ELSE [amount |-> Number(SubSeq(s, 1, Width["uint64"])), recipient |-> Value(SubSeq(s, Width["uint64"] + 1, Len(s)))]

Write(kind, v) ==
    CASE Integer(kind) -> Digits(v, Width[kind])
      [] kind = "text" -> Digits(TextLength[v], Width["uint8"]) \o Opaque(v, TextLength[v])
      [] kind \in {"keys", "payments"} ->
            Digits(Len(v), CountWidth(kind)) \o FlattenSeq([i \in 1..Len(v) |-> Item(kind, v[i])])
      [] OTHER -> Opaque(v, Size[kind])

\* A reader r: where it is, what it has read, whether nothing threw.
Field(name, kind) == [name |-> name, kind |-> kind]
Take(b, r, n) == SubSeq(b, r.at, r.at + n - 1)
Got(b, r, f, n, v) ==
    IF r.at + n - 1 > Len(b) THEN [r EXCEPT !.ok = FALSE]
    ELSE [r EXCEPT !.at = @ + n, !.data = (f.name :> v) @@ @]

Count(b, r, w) == IF r.at + w - 1 > Len(b) THEN 0 ELSE Number(Take(b, r, w))
Read(b, r, f) ==
    IF Integer(f.kind) THEN Got(b, r, f, Width[f.kind], Number(Take(b, r, Width[f.kind])))
    ELSE IF f.kind = "text" THEN
        LET w == Width["uint8"]  n == Count(b, r, w)
        IN  Got(b, r, f, w + n, Value(SubSeq(b, r.at + w, r.at + w + n - 1)))
    ELSE IF f.kind \in {"keys", "payments"} THEN
        LET w == CountWidth(f.kind)  n == Count(b, r, w)  s == ItemSize(f.kind)
            from(i) == r.at + w + (i - 1) * s
        IN  Got(b, r, f, w + n * s, [i \in 1..n |-> ItemRead(f.kind, SubSeq(b, from(i), from(i) + s - 1))])
    ELSE Got(b, r, f, Size[f.kind], Value(Take(b, r, Size[f.kind])))

WriteAll(format, d) == FlattenSeq([i \in 1..Len(format) |-> Write(format[i].kind, d[format[i].name])])
ReadAll(format, b, start) == FoldLeft(LAMBDA r, f : IF r.ok THEN Read(b, r, f) ELSE r, start, format)
Start == [at |-> 1, data |-> <<>>, ok |-> TRUE]

-----------------------------------------------------------------------------
(* Transactions. An absent text, recipient or signature is "".                *)

Types == {"transfer", "validatorRegistration", "vote", "multiSignature", "multiPayment", "validatorResignation"}
TypeNumber == [t \in Types |-> CASE t = "transfer" -> 0 [] t = "validatorRegistration" -> 2 [] t = "vote" -> 3
                                 [] t = "multiSignature" -> 4 [] t = "multiPayment" -> 6 [] t = "validatorResignation" -> 7]
Known(n) == \E t \in Types : TypeNumber[t] = n
TypeOf(n) == CHOOSE t \in Types : TypeNumber[t] = n

Common ==
    <<Field("marker", "uint8"), Field("version", "uint8"), Field("network", "uint8"), Field("typeGroup", "uint32"),
      Field("type", "uint16"), Field("nonce", "uint64"), Field("senderPublicKey", "publicKey"), Field("fee", "uint64")>>

TransferBody == <<Field("amount", "uint64"), Field("expiration", "uint32"), Field("recipient", "address")>>
RegistrationBody == <<Field("username", "text")>>
VoteBody == <<Field("votes", "keys"), Field("unvotes", "keys")>>
MultiSignatureBody == <<Field("min", "uint8"), Field("publicKeys", "keys")>>
MultiPaymentBody == <<Field("payments", "payments")>>
ResignationBody == <<>>
Body(t) ==
    CASE t = "transfer" -> TransferBody
      [] t = "validatorRegistration" -> RegistrationBody
      [] t = "vote" -> VoteBody
      [] t = "multiSignature" -> MultiSignatureBody
      [] t = "multiPayment" -> MultiPaymentBody
      [] t = "validatorResignation" -> ResignationBody

HasVendorField(t) == t = "transfer"
Vendor(d) == IF HasVendorField(TypeOf(d.type)) THEN d.vendorField ELSE ""

\* serializer.getBytes; excluded are options.
GetBytes(d, excluded) ==
    WriteAll(Common, d) \o Write("text", Vendor(d)) \o WriteAll(Body(TypeOf(d.type)), d)
      \o (IF d.signature # "" /\ "signature" \notin excluded THEN Opaque(d.signature, Size["signature"]) ELSE <<>>)
      \o (IF "signatures" \notin excluded
          THEN FlattenSeq([i \in 1..Len(d.signatures) |->
                 Digits(d.signatures[i].index, 1) \o Opaque(d.signatures[i].signature, Size["signature"])])
          ELSE <<>>)
ToBytes(d) == GetBytes(d, {})
GetId(d) == Hash(GetBytes(d, {}))

CanReadSignature(n) == n # 0 /\ (n % Size["signature"] = 0 \/ n % (Size["signature"] + 1) # 0)

\* deserializer.deserialize: the data, and whether nothing threw. A reader goes
\* on after the common fields, the vendor field, the body and the signature.
Threw == [ok |-> FALSE]
AfterSignature(b, r) ==
    IF ~r.ok THEN Threw
    ELSE [ok |-> TRUE, data |-> ("signatures" :> <<>>) @@ r.data, used |-> SubSeq(b, 1, r.at - 1)]
AfterBody(b, r) ==
    IF ~r.ok THEN Threw
    ELSE AfterSignature(b, IF CanReadSignature(Len(b) - r.at + 1) THEN Read(b, r, Field("signature", "signature"))
                           ELSE [r EXCEPT !.data = ("signature" :> "") @@ @])
AfterVendor(b, r, t) ==
    IF ~r.ok THEN Threw
    ELSE AfterBody(b, ReadAll(Body(t), b, IF HasVendorField(t) THEN r ELSE [r EXCEPT !.data.vendorField = ""]))
AfterCommon(b, r) ==
    IF ~r.ok \/ ~Known(r.data.type) THEN Threw
    ELSE AfterVendor(b, Read(b, r, Field("vendorField", "text")), TypeOf(r.data.type))
Deserialize(b) == AfterCommon(b, ReadAll(Common, b, Start))

\* The schemas of the types; strict ones ask for an id and a signature.
TransferValid(d) == d.amount >= 1 /\ d.recipient # ""
VoteValid(d) == Len(d.votes) <= 1 /\ Len(d.unvotes) <= 1 /\ Len(d.votes) + Len(d.unvotes) >= 1
MultiSignatureValid(d) == d.min \in 1..Len(d.publicKeys) /\ Len(d.signatures) \in d.min..Len(d.publicKeys)
MultiPaymentValid(d) == Len(d.payments) >= 2 /\ \A i \in 1..Len(d.payments) : d.payments[i].amount >= 1
RegistrationValid(d) == TextLength[d.username] >= 1
StrictValid(d) == d.id # "" /\ (d.signature # "" \/ d.signatures # <<>>)
Valid(d, strict) ==
    /\ d.fee >= 1
    /\ TypeOf(d.type) = "transfer" => TransferValid(d)
    /\ TypeOf(d.type) = "vote" => VoteValid(d)
    /\ TypeOf(d.type) = "multiSignature" => MultiSignatureValid(d)
    /\ TypeOf(d.type) = "multiPayment" => MultiPaymentValid(d)
    /\ TypeOf(d.type) = "validatorRegistration" => RegistrationValid(d)
    /\ strict => StrictValid(d)

Error == [form |-> "error"]
Object(d, b) == [form |-> "object", data |-> d, bytes |-> b]

\* factory.#fromSerialized and fromData.
Validated(d, b, strict) == IF Valid(d, strict) THEN Object(d, b) ELSE Error
Deserialized(r, strict) == IF r.ok THEN Validated(("id" :> GetId(r.data)) @@ r.data, r.used, strict) ELSE Error
FromBytes(b, strict) == Deserialized(Deserialize(b), strict)
FromData(d, strict) == IF Valid(d, strict) THEN FromBytes(ToBytes(d), strict) ELSE Error

\* The builder's sign and getStruct; multiSign of some keys.
Signed(d) == [d EXCEPT !.signature = Sign(Hash(GetBytes(d, {"signature"})), d.senderPublicKey)]
MultiSigned(d, keys) ==
    [d EXCEPT !.signatures = [i \in 1..Len(keys) |->
        [index |-> i - 1, signature |-> Sign(Hash(GetBytes(d, {"signature", "signatures"})), keys[i])]]]
WithId(d) == [d EXCEPT !.id = GetId(d)]
VerifyHash(d) == d.signature # "" /\ Accepts(Hash(GetBytes(d, {"signature"})), d.signature, d.senderPublicKey)

-----------------------------------------------------------------------------
(* Blocks.                                                                     *)

Header ==
    <<Field("version", "uint32"), Field("timestamp", "uint32"), Field("height", "uint32"), Field("previousBlock", "hash"),
      Field("numberOfTransactions", "uint32"), Field("totalAmount", "uint64"), Field("totalFee", "uint64"),
      Field("reward", "uint64"), Field("payloadLength", "uint32"), Field("payloadHash", "hash"),
      Field("generatorPublicKey", "publicKey"), Field("blockSignature", "signature")>>
IsSignature(f) == f.name = "blockSignature"

Padded(b) == b \o [i \in 1..(Capacity - Len(b)) |-> <<"byte", 0>>]

\* An unrequired field is left out only when the block does not have it, and
\* the whole buffer is returned.
SerializeHeader(d, includeSignature) ==
    LET format == IF d.blockSignature = "" /\ ~includeSignature
                  THEN SelectSeq(Header, LAMBDA f : ~IsSignature(f)) ELSE Header
    IN  Padded(WriteAll(format, d))
WriteTransaction(d) == LET b == ToBytes(d) IN Digits(Len(b), Width["uint32"]) \o b
SerializeWithTransactions(d) ==
    Padded(WriteAll(Header, d) \o FlattenSeq([i \in 1..Len(d.transactions) |-> WriteTransaction(d.transactions[i])]))
BlockId(d) == Hash(SerializeHeader(d, TRUE))

WithTransaction(r, o, end) == IF o = Error THEN [r EXCEPT !.ok = FALSE]
                              ELSE [r EXCEPT !.at = end + 1, !.data.transactions = Append(@, o.data)]
ReadTransaction(b, r) ==
    LET from == r.at + Width["uint32"]
        end == from + Count(b, r, Width["uint32"]) - 1
    IN  IF end > Len(b) THEN [r EXCEPT !.ok = FALSE]
        ELSE WithTransaction(r, FromBytes(SubSeq(b, from, end), TRUE), end)

AfterTransactions(r) == IF ~r.ok THEN Threw ELSE [ok |-> TRUE, data |-> ("id" :> BlockId(r.data)) @@ r.data]
AfterHeader(b, r, headerOnly) ==
    AfterTransactions(
      IF ~r.ok \/ headerOnly \/ r.at > Len(b) THEN r
      ELSE FoldLeft(LAMBDA q, i : IF q.ok THEN ReadTransaction(b, q) ELSE q, r,
                    [i \in 1..r.data.numberOfTransactions |-> i]))
DeserializeBlock(b, headerOnly) ==
    AfterHeader(b, ReadAll(Header, b, [Start EXCEPT !.data = [transactions |-> <<>>]]), headerOnly)

Sealed(d, b) == [form |-> "block", data |-> d, bytes |-> b]
BlockDeserialized(r, b) == IF r.ok THEN Sealed(r.data, b) ELSE Error
BlockFromBytes(b) == BlockDeserialized(DeserializeBlock(b, FALSE), b)
BlockFromData(d) ==
    IF d.id = "" \/ d.blockSignature = "" \/ Len(d.transactions) # d.numberOfTransactions THEN Error
    ELSE BlockFromBytes(SerializeWithTransactions(d))

Amount(d) == IF TypeOf(d.type) = "transfer" THEN d.amount ELSE 0
Total(ds, F(_)) == FoldFunction(+, 0, [i \in 1..Len(ds) |-> F(ds[i])])
Ids(ds) == [i \in 1..Len(ds) |-> ds[i].id]

\* What the forger puts into a block, and its signature.
Payload(ds) ==
    [version |-> 1, timestamp |-> 1, height |-> 2, previousBlock |-> "genesis", numberOfTransactions |-> Len(ds),
     totalAmount |-> Total(ds, Amount), totalFee |-> Total(ds, LAMBDA d : d.fee), reward |-> 1,
     payloadLength |-> Len(ds) * Size["hash"], payloadHash |-> Hash(Ids(ds)), generatorPublicKey |-> "forger",
     blockSignature |-> "", transactions |-> ds, id |-> ""]
SignedBlock(d) == [d EXCEPT !.blockSignature = Sign(Hash(SerializeHeader(d, FALSE)), "forger")]
WithBlockId(d) == [d EXCEPT !.id = BlockId(d)]
Make(ds) == WithBlockId(SignedBlock(Payload(ds)))

\* serializer.size.
BlockSize(d) ==
    6 * Width["uint32"] + 3 * Width["uint64"] + 2 * Size["hash"] + Size["publicKey"] + Size["signature"]
      - Width["uint32"] + Total(d.transactions, LAMBDA t : Width["uint32"] + Len(ToBytes(t)))

\* Faulty variant: the sums are those of the header.
VerifyIgnoringSums(d) ==
    /\ d.version = 1 /\ BlockSize(d) <= MaxPayload
    /\ \A i \in 1..Len(d.transactions) : VerifyHash(d.transactions[i])
    /\ d.payloadHash = Hash(Ids(d.transactions))

\* verifier.verify; the promise of verifySignature is not awaited: it is no
\* condition. The forger's clock, height and reward are the node's.
Verify(d) ==
    /\ d.reward = 1 /\ d.version = 1 /\ d.timestamp <= 2 /\ BlockSize(d) <= MaxPayload
    /\ \A i \in 1..Len(d.transactions) : VerifyHash(d.transactions[i])
    /\ Len(d.transactions) = d.numberOfTransactions /\ Len(d.transactions) <= MaxTransactions
    /\ \A i, j \in 1..Len(d.transactions) : d.transactions[i].id = d.transactions[j].id => i = j
    /\ \A i \in 1..Len(d.transactions) : "expiration" \in DOMAIN d.transactions[i] =>
          d.transactions[i].expiration = 0 \/ d.transactions[i].expiration > d.height
    /\ d.totalAmount = Total(d.transactions, Amount) /\ d.totalFee = Total(d.transactions, LAMBDA t : t.fee)
    /\ d.payloadHash = Hash(Ids(d.transactions))

-----------------------------------------------------------------------------
(* What is held changes its form. A transaction is signed, built, sent or       *)
(* stored; a block is made, sent, posted, downloaded, stored.                   *)

NoCheck == [seen |-> {}, verified |-> 0, verdict |-> "none"]
Data(d) == [form |-> "data", data |-> d]
Bytes(b) == [form |-> "bytes", bytes |-> b]
BlockData(d) == [form |-> "blockData", data |-> d]
BlockBytes(b) == [form |-> "blockBytes", bytes |-> b]
Hold(x) == held' = x /\ UNCHANGED <<package, origin, check>>

Init ==
    /\ package \in Packages
    /\ \/ \E d \in Unsigned : origin = WithId(Signed(d)) /\ held = Data(origin)
       \/ \E d \in Unsigned, keys \in {<<"k1">>, <<"k1", "k2">>} :
            origin = WithId(Signed(MultiSigned(d, keys))) /\ held = Data(origin)
       \/ \E ds \in Originals :
            origin = Make([i \in 1..Len(ds) |-> WithId(Signed(ds[i]))]) /\ held = BlockData(origin)
    /\ check = NoCheck

BuildFromData == held.form = "data" /\ Hold(FromData(held.data, TRUE))
SendTransaction == held.form = "object" /\ Hold(Bytes(held.bytes))
ReceiveTransaction == held.form = "bytes" /\ Hold(FromBytes(held.bytes, TRUE))
ReadData == held.form = "object" /\ Hold(Data(held.data))
ProcessBlockData == held.form = "blockData" /\ Hold(BlockFromData(held.data))
StoreBlock == held.form = "block" /\ Hold(BlockBytes(held.bytes))
ReadBlock == held.form = "blockBytes" /\ Hold(BlockFromBytes(held.bytes))
PostBlock == held.form = "block" /\ Hold(BlockBytes(SerializeWithTransactions(held.data)))
Posted(h, r) == IF h.ok /\ r.ok /\ h.data.numberOfTransactions <= MaxTransactions THEN BlockData(r.data) ELSE Error
ReceivePost ==
    held.form = "blockBytes" /\ Hold(Posted(DeserializeBlock(held.bytes, TRUE), DeserializeBlock(held.bytes, FALSE)))

\* Each transaction goes as bytes and comes back as data.
Received(d, got) == IF \E i \in 1..Len(got) : got[i] = Error THEN Error
                    ELSE BlockData([d EXCEPT !.transactions = [i \in 1..Len(got) |-> got[i].data]])
Download ==
    /\ held.form = "block"
    /\ Hold(Received(held.data, [i \in 1..Len(held.data.transactions) |-> FromBytes(ToBytes(held.data.transactions[i]), TRUE)]))

\* On the way: one transaction is missing, twice there or in another place, or
\* its amount another.
Altered(d) ==
    IF d.transactions = <<>> THEN {[d EXCEPT !.reward = @ + 1], [d EXCEPT !.totalFee = @ + 1]}
    ELSE {[d EXCEPT !.transactions = Tail(@), !.numberOfTransactions = @ - 1], [d EXCEPT !.transactions = Reverse(@)],
     [d EXCEPT !.transactions = Append(@, @[1]), !.numberOfTransactions = @ + 1], [d EXCEPT !.totalAmount = @ + 1],
     [d EXCEPT !.totalFee = @ + 1], [d EXCEPT !.reward = @ + 1]}

\* verifySignatures: the parts name a key and are good or not. (The loop is the
\* same for every package.)
Part == [key : MultiKeys, good : BOOLEAN]
VerifyMulti ==
    /\ package = "hash" /\ held.form = "data" /\ origin.signatures # <<>> /\ check.verdict = "none"
    /\ \E n \in 1..Cardinality(MultiKeys), min \in 1..Cardinality(MultiKeys) : \E parts \in [1..n -> Part] :
         check' = [parts |-> parts, min |-> min, seen |-> {}, verified |-> 0, verdict |-> "open"]
    /\ UNCHANGED <<package, origin, held>>

AfterPart(c, good) ==
    [c EXCEPT !.seen = @ \union {c.parts[Cardinality(@) + 1].key}, !.verified = @ + (IF good THEN 1 ELSE 0)]
VerifyPart ==
    /\ check.verdict = "open"
    /\ LET at == Cardinality(check.seen) + 1
           n == Len(check.parts)
           c == AfterPart(check, check.parts[at].good)
       IN  check' = IF check.parts[at].key \in check.seen THEN [check EXCEPT !.verdict = "duplicate"]
                    ELSE IF c.verified = c.min THEN [c EXCEPT !.verdict = "yes"]
                    ELSE IF n - (at - c.verified) < c.min \/ at = n THEN [c EXCEPT !.verdict = "no"]
                    ELSE c
    /\ UNCHANGED <<package, origin, held>>

Next ==
    \/ BuildFromData \/ SendTransaction \/ ReceiveTransaction \/ ReadData
    \/ ProcessBlockData \/ StoreBlock \/ ReadBlock \/ PostBlock \/ ReceivePost \/ Download
    \/ VerifyMulti \/ VerifyPart

Spec == Init /\ [][Next]_vars

-----------------------------------------------------------------------------
IsBlock == "transactions" \in DOMAIN origin
Blocks == IF held.form \in {"blockData", "block"} THEN {held.data} ELSE {}

TypeOK ==
    /\ held.form \in {"data", "object", "bytes", "blockData", "block", "blockBytes", "error"}
    /\ check.verdict \in {"none", "open", "yes", "no", "duplicate"}

\* What bytes keep of a transaction: not the parts of a multisignature, and no
\* vendor field of a type that has none.
Kept(d) == [d EXCEPT !.signatures = <<>>, !.vendorField = Vendor(d)]
Same(d, e) == \A n \in DOMAIN d \ {"id"} : n \in DOMAIN e /\ d[n] = e[n]

\* Whatever forms a transaction takes, it means what it did, and without a
\* multisignature its id is its first one. (A registration of a multisignature
\* is refused: its schema asks for the parts that bytes do not keep.)
TransactionKept ==
    (~IsBlock) =>
        /\ held.form \in {"data", "object"} => Same(Kept(origin), Kept(held.data))
        /\ held.form \in {"data", "object"} /\ origin.signatures = <<>> => held.data.id = origin.id
        /\ held.form = "error" => TypeOf(origin.type) = "multiSignature"

\* Whatever ways a block goes, its header, its id and its transactions stay.
BlockKept ==
    IsBlock =>
        /\ held.form # "error"
        /\ \A d \in Blocks :
             /\ d.id = origin.id /\ \A i \in 1..Len(Header) : d[Header[i].name] = origin[Header[i].name]
             /\ Len(d.transactions) = Len(origin.transactions)
             /\ \A i \in 1..Len(d.transactions) :
                  Same(Kept(origin.transactions[i]), Kept(d.transactions[i])) /\ d.transactions[i].id = origin.transactions[i].id

\* A block that was made verifies wherever it is; one that was altered does not.
VerifiedAsMade ==
    \A d \in Blocks :
        /\ package = "hash" => Verify(d)
        /\ \A e \in Altered(d) : e # d => ~Verify(e)

\* The size that is limited is what the block takes of its buffer.
SizeIsTaken ==
    \A d \in Blocks :
        SerializeWithTransactions(d) = Padded(SubSeq(SerializeWithTransactions(d), 1, BlockSize(d)))
          /\ BlockSize(d) = Len(WriteAll(Header, d) \o FlattenSeq([i \in 1..Len(d.transactions) |-> WriteTransaction(d.transactions[i])]))

\* Stopping early changes no verdict, and no key counts twice.
MultiVerified ==
    check.verdict \in {"yes", "no"} =>
        LET good(n) == {check.parts[i].key : i \in {j \in 1..n : check.parts[j].good}}
            n == Len(check.parts)
            allDifferent == \A i, j \in 1..n : check.parts[i].key = check.parts[j].key => i = j
        IN  /\ check.verdict = "yes" => Cardinality(good(n)) >= check.min
            /\ allDifferent => (check.verdict = "yes" <=> Cardinality(good(n)) >= check.min)
=============================================================================
