----------------------------- MODULE Lock_proof -----------------------------
(***************************************************************************)
(* Exclusion, that the lock implements readers and writers, and that it    *)
(* admits calls in the order in which they began to wait.                  *)
(***************************************************************************)
EXTENDS Lock, SequenceTheorems, TLAPS

Inv == TypeOK /\ Draining

LEMMA TypeInit == Init => Inv
<1> SUFFICES ASSUME Init PROVE Inv
  OBVIOUS
<1>1. <<>> \in Seq(Call)
  BY EmptySeq
<1>2. kind \in [Call -> Kind]
  BY DEF Init, Kind
<1> QED
  BY <1>1, <1>2 DEF Init, Inv, TypeOK, Draining

\* Whoever enters, the types and the drained set come out right.
LEMMA EnterInv ==
  ASSUME Inv, NEW c \in Call, NEW k \in Kind, exclusive = NoCall, Enter(c, k)
  PROVE  /\ exclusive' \in Call \cup {NoCall}
         /\ shared' \subseteq Call
         /\ drain' \subseteq Call
         /\ reactions' \in Seq(Call)
         /\ exclusive' # NoCall => shared' = drain'
         /\ ~running
<1>1. CASE k = "shared"
  BY <1>1 DEF Enter, Inv, TypeOK, Draining
<1>2. CASE k = "exclusive"
  <2>1. <<c>> \in Seq(Call)
    OBVIOUS
  <2> QED
    BY <1>2, <2>1 DEF Enter, Inv, TypeOK, Draining
<1> QED
  BY <1>1, <1>2 DEF Kind

LEMMA RunInv ==
  ASSUME Inv, NEW c \in Call, NEW k \in Kind, Run(c, k)
  PROVE  Inv'
<1>1. kind' \in [Call -> Kind] /\ UNCHANGED <<running, ready>>
  BY DEF Run, Inv, TypeOK
<1>2. CASE exclusive = NoCall /\ Enter(c, k) /\ UNCHANGED <<late, arrivals>>
  BY <1>1, <1>2, EnterInv DEF Inv, TypeOK, Draining
<1>3. CASE /\ reactions' = Append(reactions, c)
           /\ arrivals' = Append(arrivals, c)
           /\ UNCHANGED <<exclusive, shared, drain, late>>
  <2>1. Append(reactions, c) \in Seq(Call) /\ Append(arrivals, c) \in Seq(Call)
    BY AppendProperties DEF Inv, TypeOK
  <2> QED
    BY <1>1, <1>3, <2>1 DEF Inv, TypeOK, Draining
<1>4. CASE /\ late' = Append(late, c)
           /\ UNCHANGED <<exclusive, shared, drain, reactions, arrivals>>
  <2>1. Append(late, c) \in Seq(Call)
    BY AppendProperties DEF Inv, TypeOK
  <2> QED
    BY <1>1, <1>4, <2>1 DEF Inv, TypeOK, Draining
<1> QED
  BY <1>2, <1>3, <1>4 DEF Run

LEMMA RemoveAtType ==
  ASSUME NEW S, NEW s \in Seq(S), NEW i \in 1 .. Len(s)
  PROVE  RemoveAt(s, i) \in Seq(S)
<1>1. Len(s) \in Nat /\ \A j \in 1 .. Len(s) : s[j] \in S
  BY LenProperties, ElementOfSeq
<1>2. SubSeq(s, 1, i - 1) \in Seq(S)
  <2>1. \A j \in 1 .. i - 1 : s[j] \in S
    BY <1>1
  <2> QED
    BY <1>1, <2>1, SubSeqProperties
<1>3. SubSeq(s, i + 1, Len(s)) \in Seq(S)
  <2>1. \A j \in i + 1 .. Len(s) : s[j] \in S
    BY <1>1
  <2> QED
    BY <1>1, <2>1, SubSeqProperties
<1> QED
  BY <1>2, <1>3, ConcatProperties DEF RemoveAt

LEMMA RecheckInv ==
  ASSUME Inv, Recheck
  PROVE  Inv'
<1> DEFINE c == Head(ready)
<1>0. ~running
  BY DEF Recheck, Inv, Draining
<1>1. c \in Call /\ ready' \in Seq(Call)
  BY HeadTailProperties DEF Recheck, Inv, TypeOK
<1>2. kind[c] \in Kind
  BY <1>1 DEF Inv, TypeOK
<1>3. UNCHANGED <<kind, running, late>>
  BY DEF Recheck
<1>4. CASE /\ exclusive = NoCall
           /\ Enter(c, kind[c])
           /\ \E i \in DOMAIN arrivals :
                arrivals[i] = c /\ arrivals' = RemoveAt(arrivals, i)
  <2>1. arrivals' \in Seq(Call)
    BY <1>4, RemoveAtType, LenProperties DEF Inv, TypeOK
  <2> HIDE DEF c
  <2> QED
    BY <1>0, <1>1, <1>2, <1>3, <1>4, <2>1, EnterInv DEF Inv, TypeOK, Draining
<1>5. CASE /\ reactions' = Append(reactions, c)
           /\ UNCHANGED <<exclusive, shared, drain, arrivals>>
  <2>1. Append(reactions, c) \in Seq(Call)
    BY <1>1, AppendProperties DEF Inv, TypeOK
  <2> HIDE DEF c
  <2> QED
    BY <1>0, <1>1, <1>3, <1>5, <2>1 DEF Inv, TypeOK, Draining
<1> QED
  BY <1>4, <1>5 DEF Recheck

LEMMA RecheckLateInv ==
  ASSUME Inv, RecheckLate
  PROVE  Inv'
<1> DEFINE c == Head(late)
<1>1. c \in Call /\ late' \in Seq(Call)
  BY HeadTailProperties DEF RecheckLate, Inv, TypeOK
<1>2. kind[c] \in Kind
  BY <1>1 DEF Inv, TypeOK
<1>3. UNCHANGED <<kind, running, ready>>
  BY DEF RecheckLate
<1>4. CASE exclusive = NoCall /\ Enter(c, kind[c]) /\ UNCHANGED arrivals
  <2> HIDE DEF c
  <2> QED
    BY <1>1, <1>2, <1>3, <1>4, EnterInv DEF Inv, TypeOK, Draining
<1>5. CASE /\ reactions' = Append(reactions, c)
           /\ arrivals' = Append(arrivals, c)
           /\ UNCHANGED <<exclusive, shared, drain>>
  <2>1. Append(reactions, c) \in Seq(Call) /\ Append(arrivals, c) \in Seq(Call)
    BY <1>1, AppendProperties DEF Inv, TypeOK
  <2> HIDE DEF c
  <2> QED
    BY <1>1, <1>3, <1>5, <2>1 DEF Inv, TypeOK, Draining
<1> QED
  BY <1>4, <1>5 DEF RecheckLate

\* The steps that finish something leave the drained set as it must be.
LEMMA EndingInv ==
  ASSUME Inv,
         \/ \E c \in Call : SharedDone(c)
         \/ StartExclusive \/ ExclusiveDone \/ Forget
  PROVE  Inv'
<1>1. ASSUME NEW c \in Call, SharedDone(c) PROVE Inv'
  BY <1>1 DEF SharedDone, Inv, TypeOK, Draining
<1>2. CASE StartExclusive
  BY <1>2 DEF StartExclusive, Inv, TypeOK, Draining
<1>3. CASE ExclusiveDone
  <2>1. <<>> \in Seq(Call)
    BY EmptySeq
  <2> QED
    BY <1>3, <2>1 DEF ExclusiveDone, Inv, TypeOK, Draining
<1>4. CASE Forget
  <2>1. Tail(ready) \in Seq(Call)
    BY <1>4, HeadTailProperties DEF Forget, Settled, Inv, TypeOK
  <2>2. ~running
    BY <1>4 DEF Forget, Settled, Inv, Draining
  <2> QED
    BY <1>4, <2>1, <2>2 DEF Forget, Inv, TypeOK, Draining
<1> QED
  BY <1>1, <1>2, <1>3, <1>4

LEMMA InvNext == Inv /\ [Next]_vars => Inv'
<1>1. ASSUME Inv, UNCHANGED vars PROVE Inv'
  BY <1>1 DEF vars, Inv, TypeOK, Draining
<1> QED
  BY <1>1, RunInv, EndingInv, RecheckInv, RecheckLateInv DEF Next

LEMMA Invariance == Spec => []Inv
  BY TypeInit, InvNext, PTL DEF Spec

(***************************************************************************)
(* No exclusive callback ever runs beside a shared one, however many calls *)
(* there are.                                                              *)
(***************************************************************************)
THEOREM ExclusiveAlone == Spec => []Exclusion
<1>1. Inv => Exclusion
  BY DEF Inv, Draining, Exclusion
<1> QED
  BY <1>1, Invariance, PTL

-----------------------------------------------------------------------------
\* The step of readers and writers that each step of the lock is.

LEMMA EnterRefines ==
  ASSUME Inv, NEW c \in Call, NEW k \in Kind, exclusive = NoCall, Enter(c, k),
         UNCHANGED running
  PROVE  RW!Next \/ UNCHANGED <<shared, IF running THEN exclusive ELSE NoCall>>
<1>1. ~running
  BY DEF Inv, Draining
<1>2. CASE k = "shared"
  <2>1. RW!Share(c)
    BY <1>1, <1>2 DEF Enter, RW!Share
  <2> QED
    BY <2>1 DEF RW!Next
<1>3. CASE k = "exclusive"
  BY <1>1, <1>3 DEF Enter
<1> QED
  BY <1>2, <1>3 DEF Kind

LEMMA StepRefines ==
  ASSUME Inv, [Next]_vars
  PROVE  RW!Next \/ UNCHANGED <<shared, IF running THEN exclusive ELSE NoCall>>
<1>1. ASSUME NEW c \in Call, SharedDone(c) PROVE RW!Unshare(c)
  BY <1>1 DEF SharedDone, RW!Unshare
<1>2. ASSUME NEW c \in Call, NEW k \in Kind, Run(c, k)
      PROVE  RW!Next \/ UNCHANGED <<shared, IF running THEN exclusive ELSE NoCall>>
  <2>1. UNCHANGED running
    BY <1>2 DEF Run
  <2>2. CASE exclusive = NoCall /\ Enter(c, k)
    BY <2>1, <2>2, EnterRefines
  <2>3. CASE UNCHANGED <<exclusive, shared>>
    BY <2>1, <2>3
  <2> QED
    BY <1>2, <2>2, <2>3 DEF Run
<1>3. CASE StartExclusive
  <2>1. exclusive \in Call /\ shared = {}
    BY <1>3 DEF StartExclusive, Inv, TypeOK, Draining
  <2>2. RW!Take(exclusive)
    BY <1>3, <2>1 DEF StartExclusive, RW!Take
  <2> QED
    BY <2>1, <2>2 DEF RW!Next
<1>4. CASE ExclusiveDone
  <2>1. RW!Release
    BY <1>4, NoCallAssumption DEF ExclusiveDone, Inv, Draining, RW!Release
  <2> QED
    BY <2>1 DEF RW!Next
<1>5. CASE Forget
  <2>1. ~running /\ UNCHANGED <<running, shared>>
    BY <1>5 DEF Forget, Settled, Inv, Draining
  <2> QED
    BY <2>1
<1>6. CASE Recheck
  <2>1. ready # <<>> /\ UNCHANGED running
    BY <1>6 DEF Recheck
  <2>2. Head(ready) \in Call
    BY <2>1, HeadTailProperties DEF Inv, TypeOK
  <2>3. kind[Head(ready)] \in Kind
    BY <2>2 DEF Inv, TypeOK
  <2>4. CASE exclusive = NoCall /\ Enter(Head(ready), kind[Head(ready)])
    BY <2>1, <2>2, <2>3, <2>4, EnterRefines
  <2>5. CASE UNCHANGED <<exclusive, shared>>
    BY <2>1, <2>5
  <2> QED
    BY <1>6, <2>4, <2>5 DEF Recheck
<1>7. CASE RecheckLate
  <2>1. late # <<>> /\ UNCHANGED running
    BY <1>7 DEF RecheckLate
  <2>2. Head(late) \in Call
    BY <2>1, HeadTailProperties DEF Inv, TypeOK
  <2>3. kind[Head(late)] \in Kind
    BY <2>2 DEF Inv, TypeOK
  <2>4. CASE exclusive = NoCall /\ Enter(Head(late), kind[Head(late)])
    BY <2>1, <2>2, <2>3, <2>4, EnterRefines
  <2>5. CASE UNCHANGED <<exclusive, shared>>
    BY <2>1, <2>5
  <2> QED
    BY <1>7, <2>4, <2>5 DEF RecheckLate
<1>8. CASE UNCHANGED vars
  BY <1>8 DEF vars
<1>9. ASSUME NEW c \in Call, SharedDone(c) PROVE RW!Next
  BY <1>1, <1>9 DEF RW!Next
<1> QED
  BY <1>2, <1>3, <1>4, <1>5, <1>6, <1>7, <1>8, <1>9 DEF Next

(***************************************************************************)
(* The lock implements readers and writers: its initial states map to      *)
(* theirs and each of its steps to one of theirs or to none.               *)
(***************************************************************************)
THEOREM Refinement == Spec => Abstract
<1>1. Init => RW!Init
  BY DEF Init, RW!Init
<1>2. Inv /\ [Next]_vars
      => [RW!Next]_<<shared, IF running THEN exclusive ELSE NoCall>>
  BY StepRefines
<1> QED
  BY <1>1, <1>2, Invariance, PTL DEF Spec, Abstract, RW!Spec

-----------------------------------------------------------------------------
\* Sequences without repetition.

LEMMA AppendOnce ==
  ASSUME NEW S, NEW s \in Seq(S), NEW e \in S
  PROVE  /\ Range(Append(s, e)) = Range(s) \cup {e}
         /\ IsInjective(s) /\ e \notin Range(s) => IsInjective(Append(s, e))
<1> DEFINE t == Append(s, e)
           n == Len(s)
<1>1. n \in Nat /\ DOMAIN s = 1 .. n
  BY LenProperties
<1>2. DOMAIN t = 1 .. n + 1
  BY AppendProperties, LenProperties
<1>3. t[n + 1] = e /\ \A i \in 1 .. n : t[i] = s[i]
  BY AppendProperties
<1> HIDE DEF t, n
<1>4. Range(t) = Range(s) \cup {e}
  <2>1. \A i \in 1 .. n + 1 : i \in 1 .. n \/ i = n + 1
    BY <1>1
  <2>2. 1 .. n \subseteq 1 .. n + 1 /\ n + 1 \in 1 .. n + 1
    BY <1>1
  <2> QED
    BY <1>1, <1>2, <1>3, <2>1, <2>2 DEF Range
<1>5. ASSUME IsInjective(s), e \notin Range(s) PROVE IsInjective(t)
  <2>1. \A i \in 1 .. n : s[i] # e
    BY <1>1, <1>5 DEF Range
  <2>2. \A i, j \in 1 .. n : s[i] = s[j] => i = j
    BY <1>1, <1>5 DEF IsInjective
  <2>3. \A i \in 1 .. n + 1 : i \in 1 .. n \/ i = n + 1
    BY <1>1
  <2>4. \A i, j \in 1 .. n + 1 : t[i] = t[j] => i = j
    BY <1>3, <2>1, <2>2, <2>3
  <2> QED
    BY <1>2, <2>4 DEF IsInjective
<1> QED
  BY <1>4, <1>5 DEF t

LEMMA TailOnce ==
  ASSUME NEW S, NEW s \in Seq(S), s # <<>>
  PROVE  /\ Head(s) \in Range(s) /\ Range(Tail(s)) \subseteq Range(s)
         /\ IsInjective(s) =>
              IsInjective(Tail(s)) /\ Head(s) \notin Range(Tail(s))
<1> DEFINE t == Tail(s)
           n == Len(s)
<1>1. n \in Nat \ {0} /\ DOMAIN s = 1 .. n
  BY LenProperties, EmptySeq
<1>2. DOMAIN t = 1 .. n - 1
  BY HeadTailProperties, LenProperties
<1>3. \A i \in 1 .. n - 1 : t[i] = s[i + 1]
  BY HeadTailProperties
<1>4. Head(s) = s[1]
  OBVIOUS
<1> HIDE DEF t, n
<1>5. \A i \in 1 .. n - 1 : i + 1 \in 1 .. n /\ i + 1 # 1
  BY <1>1
<1>6. 1 \in 1 .. n
  BY <1>1
<1>7. Head(s) \in Range(s) /\ Range(t) \subseteq Range(s)
  BY <1>1, <1>2, <1>3, <1>4, <1>5, <1>6 DEF Range
<1>8. ASSUME IsInjective(s) PROVE IsInjective(t) /\ Head(s) \notin Range(t)
  <2>1. \A i, j \in 1 .. n : s[i] = s[j] => i = j
    BY <1>1, <1>8 DEF IsInjective
  <2>2. \A i, j \in 1 .. n - 1 : t[i] = t[j] => i = j
    <3> SUFFICES ASSUME NEW i \in 1 .. n - 1, NEW j \in 1 .. n - 1, t[i] = t[j]
                 PROVE  i = j
      OBVIOUS
    <3>1. i + 1 = j + 1
      BY <1>3, <1>5, <2>1
    <3> QED
      BY <3>1, <1>1
  <2>3. \A i \in 1 .. n - 1 : t[i] # s[1]
    BY <1>3, <1>5, <1>6, <2>1
  <2> QED
    BY <1>2, <1>4, <2>2, <2>3 DEF IsInjective, Range
<1> QED
  BY <1>7, <1>8 DEF t

LEMMA RemoveHead ==
  ASSUME NEW S, NEW s \in Seq(S), s # <<>>, IsInjective(s),
         NEW i \in DOMAIN s, s[i] = Head(s)
  PROVE  RemoveAt(s, i) = Tail(s)
<1>1. Len(s) \in Nat \ {0} /\ DOMAIN s = 1 .. Len(s) /\ Head(s) = s[1]
  BY LenProperties, EmptySeq
<1>2. i = 1
  <2>1. 1 \in DOMAIN s
    BY <1>1
  <2> QED
    BY <1>1, <2>1 DEF IsInjective
<1>3. SubSeq(s, 1, i - 1) = <<>>
  BY <1>2, SubSeqEmpty
<1>4. SubSeq(s, i + 1, Len(s)) = Tail(s)
  BY <1>2, TailIsSubSeq
<1>5. <<>> \o Tail(s) = Tail(s)
  BY HeadTailProperties, ConcatEmptySeq
<1> QED
  BY <1>3, <1>4, <1>5 DEF RemoveAt

LEMMA MoveHead ==
  ASSUME NEW S, NEW r \in Seq(S), NEW q \in Seq(S), q # <<>>
  PROVE  Append(r, Head(q)) \o Tail(q) = r \o q
<1>1. Head(q) \in S /\ Tail(q) \in Seq(S) /\ <<Head(q)>> \in Seq(S)
  BY HeadTailProperties
<1>2. Append(r, Head(q)) = r \o <<Head(q)>>
  BY <1>1, AppendIsConcat
<1>3. <<Head(q)>> \o Tail(q) = q
  <2>1. Len(q) \in Nat \ {0}
    BY EmptySeq
  <2>2. q = SubSeq(q, 1, Len(q))
    BY SubSeqFull
  <2>3. SubSeq(q, 1, Len(q)) = <<q[1]>> \o SubSeq(q, 1 + 1, Len(q))
    BY <2>1, SubSeqRecursiveFirst
  <2>4. Tail(q) = SubSeq(q, 2, Len(q)) /\ Head(q) = q[1]
    BY TailIsSubSeq
  <2> QED
    BY <2>2, <2>3, <2>4
<1> QED
  BY <1>1, <1>2, <1>3, ConcatAssociative

-----------------------------------------------------------------------------
OrderInv == Inv /\ InOrder /\ WaitsOnce

\* The calls that wait are calls.
LEMMA WaitersAreCalls ==
  ASSUME Inv
  PROVE  /\ NoCall \notin Range(arrivals) \cup Range(late)
         /\ ready # <<>> => Head(ready) \in Call
         /\ exclusive = NoCall => ~Settled
<1>1. Range(arrivals) \subseteq Call /\ Range(late) \subseteq Call
  BY RangeOfSeq DEF Inv, TypeOK
<1>2. ready # <<>> => Head(ready) \in Call
  BY HeadTailProperties DEF Inv, TypeOK
<1> QED
  BY <1>1, <1>2, NoCallAssumption DEF Settled

\* When a call has entered and the calls that wait are those still queued.
LEMMA EnterInOrder ==
  ASSUME OrderInv, NEW c \in Call, NEW k \in Kind, exclusive = NoCall, Enter(c, k),
         ready' \in Seq(Call), arrivals' = ready', c \notin Range(ready')
  PROVE  InOrder' /\ exclusive' \in {NoCall, c}
<1>1. ready' # <<>> => Head(ready') \in Range(ready') /\ Head(ready') \in Call
  BY TailOnce, HeadTailProperties
<1>2. CASE k = "shared"
  <2>1. exclusive' = NoCall /\ reactions' = <<>>
    BY <1>2 DEF Enter, OrderInv, InOrder
  <2>2. ~Settled'
    BY <1>1, <2>1, NoCallAssumption DEF Settled
  <2> QED
    BY <2>1, <2>2 DEF InOrder
<1>3. CASE k = "exclusive"
  <2>1. exclusive' = c /\ reactions' = <<c>>
    BY <1>3 DEF Enter
  <2>2. ~Settled' /\ exclusive' # NoCall
    BY <1>1, <2>1, NoCallAssumption DEF Settled
  <2>3. Tail(<<c>>) = <<>> /\ Head(<<c>>) = c /\ <<c>> # <<>>
    OBVIOUS
  <2>4. <<>> \o ready' = ready'
    BY ConcatEmptySeq
  <2> QED
    BY <2>1, <2>2, <2>3, <2>4 DEF InOrder
<1> QED
  BY <1>2, <1>3 DEF Kind

\* When a call that is not waiting begins to await the exclusive promise.
LEMMA AwaitInOrder ==
  ASSUME OrderInv, NEW c \in Call, exclusive # NoCall, ~Settled, ready = <<>>,
         reactions' = Append(reactions, c), arrivals' = Append(arrivals, c),
         UNCHANGED <<exclusive, ready>>
  PROVE  InOrder'
<1>1. reactions \in Seq(Call) /\ arrivals \in Seq(Call)
  BY DEF OrderInv, Inv, TypeOK
<1>2. reactions # <<>> /\ Head(reactions) = exclusive
      /\ arrivals = Tail(reactions) \o <<>>
  BY DEF OrderInv, InOrder
<1>3. Tail(reactions) \in Seq(Call)
  BY <1>1, <1>2, HeadTailProperties
<1>4. arrivals = Tail(reactions)
  BY <1>2, <1>3, ConcatEmptySeq
<1>5. Append(Tail(reactions), c) \o <<>> = Append(Tail(reactions), c)
  BY <1>3, AppendProperties, ConcatEmptySeq
<1>6. Tail(reactions') = arrivals' /\ Head(reactions') = exclusive /\ reactions' # <<>>
  BY <1>1, <1>2, <1>4, HeadTailAppend, AppendProperties
<1>7. ~Settled'
  BY DEF Settled
<1> QED
  BY <1>4, <1>5, <1>6, <1>7 DEF InOrder

\* A call begins to wait: it waits once, and the exclusive call does not wait.
LEMMA AwaitOnce ==
  ASSUME OrderInv, NEW c \in Call, c # exclusive, c \notin Range(arrivals),
         arrivals' = Append(arrivals, c), UNCHANGED exclusive,
         late' \in Seq(Call), IsInjective(late'),
         Range(late') \subseteq Range(late), c \notin Range(late')
  PROVE  WaitsOnce'
<1>1. Range(arrivals') = Range(arrivals) \cup {c} /\ IsInjective(arrivals')
  BY AppendOnce DEF OrderInv, Inv, TypeOK, WaitsOnce
<1> QED
  BY <1>1 DEF OrderInv, WaitsOnce

LEMMA OrderRun ==
  ASSUME OrderInv, NEW c \in Call, NEW k \in Kind, Run(c, k)
  PROVE  InOrder' /\ WaitsOnce'
<1> USE DEF OrderInv
<1>1. /\ c \notin shared /\ c # exclusive
      /\ c \notin Range(arrivals) /\ c \notin Range(late)
      /\ UNCHANGED ready
  BY DEF Run, Outside, Admitted, Waiting
<1>2. CASE exclusive = NoCall /\ Enter(c, k) /\ UNCHANGED <<late, arrivals>>
  <2>1. ~Settled /\ ready = <<>>
    BY <1>2, WaitersAreCalls DEF Run
  <2>2. arrivals' = ready' /\ ready' \in Seq(Call) /\ c \notin Range(ready')
    BY <1>1, <1>2, <2>1 DEF InOrder, Inv, TypeOK
  <2>3. InOrder' /\ exclusive' \in {NoCall, c}
    BY <1>2, <2>2, EnterInOrder
  <2> QED
    BY <1>1, <1>2, <2>3, WaitersAreCalls DEF WaitsOnce
<1>3. CASE /\ exclusive # NoCall /\ ~Settled
           /\ reactions' = Append(reactions, c)
           /\ arrivals' = Append(arrivals, c)
           /\ UNCHANGED <<exclusive, shared, drain, late>>
  <2>1. ready = <<>>
    BY <1>3 DEF Run
  <2>2. InOrder'
    BY <1>1, <1>3, <2>1, AwaitInOrder
  <2> QED
    BY <1>1, <1>3, <2>2, AwaitOnce DEF WaitsOnce, Inv, TypeOK
<1>4. CASE /\ Settled
           /\ late' = Append(late, c)
           /\ UNCHANGED <<exclusive, shared, drain, reactions, arrivals>>
  <2>1. Range(late') = Range(late) \cup {c} /\ IsInjective(late')
    BY <1>1, <1>4, AppendOnce DEF Inv, TypeOK, WaitsOnce
  <2>2. WaitsOnce'
    BY <1>1, <1>4, <2>1 DEF WaitsOnce
  <2>3. InOrder'
    BY <1>1, <1>4 DEF InOrder, Settled
  <2> QED
    BY <2>2, <2>3
<1> QED
  BY <1>2, <1>3, <1>4 DEF Run

LEMMA OrderEnding ==
  ASSUME OrderInv,
         \/ \E c \in Call : SharedDone(c)
         \/ StartExclusive \/ ExclusiveDone \/ Forget
  PROVE  InOrder' /\ WaitsOnce'
<1> USE DEF OrderInv
<1>1. ASSUME NEW c \in Call, SharedDone(c) PROVE InOrder' /\ WaitsOnce'
  BY <1>1 DEF SharedDone, InOrder, WaitsOnce, Settled
<1>2. CASE StartExclusive
  BY <1>2 DEF StartExclusive, InOrder, WaitsOnce, Settled
<1>3. CASE ExclusiveDone
  <2>1. ready = <<>> /\ exclusive # NoCall /\ ~Settled
    BY <1>3 DEF ExclusiveDone, Inv, Draining, Settled
  <2>2. reactions # <<>> /\ Head(reactions) = exclusive
        /\ arrivals = Tail(reactions) \o <<>>
    BY <2>1 DEF InOrder
  <2>3. arrivals = Tail(reactions)
    BY <2>2, HeadTailProperties, ConcatEmptySeq DEF Inv, TypeOK
  <2>4. Settled'
    BY <1>3, <2>2 DEF ExclusiveDone, Settled
  <2> QED
    BY <1>3, <2>1, <2>3, <2>4 DEF ExclusiveDone, InOrder, WaitsOnce
<1>4. CASE Forget
  <2>1. exclusive' = NoCall /\ ready' = Tail(ready) /\ ready # <<>>
        /\ UNCHANGED <<reactions, arrivals, late>>
    BY <1>4 DEF Forget, Settled
  <2>2. reactions = <<>> /\ arrivals = Tail(ready)
    BY <1>4 DEF Forget, InOrder
  <2>3. ready' # <<>> => Head(ready') \in Call
    BY <2>1, HeadTailProperties DEF Inv, TypeOK
  <2>4. ~Settled'
    BY <2>1, <2>3, NoCallAssumption DEF Settled
  <2> QED
    BY <2>1, <2>2, <2>4, WaitersAreCalls DEF InOrder, WaitsOnce
<1> QED
  BY <1>1, <1>2, <1>3, <1>4

LEMMA OrderRecheck ==
  ASSUME OrderInv, Recheck
  PROVE  InOrder' /\ WaitsOnce'
<1> USE DEF OrderInv
<1> DEFINE c == Head(ready)
<1>1. ready # <<>> /\ ~Settled /\ ready' = Tail(ready) /\ UNCHANGED late
  BY DEF Recheck
<1>2. c \in Call /\ ready \in Seq(Call) /\ Tail(ready) \in Seq(Call)
  BY <1>1, HeadTailProperties DEF Inv, TypeOK
<1>3. kind[c] \in Kind
  BY <1>2 DEF Inv, TypeOK
<1>4. c \in Range(ready) /\ Range(Tail(ready)) \subseteq Range(ready)
  BY <1>1, <1>2, TailOnce
<1>5. CASE /\ exclusive = NoCall
           /\ Enter(c, kind[c])
           /\ \E i \in DOMAIN arrivals :
                arrivals[i] = c /\ arrivals' = RemoveAt(arrivals, i)
  <2>1. arrivals = ready /\ IsInjective(ready)
    BY <1>5 DEF InOrder, WaitsOnce
  <2>2. arrivals' = Tail(ready)
    BY <1>1, <1>2, <1>5, <2>1, RemoveHead
  <2>3. IsInjective(Tail(ready)) /\ c \notin Range(Tail(ready))
    BY <1>1, <1>2, <2>1, TailOnce
  <2>4. c \notin Range(late)
    BY <1>4, <2>1 DEF WaitsOnce
  <2> HIDE DEF c
  <2>5. InOrder' /\ exclusive' \in {NoCall, c}
    BY <1>1, <1>2, <1>3, <1>5, <2>2, <2>3, EnterInOrder
  <2> QED
    BY <1>1, <1>4, <2>1, <2>2, <2>3, <2>4, <2>5, WaitersAreCalls DEF WaitsOnce
<1>6. CASE /\ exclusive # NoCall
           /\ reactions' = Append(reactions, c)
           /\ UNCHANGED <<exclusive, shared, drain, arrivals>>
  <2>1. reactions \in Seq(Call) /\ reactions # <<>>
        /\ Head(reactions) = exclusive /\ arrivals = Tail(reactions) \o ready
    BY <1>1, <1>6 DEF InOrder, Inv, TypeOK
  <2>2. Tail(reactions) \in Seq(Call)
    BY <2>1, HeadTailProperties
  <2>3. Append(Tail(reactions), c) \o Tail(ready) = arrivals
    BY <1>1, <1>2, <2>1, <2>2, MoveHead
  <2>4. Tail(reactions') = Append(Tail(reactions), c) /\ reactions' # <<>>
        /\ Head(reactions') = exclusive
    BY <1>2, <1>6, <2>1, HeadTailAppend, AppendProperties
  <2>5. Range(ready) \subseteq Range(arrivals)
    <3>1. Range(Tail(reactions) \o ready)
            = Range(Tail(reactions)) \cup Range(ready)
      BY <1>2, <2>2, RangeConcatenation
    <3> QED
      BY <2>1, <3>1
  <2>6. Tail(ready) # <<>> => Head(Tail(ready)) \in Range(arrivals)
    BY <1>2, <1>4, <2>5, TailOnce
  <2>7. ~Settled'
    BY <1>1, <1>6, <2>6 DEF Settled, WaitsOnce
  <2>8. InOrder'
    BY <1>1, <1>6, <2>3, <2>4, <2>7 DEF InOrder
  <2>9. WaitsOnce'
    BY <1>1, <1>6 DEF WaitsOnce
  <2> QED
    BY <2>8, <2>9
<1> QED
  BY <1>5, <1>6 DEF Recheck

LEMMA OrderRecheckLate ==
  ASSUME OrderInv, RecheckLate
  PROVE  InOrder' /\ WaitsOnce'
<1> USE DEF OrderInv
<1> DEFINE c == Head(late)
<1>1. ready = <<>> /\ late # <<>> /\ late' = Tail(late) /\ UNCHANGED ready
  BY DEF RecheckLate
<1>2. c \in Call /\ late \in Seq(Call) /\ Tail(late) \in Seq(Call)
  BY <1>1, HeadTailProperties DEF Inv, TypeOK
<1>3. kind[c] \in Kind
  BY <1>2 DEF Inv, TypeOK
<1>4. c \in Range(late) /\ Range(Tail(late)) \subseteq Range(late)
      /\ IsInjective(Tail(late)) /\ c \notin Range(Tail(late))
  BY <1>1, <1>2, TailOnce DEF WaitsOnce
<1>5. c \notin Range(arrivals) /\ c # exclusive
  BY <1>4 DEF WaitsOnce
<1> HIDE DEF c
<1>6. CASE exclusive = NoCall /\ Enter(c, kind[c]) /\ UNCHANGED arrivals
  <2>1. arrivals' = ready' /\ ready' \in Seq(Call) /\ c \notin Range(ready')
    BY <1>1, <1>5, <1>6 DEF InOrder, Inv, TypeOK
  <2>2. InOrder' /\ exclusive' \in {NoCall, c}
    BY <1>2, <1>3, <1>6, <2>1, EnterInOrder
  <2> QED
    BY <1>1, <1>4, <1>5, <1>6, <2>2, WaitersAreCalls DEF WaitsOnce
<1>7. CASE /\ exclusive # NoCall
           /\ reactions' = Append(reactions, c)
           /\ arrivals' = Append(arrivals, c)
           /\ UNCHANGED <<exclusive, shared, drain>>
  <2>1. InOrder'
    BY <1>1, <1>2, <1>7, AwaitInOrder DEF Settled
  <2> QED
    BY <1>1, <1>2, <1>4, <1>5, <1>7, <2>1, AwaitOnce
<1> QED
  BY <1>6, <1>7 DEF RecheckLate, c

LEMMA OrderNext == OrderInv /\ [Next]_vars => OrderInv'
<1>1. ASSUME OrderInv, UNCHANGED vars PROVE OrderInv'
  BY <1>1 DEF vars, OrderInv, Inv, TypeOK, Draining, InOrder, WaitsOnce, Settled
<1>2. ASSUME OrderInv, Next PROVE InOrder' /\ WaitsOnce'
  BY <1>2, OrderRun, OrderEnding, OrderRecheck, OrderRecheckLate DEF Next
<1> QED
  BY <1>1, <1>2, InvNext DEF OrderInv

LEMMA OrderInit == Init => OrderInv
<1>1. ASSUME Init PROVE InOrder /\ WaitsOnce
  <2>1. Range(<<>>) = {} /\ IsInjective(<<>>)
    BY DEF Range, IsInjective
  <2> QED
    BY <1>1, <2>1 DEF Init, InOrder, WaitsOnce, Settled
<1> QED
  BY <1>1, TypeInit DEF OrderInv

-----------------------------------------------------------------------------
\* Who is admitted by a step: the call at hand, or nobody.

LEMMA AdmittedFirst ==
  ASSUME OrderInv, Next, NEW c \in Call, ~Admitted(c), Admitted(c)'
  PROVE  arrivals = <<>> \/ c = Head(arrivals)
<1> USE DEF OrderInv
<1>1. ASSUME NEW d \in Call, NEW k \in Kind, Run(d, k)
      PROVE  arrivals = <<>>
  <2>1. exclusive = NoCall
    BY <1>1 DEF Run, Admitted
  <2>2. ready = <<>>
    BY <1>1, <2>1, WaitersAreCalls DEF Run
  <2> QED
    BY <2>1, <2>2 DEF InOrder
<1>2. CASE Recheck
  <2>1. exclusive = NoCall /\ Enter(Head(ready), kind[Head(ready)])
    BY <1>2 DEF Recheck, Admitted
  <2>2. c = Head(ready)
    BY <2>1 DEF Enter, Admitted
  <2> QED
    BY <2>1, <2>2 DEF InOrder
<1>3. CASE RecheckLate
  <2>1. exclusive = NoCall /\ ready = <<>>
    BY <1>3 DEF RecheckLate, Admitted
  <2> QED
    BY <2>1 DEF InOrder
<1>4. ASSUME NEW d \in Call, SharedDone(d) PROVE FALSE
  BY <1>4 DEF SharedDone, Admitted
<1>5. CASE StartExclusive \/ ExclusiveDone
  BY <1>5 DEF StartExclusive, ExclusiveDone, Admitted
<1>6. CASE Forget
  BY <1>6, NoCallAssumption DEF Forget, Admitted
<1> QED
  BY <1>1, <1>2, <1>3, <1>4, <1>5, <1>6 DEF Next

(***************************************************************************)
(* Calls of the lock are admitted in the order in which they began to      *)
(* wait, however many there are.                                           *)
(***************************************************************************)
THEOREM AdmissionInOrder == Spec => NoOvertaking
<1>1. OrderInv /\ [Next]_vars
      => [\A c \in Call :
            ~Admitted(c) /\ Admitted(c)' => arrivals = <<>> \/ c = Head(arrivals)]_vars
  BY AdmittedFirst
<1>2. Spec => []OrderInv
  BY OrderInit, OrderNext, PTL DEF Spec
<1> QED
  BY <1>1, <1>2, PTL DEF Spec, NoOvertaking
=============================================================================
