--------------------------- MODULE Services_proof ---------------------------
(***************************************************************************)
(* The forger makes one block for a slot, and its node refuses none of them *)
(* but for a delay; calls that submit transactions answer for each of them *)
(* and pass on, once, what they accept.                                    *)
(***************************************************************************)
EXTENDS Services, Integers, Sequences, FiniteSets, SequenceTheorems, TLAPS

-----------------------------------------------------------------------------
(* The forger *)

Tips == [height : Int, slot : Int]
Blocks == [parent : Tips, slot : Int, height : Int]

\* A block whose round was loaded on the block it follows is of one of our turns.
Turned(b) == b.height = b.parent.height => Forging!IsOurs(b.parent.height + 1, b.slot)

ForgerTyped ==
  /\ now \in Nat /\ wake \in Int /\ tip \in Tips /\ queue \in Seq(Blocks) /\ forged \subseteq Int
  /\ pc \in {"boot", "sleep", "loaded", "allowed", "broadcast"}

\* What each stage of an attempt has: the round, the network state, the block.
Attempt ==
  /\ pc \in {"loaded", "allowed"} =>
       /\ round.height \in Int /\ round.slot \in Int
       /\ Forging!IsOurs(round.height + 1, round.slot)
  /\ pc = "allowed" => network \in Tips
  /\ pc = "broadcast" => incoming \in Blocks /\ incoming.slot = round.slot /\ Turned(incoming)

\* The timer does not run out in a slot that has a block of ours; a node that
\* comes up waits for the slot to end, unless it failed to load the round.
SlotsDone ==
  \A s \in forged \ waited :
    \/ s < Forging!SlotOf(now)
    \/ s = Forging!SlotOf(now) /\ (pc = "boot" \/ (pc = "sleep" /\ wake >= Forging!SlotEnd(s)))

ForgerInv ==
  /\ ForgerTyped /\ Attempt /\ SlotsDone
  /\ \A i \in DOMAIN queue : Turned(queue[i])
  /\ Forging!OneBlockPerSlot /\ Forging!RefusedOnlyIfDelayed

\* A tick is of one slot, which ends after it, and slots do not go back.
LEMMA SlotBounds ==
  ASSUME Forging!ForgerAssumption, NEW t \in Nat
  PROVE  /\ Forging!SlotOf(t) \in Nat /\ Forging!SlotEnd(Forging!SlotOf(t)) \in Nat
         /\ Forging!SlotEnd(Forging!SlotOf(t)) > t
         /\ Forging!SlotOf(t) <= Forging!SlotOf(t + 1)
<1>1. PICK d \in Nat : d = SlotTicks /\ d > 0
  BY DEF Forging!ForgerAssumption
<1>2. PICK q \in Nat : q = t \div d
  BY <1>1
<1>3. PICK r \in Nat : r = (t + 1) \div d
  BY <1>1
<1>4. t = d * q + (t % d) /\ t % d \in 0..(d - 1)
  BY <1>1, <1>2
<1>5. t + 1 = d * r + ((t + 1) % d) /\ (t + 1) % d \in 0..(d - 1)
  BY <1>1, <1>3
<1>6. d * q <= t /\ t < d * q + d
  BY <1>1, <1>4
<1>7. d * r <= t + 1 /\ t + 1 < d * r + d
  BY <1>1, <1>5
<1>8. (q + 1) * d = d * q + d /\ (q + 1) * d \in Nat
  BY <1>1
<1>9. q <= r
  <2>1. SUFFICES ASSUME r + 1 <= q PROVE FALSE
    OBVIOUS
  <2>2. d * (r + 1) <= d * q
    BY <1>1, <2>1
  <2>3. d * (r + 1) = d * r + d
    BY <1>1
  <2>4. d * r \in Int /\ d * q \in Int
    BY <1>1
  <2> QED BY <2>2, <2>3, <2>4, <1>6, <1>7
<1> QED BY <1>1, <1>2, <1>3, <1>6, <1>8, <1>9 DEF Forging!SlotOf, Forging!SlotEnd

\* The end of a slot is a number.
LEMMA SlotEndInt ==
  ASSUME Forging!ForgerAssumption, NEW s \in Int
  PROVE  Forging!SlotEnd(s) \in Int
BY DEF Forging!SlotEnd, Forging!ForgerAssumption

LEMMA ForgerBegins ==
  ASSUME Forging!ForgerAssumption, Forging!Init
  PROVE  ForgerInv
BY EmptySeq DEF Forging!Init, ForgerInv, ForgerTyped, Attempt, SlotsDone, Tips,
  Forging!OneBlockPerSlot, Forging!RefusedOnlyIfDelayed

\* While an attempt is on, or the timer has run out, this slot has no block of ours.
LEMMA SlotIsFree ==
  ASSUME Forging!ForgerAssumption, ForgerInv,
         pc \in {"loaded", "allowed", "broadcast"} \/ (pc = "sleep" /\ now >= wake)
  PROVE  \A s \in forged \ waited : s < Forging!SlotOf(now)
<1>1. now \in Nat /\ wake \in Int
  BY DEF ForgerInv, ForgerTyped
<1>2. /\ Forging!SlotOf(now) \in Nat
      /\ Forging!SlotEnd(Forging!SlotOf(now)) > now /\ Forging!SlotEnd(Forging!SlotOf(now)) \in Nat
  BY <1>1, SlotBounds
<1>3. ASSUME NEW s \in forged \ waited, s = Forging!SlotOf(now) PROVE FALSE
  <2>1. wake >= Forging!SlotEnd(s) /\ pc = "sleep" /\ now >= wake
    BY <1>1, <1>2, <1>3 DEF ForgerInv, SlotsDone
  <2>2. Forging!SlotEnd(s) > now /\ Forging!SlotEnd(s) \in Nat
    BY <1>2, <1>3
  <2> QED BY <1>1, <2>1, <2>2
<1> QED BY <1>3 DEF ForgerInv, SlotsDone

\* A step that leaves the clock, the queue and the history alone.
LEMMA QuietStep ==
  ASSUME ForgerInv, UNCHANGED <<now, queue, forged, odd>>,
         tip' \in Tips, wake' \in Int, waited \subseteq waited',
         pc' \in {"boot", "sleep", "loaded", "allowed", "broadcast"}, Attempt',
         \A s \in forged \ waited' :
           s < Forging!SlotOf(now) \/ (s = Forging!SlotOf(now) /\ (pc' = "boot" \/ (pc' = "sleep" /\ wake' >= Forging!SlotEnd(s))))
  PROVE  ForgerInv'
<1>1. Forging!SlotOf(now)' = Forging!SlotOf(now)
  BY DEF Forging!SlotOf
<1>2. \A s : Forging!SlotEnd(s)' = Forging!SlotEnd(s)
  BY DEF Forging!SlotEnd
<1>3. ForgerTyped'
  BY DEF ForgerInv, ForgerTyped
<1>4. SlotsDone'
  BY <1>1, <1>2 DEF SlotsDone
<1>5. (\A i \in DOMAIN queue : Turned(queue[i]))'
  BY DEF ForgerInv, Turned, Forging!IsOurs
<1>6. Forging!OneBlockPerSlot' /\ Forging!RefusedOnlyIfDelayed'
  BY DEF ForgerInv, Forging!OneBlockPerSlot, Forging!RefusedOnlyIfDelayed
<1> QED BY <1>3, <1>4, <1>5, <1>6 DEF ForgerInv

\* To bed until later: no attempt is on.
LEMMA LaterKeeps ==
  ASSUME Forging!ForgerAssumption, ForgerInv, NEW t \in Int, Forging!CheckLater(t),
         pc \in {"loaded", "allowed", "broadcast"} \/ (pc = "sleep" /\ now >= wake),
         UNCHANGED <<now, tip, queue, forged, waited, odd>>
  PROVE  ForgerInv'
<1>1. pc' = "sleep" /\ wake' = t
  BY DEF Forging!CheckLater
<1>2. Attempt'
  BY <1>1 DEF Attempt
<1>3. tip' \in Tips
  BY DEF ForgerInv, ForgerTyped
<1> QED BY <1>1, <1>2, <1>3, SlotIsFree, QuietStep

LEMMA BootKeeps ==
  ASSUME Forging!ForgerAssumption, ForgerInv, Forging!Boot
  PROVE  ForgerInv'
<1>1. now \in Nat /\ pc = "boot" /\ pc' = "sleep" /\ tip' \in Tips /\ UNCHANGED <<now, queue, forged, odd>>
  BY DEF Forging!Boot, Forging!CheckLater, ForgerInv, ForgerTyped
<1>2. Attempt'
  BY <1>1 DEF Attempt
<1>3. Forging!SlotOf(now) \in Nat /\ Forging!SlotEnd(Forging!SlotOf(now)) \in Nat
  BY <1>1, SlotBounds
<1>4. \A s \in forged \ waited : s < Forging!SlotOf(now) \/ s = Forging!SlotOf(now)
  BY DEF ForgerInv, SlotsDone
<1>5. CASE Forging!CheckLater(Forging!BootWait) /\ UNCHANGED waited
  <2>1. wake' = Forging!SlotEnd(Forging!SlotOf(now))
    BY <1>5 DEF Forging!CheckLater, Forging!BootWait
  <2> QED BY <1>1, <1>2, <1>3, <1>4, <1>5, <2>1, QuietStep
<1>6. CASE Forging!CheckLater(now + RetryTicks) /\ waited' = waited \cup {Forging!SlotOf(now)}
  <2>1. wake' \in Int
    BY <1>1, <1>6 DEF Forging!CheckLater, Forging!ForgerAssumption
  <2> QED BY <1>1, <1>2, <1>4, <1>6, <2>1, QuietStep
<1> QED BY <1>5, <1>6 DEF Forging!Boot

LEMMA LoadRoundKeeps ==
  ASSUME Forging!ForgerAssumption, ForgerInv, Forging!LoadRound
  PROVE  ForgerInv'
<1>1. /\ now \in Nat /\ pc = "sleep" /\ now >= wake /\ tip \in Tips /\ wake \in Int
      /\ UNCHANGED <<now, tip, queue, forged, waited, odd>>
  BY DEF Forging!LoadRound, ForgerInv, ForgerTyped
<1>2. Forging!SlotOf(now) \in Nat /\ Forging!SlotEnd(Forging!SlotOf(now)) \in Nat
  BY <1>1, SlotBounds
<1>3. CASE \E t \in Int : Forging!CheckLater(t)
  BY <1>1, <1>3, LaterKeeps
<1>4. CASE /\ pc' = "loaded" /\ UNCHANGED wake
           /\ round'.height = tip.height /\ round'.slot = Forging!SlotOf(now)
           /\ Forging!IsOurs(tip.height + 1, Forging!SlotOf(now))
  <2>1. Attempt'
    BY <1>1, <1>2, <1>4 DEF Attempt, Tips, Forging!IsOurs
  <2> QED BY <1>1, <1>4, <2>1, SlotIsFree, QuietStep
<1>5. now + 1 \in Int
  BY <1>1
<1>6. \/ Forging!CheckLater(now + 1)
      \/ Forging!CheckLater(Forging!SlotEnd(Forging!SlotOf(now)))
      \/ /\ pc' = "loaded" /\ UNCHANGED wake
         /\ round'.height = tip.height /\ round'.slot = Forging!SlotOf(now)
         /\ Forging!IsOurs(tip.height + 1, Forging!SlotOf(now))
  BY DEF Forging!LoadRound
<1> QED BY <1>2, <1>3, <1>4, <1>5, <1>6

LEMMA AnalyzeKeeps ==
  ASSUME Forging!ForgerAssumption, ForgerInv, Forging!Analyze
  PROVE  ForgerInv'
<1>1. /\ pc = "loaded" /\ UNCHANGED <<now, tip, round, queue, forged, waited, odd>>
      /\ tip \in Tips /\ wake \in Int
      /\ \/ pc' = "allowed" /\ network' = tip /\ UNCHANGED wake
         \/ Forging!CheckLater(Forging!SlotEnd(round.slot))
  BY DEF Forging!Analyze, ForgerInv, ForgerTyped
<1>2. round.height \in Int /\ round.slot \in Int /\ Forging!IsOurs(round.height + 1, round.slot)
  BY <1>1 DEF ForgerInv, Attempt
<1>3. Forging!SlotEnd(round.slot) \in Int
  BY <1>2, SlotEndInt
<1>4. CASE pc' = "allowed" /\ network' = tip /\ UNCHANGED wake
  <2>1. Attempt'
    BY <1>1, <1>2, <1>4 DEF Attempt, Forging!IsOurs
  <2> QED BY <1>1, <1>4, <2>1, SlotIsFree, QuietStep
<1> QED BY <1>1, <1>3, <1>4, LaterKeeps

LEMMA ForgeKeeps ==
  ASSUME Forging!ForgerAssumption, ForgerInv, Forging!Forge
  PROVE  ForgerInv'
<1>1. /\ pc = "allowed" /\ UNCHANGED <<now, tip, round, queue, forged, waited, odd>>
      /\ tip \in Tips /\ wake \in Int
      /\ \/ /\ incoming' = [parent |-> network, slot |-> round.slot, height |-> round.height]
            /\ pc' = "broadcast" /\ UNCHANGED wake
         \/ Forging!CheckLater(Forging!SlotEnd(round.slot))
  BY DEF Forging!Forge, ForgerInv, ForgerTyped
<1>2. /\ round.height \in Int /\ round.slot \in Int /\ network \in Tips
      /\ Forging!IsOurs(round.height + 1, round.slot)
  BY <1>1 DEF ForgerInv, Attempt
<1>3. Forging!SlotEnd(round.slot) \in Int
  BY <1>2, SlotEndInt
<1>4. CASE /\ incoming' = [parent |-> network, slot |-> round.slot, height |-> round.height]
           /\ pc' = "broadcast" /\ UNCHANGED wake
  <2>1. Attempt'
    BY <1>1, <1>2, <1>4 DEF Attempt, Blocks, Turned, Forging!IsOurs
  <2> QED BY <1>1, <1>4, <2>1, SlotIsFree, QuietStep
<1> QED BY <1>1, <1>3, <1>4, LaterKeeps

LEMMA IncomingKeeps ==
  ASSUME Forging!ForgerAssumption, ForgerInv, Forging!HandleIncomingBlock
  PROVE  ForgerInv'
<1>1. /\ pc = "broadcast" /\ UNCHANGED <<now, tip, waited>> /\ pc' = "sleep"
      /\ wake' = Forging!SlotEnd(round.slot) /\ now \in Nat /\ tip \in Tips /\ forged \subseteq Int
      /\ queue \in Seq(Blocks)
  BY DEF Forging!HandleIncomingBlock, Forging!CheckLater, Forging!AfterForging, ForgerInv, ForgerTyped
<1>2. incoming \in Blocks /\ incoming.slot = round.slot /\ Turned(incoming) /\ incoming.slot \in Int
  BY <1>1 DEF ForgerInv, Attempt, Blocks
<1>3. Forging!SlotEnd(round.slot) \in Int
  BY <1>2, SlotEndInt
<1>4. CASE UNCHANGED <<queue, forged, odd>>
  <2>1. Forging!CheckLater(Forging!SlotEnd(round.slot))
    BY <1>1 DEF Forging!CheckLater
  <2> QED BY <1>1, <1>3, <1>4, <2>1, LaterKeeps
<1>5. CASE /\ Forging!SlotOf(now) = incoming.slot
           /\ queue' = Append(queue, incoming) /\ forged' = forged \cup {incoming.slot}
           /\ odd' = IF incoming.slot \in forged \ waited THEN odd \cup {"again"} ELSE odd
  <2>1. \A s \in forged \ waited : s < Forging!SlotOf(now)
    BY <1>1, SlotIsFree
  <2>2. incoming.slot \notin forged \ waited
    BY <2>1, <1>2, <1>5
  <2>3. UNCHANGED odd
    BY <1>5, <2>2
  <2>4. ForgerTyped'
    <3>1. Append(queue, incoming) \in Seq(Blocks)
      BY <1>1, <1>2
    <3>2. forged \cup {incoming.slot} \subseteq Int
      BY <1>1, <1>2
    <3> QED BY <1>1, <1>3, <1>5, <3>1, <3>2 DEF ForgerTyped
  <2>5. Attempt'
    BY <1>1 DEF Attempt
  <2>6. SlotsDone'
    BY <1>1, <1>2, <1>3, <1>5, <2>1 DEF SlotsDone, Forging!SlotOf, Forging!SlotEnd
  <2>7. (\A i \in DOMAIN queue : Turned(queue[i]))'
    <3>1. \A b : Turned(b)' <=> Turned(b)
      BY DEF Turned, Forging!IsOurs
    <3>2. \A i \in DOMAIN queue' : queue'[i] = incoming \/ (i \in DOMAIN queue /\ queue'[i] = queue[i])
      BY <1>1, <1>2, <1>5
    <3> QED BY <3>1, <3>2, <1>2 DEF ForgerInv
  <2>8. Forging!OneBlockPerSlot' /\ Forging!RefusedOnlyIfDelayed'
    BY <2>3 DEF ForgerInv, Forging!OneBlockPerSlot, Forging!RefusedOnlyIfDelayed
  <2> QED BY <2>4, <2>5, <2>6, <2>7, <2>8 DEF ForgerInv
<1> QED BY <1>4, <1>5 DEF Forging!HandleIncomingBlock

LEMMA FailedKeeps ==
  ASSUME Forging!ForgerAssumption, ForgerInv, Forging!Failed
  PROVE  ForgerInv'
<1>1. now + RetryTicks \in Int
  BY DEF ForgerInv, ForgerTyped, Forging!ForgerAssumption
<1> QED BY <1>1, LaterKeeps DEF Forging!Failed

\* A block that follows the last one is refused only if its round is stale.
LEMMA ProcessKeeps ==
  ASSUME Forging!ForgerAssumption, ForgerInv, Forging!Process
  PROVE  ForgerInv'
<1>1. /\ queue # <<>> /\ queue' = Tail(queue) /\ queue \in Seq(Blocks) /\ tip \in Tips
      /\ UNCHANGED <<now, pc, wake, round, network, incoming, forged, waited>>
  BY DEF Forging!Process, ForgerInv, ForgerTyped
<1>2. Head(queue) \in Blocks /\ Turned(Head(queue)) /\ queue' \in Seq(Blocks)
  BY <1>1, 1 \in DOMAIN queue, Head(queue) = queue[1] DEF ForgerInv
<1>3. tip' \in Tips
  BY <1>1, <1>2 DEF Forging!Process, Tips, Blocks
<1>4. Forging!IsOurs(Head(queue).parent.height + 1, Head(queue).slot) \/ Forging!StaleRound(Head(queue))
  BY <1>2 DEF Turned, Forging!StaleRound
<1>5. UNCHANGED odd
  BY <1>4 DEF Forging!Process
<1>6. (\A i \in DOMAIN queue : Turned(queue[i]))'
  <2>1. \A b : Turned(b)' <=> Turned(b)
    BY DEF Turned, Forging!IsOurs
  <2>2. \A i \in DOMAIN queue' : i + 1 \in DOMAIN queue /\ queue'[i] = queue[i + 1]
    BY <1>1
  <2> QED BY <2>1, <2>2 DEF ForgerInv
<1>7. ForgerTyped' /\ Attempt' /\ SlotsDone'
  BY <1>1, <1>2, <1>3 DEF ForgerInv, ForgerTyped, Attempt, SlotsDone, Turned, Forging!IsOurs,
    Forging!SlotOf, Forging!SlotEnd
<1>8. Forging!OneBlockPerSlot' /\ Forging!RefusedOnlyIfDelayed'
  BY <1>5 DEF ForgerInv, Forging!OneBlockPerSlot, Forging!RefusedOnlyIfDelayed
<1> QED BY <1>6, <1>7, <1>8 DEF ForgerInv

LEMMA ArriveKeeps ==
  ASSUME Forging!ForgerAssumption, ForgerInv, Forging!Arrive
  PROVE  ForgerInv'
<1>1. /\ tip \in Tips /\ now \in Nat /\ wake \in Int
      /\ UNCHANGED <<now, pc, wake, round, network, incoming, queue, forged, waited, odd>>
  BY DEF Forging!Arrive, ForgerInv, ForgerTyped
<1>2. tip' \in Tips
  BY <1>1, SlotBounds DEF Forging!Arrive, Tips
<1>3. Attempt'
  BY <1>1 DEF ForgerInv, Attempt, Turned, Forging!IsOurs
<1>4. pc' \in {"boot", "sleep", "loaded", "allowed", "broadcast"}
  BY <1>1 DEF ForgerInv, ForgerTyped
<1>5. \A s \in forged \ waited :
        s < Forging!SlotOf(now) \/ (s = Forging!SlotOf(now) /\ (pc = "boot" \/ (pc = "sleep" /\ wake >= Forging!SlotEnd(s))))
  BY DEF ForgerInv, SlotsDone
<1> QED BY <1>1, <1>2, <1>3, <1>4, <1>5, QuietStep

LEMMA RestartKeeps ==
  ASSUME Forging!ForgerAssumption, ForgerInv, Forging!Restart
  PROVE  ForgerInv'
<1>1. /\ tip \in Tips /\ now \in Nat /\ pc' = "boot" /\ wake' = now /\ queue' = <<>>
      /\ UNCHANGED <<now, tip, forged, waited, odd>>
  BY DEF Forging!Restart, ForgerInv, ForgerTyped
<1>2. ForgerTyped' /\ Attempt'
  BY <1>1 DEF ForgerInv, ForgerTyped, Attempt
<1>3. SlotsDone'
  BY <1>1 DEF ForgerInv, SlotsDone, Forging!SlotOf
<1>4. (\A i \in DOMAIN queue : Turned(queue[i]))'
  BY <1>1
<1>5. Forging!OneBlockPerSlot' /\ Forging!RefusedOnlyIfDelayed'
  BY <1>1 DEF ForgerInv, Forging!OneBlockPerSlot, Forging!RefusedOnlyIfDelayed
<1> QED BY <1>2, <1>3, <1>4, <1>5 DEF ForgerInv

LEMMA TickKeeps ==
  ASSUME Forging!ForgerAssumption, ForgerInv, Forging!Tick
  PROVE  ForgerInv'
<1>1. /\ now \in Nat /\ now' = now + 1
      /\ UNCHANGED <<tip, pc, wake, round, network, incoming, queue, forged, waited, odd>>
  BY DEF Forging!Tick, ForgerInv, ForgerTyped
<1>2. Forging!SlotOf(now)' = Forging!SlotOf(now + 1)
  BY <1>1 DEF Forging!SlotOf
<1>3. Forging!SlotOf(now) \in Nat /\ Forging!SlotOf(now + 1) \in Nat /\ Forging!SlotOf(now) <= Forging!SlotOf(now + 1)
  BY <1>1, SlotBounds
<1>4. ForgerTyped' /\ Attempt'
  BY <1>1 DEF ForgerInv, ForgerTyped, Attempt, Turned, Forging!IsOurs
<1>5. SlotsDone'
  <2>1. SUFFICES ASSUME NEW s \in forged \ waited
        PROVE  \/ s < Forging!SlotOf(now + 1)
               \/ s = Forging!SlotOf(now + 1) /\ (pc = "boot" \/ (pc = "sleep" /\ wake >= Forging!SlotEnd(s)))
    BY <1>1, <1>2 DEF SlotsDone, Forging!SlotEnd
  <2>2. s \in Int
    BY DEF ForgerInv, ForgerTyped
  <2>3. \/ s < Forging!SlotOf(now)
        \/ s = Forging!SlotOf(now) /\ (pc = "boot" \/ (pc = "sleep" /\ wake >= Forging!SlotEnd(s)))
    BY DEF ForgerInv, SlotsDone
  <2> QED BY <1>3, <2>2, <2>3
<1>6. (\A i \in DOMAIN queue : Turned(queue[i]))'
  BY <1>1 DEF ForgerInv, Turned, Forging!IsOurs
<1>7. Forging!OneBlockPerSlot' /\ Forging!RefusedOnlyIfDelayed'
  BY <1>1 DEF ForgerInv, Forging!OneBlockPerSlot, Forging!RefusedOnlyIfDelayed
<1> QED BY <1>4, <1>5, <1>6, <1>7 DEF ForgerInv

LEMMA ForgerStep ==
  ASSUME Forging!ForgerAssumption, ForgerInv, [Forging!Next]_(Forging!vars)
  PROVE  ForgerInv'
<1>1. CASE Forging!EnterColdStart
  BY <1>1 DEF Forging!EnterColdStart, ForgerInv, ForgerTyped, Attempt, SlotsDone, Turned, Forging!IsOurs,
    Forging!SlotOf, Forging!SlotEnd, Forging!OneBlockPerSlot, Forging!RefusedOnlyIfDelayed
<1>2. CASE UNCHANGED Forging!vars
  BY <1>2 DEF Forging!vars, ForgerInv, ForgerTyped, Attempt, SlotsDone, Turned, Forging!IsOurs,
    Forging!SlotOf, Forging!SlotEnd, Forging!OneBlockPerSlot, Forging!RefusedOnlyIfDelayed
<1> QED BY <1>1, <1>2, BootKeeps, LoadRoundKeeps, AnalyzeKeeps, ForgeKeeps, IncomingKeeps, FailedKeeps,
  ProcessKeeps, ArriveKeeps, RestartKeeps, TickKeeps DEF Forging!Next

(***************************************************************************)
(* Whatever the network answers, fails or delays and however often the     *)
(* node restarts, the forger makes at most one block for a slot, and the   *)
(* node refuses a block of its own only if another one came meanwhile.     *)
(***************************************************************************)
THEOREM ForgerForgesSafely ==
  ASSUME Forging!ForgerAssumption
  PROVE  Forging!Spec => []ForgesSafely
<1>1. Forging!Init => ForgerInv
  BY ForgerBegins
<1>2. ForgerInv /\ [Forging!Next]_(Forging!vars) => ForgerInv'
  BY ForgerStep
<1>3. ForgerInv => ForgesSafely
  BY DEF ForgerInv, ForgesSafely
<1> QED BY <1>1, <1>2, <1>3, PTL DEF Forging!Spec

-----------------------------------------------------------------------------
(* The submission of transactions *)

Calls ==
  [number : Nat, node : Nodes, batch : Seq(Submitting!Transactions), binary : BOOLEAN,
   at : Nat \ {0}, step : Submitting!Step, accept : Seq(Nat), broadcast : Seq(Nat), invalid : Seq(Nat),
   excess : Seq(Nat), errors : Seq(Nat \X Submitting!Errors), aborted : BOOLEAN]

In(s) == {s[i] : i \in DOMAIN s}

\* The entries the call has come to.
Came(c) == 1..(IF c.aborted \/ c.step = "extend" THEN c.at ELSE c.at - 1)

\* What a call tells of its entries adds up, and what it accepts it passes on.
Whole(c) ==
  /\ c \in Calls
  /\ c.at <= Len(c.batch) + 1
  /\ c.step # "decode" \/ c.aborted => c.at <= Len(c.batch)
  /\ c.aborted => c.step = "decode"
  /\ In(c.accept) \cap In(c.invalid) = {} /\ In(c.accept) \cup In(c.invalid) = Came(c)
  /\ In(c.broadcast) \subseteq In(c.accept) /\ In(c.excess) \subseteq In(c.invalid)
  /\ c.step = "extend" => c.at \in In(c.accept)
  /\ \A i \in In(c.accept) : c.batch[i] \notin Private =>
       i \in In(c.broadcast) \/ (c.step = "extend" /\ i = c.at)

Known(c) ==
  /\ c.number \in 1..submissionHistory.calls
  /\ \A i \in In(c.accept) : <<c.node, c.number, i>> \in submissionHistory.entered \/ c.node \in disposed

Histories == [calls : Nat, forged : Nat, entered : SUBSET (Nodes \X Nat \X Nat), posted : SUBSET (Nodes \X Nat \X Nat)]

\* Every post there was is of an ended call, to another node, of an entry the
\* call may pass on; so a call that has not ended has posted nothing.
PostsOfAnswers ==
  \A x \in submissionHistory.posted :
    \E c \in answers : c.number = x[2] /\ x[1] # c.node /\ x[3] \in In(c.broadcast)

SubmissionInv ==
  /\ submissionHistory \in Histories
  /\ \A c \in submissionCalls \cup answers : Whole(c) /\ Known(c)
  /\ \A c, d \in submissionCalls \cup answers : c.number = d.number => c = d
  /\ submissionCalls \cap answers = {}
  /\ \A p \in posts : p.to \in Nodes /\ p.transactions \in Seq(Submitting!Transactions)
  /\ PostsOfAnswers
  /\ Submitting!AcceptedIsPassedOn

LEMMA ToSetIn == \A s : Submitting!ToSet(s) = In(s)
BY DEF Submitting!ToSet, In

LEMMA InAppend ==
  ASSUME NEW s \in Seq(Nat), NEW x \in Nat
  PROVE  Append(s, x) \in Seq(Nat) /\ In(Append(s, x)) = In(s) \cup {x}
<1>1. /\ Append(s, x) \in Seq(Nat) /\ DOMAIN Append(s, x) = 1..(Len(s) + 1) /\ DOMAIN s = 1..Len(s) /\ Len(s) \in Nat
      /\ Append(s, x)[Len(s) + 1] = x /\ \A i \in DOMAIN s : Append(s, x)[i] = s[i]
  OBVIOUS
<1>2. \A i \in DOMAIN Append(s, x) : i \in DOMAIN s \/ i = Len(s) + 1
  BY <1>1
<1>3. Len(s) + 1 \in DOMAIN Append(s, x) /\ DOMAIN s \subseteq DOMAIN Append(s, x)
  BY <1>1
<1> HIDE <1>1
<1>4. In(Append(s, x)) \subseteq In(s) \cup {x}
  BY <1>1, <1>2 DEF In
<1>5. In(s) \cup {x} \subseteq In(Append(s, x))
  BY <1>1, <1>3 DEF In
<1> QED BY <1>1, <1>4, <1>5

-----------------------------------------------------------------------------
(* One call *)

\* The entry is done with.
LEMMA DoneCall ==
  ASSUME NEW c \in Calls
  PROVE  Submitting!Done(c) \in Calls
<1>1. \A e \in Calls, n \in Nat \ {0} : [e EXCEPT !.at = n, !.step = "decode"] \in Calls
  BY DEF Calls, Submitting!Step
<1>2. c.at + 1 \in Nat \ {0}
  BY DEF Calls
<1> QED BY <1>1, <1>2 DEF Submitting!Done

\* A call that is begun has told nothing.
LEMMA BegunWhole ==
  ASSUME NEW n \in Nodes, NEW b \in Seq(Submitting!Transactions), NEW binary \in BOOLEAN, NEW k \in Nat, NEW c,
         c = [number |-> k, node |-> n, batch |-> b, binary |-> binary, at |-> 1, step |-> "decode",
              accept |-> <<>>, broadcast |-> <<>>, invalid |-> <<>>, excess |-> <<>>, errors |-> <<>>, aborted |-> FALSE]
  PROVE  Whole(c)
<1>1. c \in Calls
  BY EmptySeq DEF Calls, Submitting!Step
<1>2. In(<<>>) = {}
  BY DEF In
<1>3. Len(b) \in Nat
  OBVIOUS
<1> QED BY <1>1, <1>2, <1>3 DEF Whole, Came

\* An entry that is refused counts as invalid.
LEMMA RefuseWhole ==
  ASSUME NEW c, Whole(c), ~Submitting!Ended(c), c.step \in {"decode", "enter", "validate"},
         NEW error \in Submitting!Errors
  PROVE  Whole(Submitting!Refuse(c, error))
<1> DEFINE d == Submitting!Refuse(c, error)
<1>1. /\ c \in Calls /\ c.at <= Len(c.batch) /\ ~c.aborted /\ c.at \in Nat \ {0} /\ c.at \in Nat
      /\ Len(c.batch) \in Nat /\ c.invalid \in Seq(Nat) /\ c.excess \in Seq(Nat) /\ c.accept \in Seq(Nat) /\ c.broadcast \in Seq(Nat)
      /\ c.errors \in Seq(Nat \X Submitting!Errors)
  BY DEF Whole, Calls, Submitting!Ended
<1>2. /\ d.number = c.number /\ d.node = c.node /\ d.batch = c.batch /\ d.binary = c.binary /\ d.at = c.at + 1
      /\ d.step = "decode" /\ d.accept = c.accept /\ d.broadcast = c.broadcast /\ d.invalid = Append(c.invalid, c.at)
      /\ d.excess = (IF error = "ERR_EXCEEDS_MAX_COUNT" THEN Append(c.excess, c.at) ELSE c.excess)
      /\ d.errors = Append(c.errors, <<c.at, error>>) /\ d.aborted = c.aborted
  BY <1>1 DEF Calls, Submitting!Refuse, Submitting!Done
<1>4. d \in Calls
  <2>1. Submitting!Done(c) \in Calls
    BY <1>1, DoneCall
  <2>2. /\ Append(c.invalid, c.at) \in Seq(Nat) /\ Append(c.excess, c.at) \in Seq(Nat)
        /\ Append(c.errors, <<c.at, error>>) \in Seq(Nat \X Submitting!Errors)
    BY <1>1
  <2>3. /\ Submitting!Done(c).invalid = c.invalid /\ Submitting!Done(c).excess = c.excess
        /\ Submitting!Done(c).errors = c.errors
    BY <1>1 DEF Calls, Submitting!Done
  <2>4. \A e \in Calls, x, y \in Seq(Nat), z \in Seq(Nat \X Submitting!Errors) :
          [e EXCEPT !.invalid = x, !.errors = z, !.excess = y] \in Calls
    BY DEF Calls
  <2> QED BY <1>1, <2>1, <2>2, <2>3, <2>4 DEF Submitting!Refuse
<1> HIDE DEF d
<1>3. /\ d.invalid \in Seq(Nat) /\ In(d.invalid) = In(c.invalid) \cup {c.at}
      /\ d.excess \in Seq(Nat) /\ In(d.excess) \subseteq In(c.excess) \cup {c.at}
  BY <1>1, <1>2, InAppend
<1>5. Came(c) = 1..(c.at - 1) /\ Came(d) = 1..c.at
  <2>1. d.at - 1 = c.at
    BY <1>1, <1>2
  <2>2. Came(d) = 1..(d.at - 1) /\ Came(c) = 1..(c.at - 1)
    BY <1>1, <1>2 DEF Came
  <2> QED BY <2>1, <2>2
<1>6. c.at \notin In(c.accept) /\ Came(d) = Came(c) \cup {c.at}
  BY <1>1, <1>5 DEF Whole
<1>7. In(d.accept) \cap In(d.invalid) = {} /\ In(d.accept) \cup In(d.invalid) = Came(d)
  BY <1>2, <1>3, <1>6 DEF Whole
<1>8. In(d.broadcast) \subseteq In(d.accept) /\ In(d.excess) \subseteq In(d.invalid)
  BY <1>2, <1>3 DEF Whole
<1>9. \A i \in In(d.accept) : d.batch[i] \notin Private => i \in In(d.broadcast)
  BY <1>2 DEF Whole
<1>10. d.at <= Len(d.batch) + 1
  BY <1>1, <1>2
<1>11. Whole(d)
  BY <1>1, <1>2, <1>4, <1>7, <1>8, <1>9, <1>10 DEF Whole
<1> QED BY <1>11 DEF d

\* The entry that ends a call in failure counts as invalid.
LEMMA AbortWhole ==
  ASSUME NEW c, Whole(c), ~Submitting!Ended(c), c.step = "decode"
  PROVE  Whole(Submitting!Abort(c))
<1> DEFINE d == Submitting!Abort(c)
<1>1. /\ c \in Calls /\ c.at <= Len(c.batch) /\ ~c.aborted /\ c.at \in Nat \ {0} /\ c.at \in Nat
      /\ Len(c.batch) \in Nat /\ c.invalid \in Seq(Nat) /\ c.excess \in Seq(Nat) /\ c.accept \in Seq(Nat) /\ c.broadcast \in Seq(Nat)
      /\ c.errors \in Seq(Nat \X Submitting!Errors)
  BY DEF Whole, Calls, Submitting!Ended
<1>2. /\ d.number = c.number /\ d.node = c.node /\ d.batch = c.batch /\ d.binary = c.binary /\ d.at = c.at
      /\ d.step = c.step /\ d.accept = c.accept /\ d.broadcast = c.broadcast /\ d.invalid = Append(c.invalid, c.at)
      /\ d.excess = c.excess /\ d.errors = c.errors /\ d.aborted = TRUE
  BY <1>1 DEF Calls, Submitting!Abort
<1>4. d \in Calls
  <2>1. Append(c.invalid, c.at) \in Seq(Nat)
    BY <1>1
  <2>2. \A e \in Calls, x \in Seq(Nat) : [e EXCEPT !.invalid = x, !.aborted = TRUE] \in Calls
    BY DEF Calls
  <2> QED BY <1>1, <2>1, <2>2 DEF Submitting!Abort
<1> HIDE DEF d
<1>3. d.invalid \in Seq(Nat) /\ In(d.invalid) = In(c.invalid) \cup {c.at}
  BY <1>1, <1>2, InAppend
<1>5. Came(c) = 1..(c.at - 1) /\ Came(d) = 1..c.at
  BY <1>1, <1>2 DEF Came
<1>6. c.at \notin In(c.accept) /\ Came(d) = Came(c) \cup {c.at}
  BY <1>1, <1>5 DEF Whole
<1>7. In(d.accept) \cap In(d.invalid) = {} /\ In(d.accept) \cup In(d.invalid) = Came(d)
  BY <1>2, <1>3, <1>6 DEF Whole
<1>8. In(d.broadcast) \subseteq In(d.accept) /\ In(d.excess) \subseteq In(d.invalid)
  BY <1>2, <1>3 DEF Whole
<1>9. Whole(d)
  BY <1>1, <1>2, <1>4, <1>7, <1>8 DEF Whole
<1> QED BY <1>9 DEF d

\* An entry that is accepted is asked of the extensions next.
LEMMA AcceptWhole ==
  ASSUME NEW c, Whole(c), ~Submitting!Ended(c), c.step \in {"enter", "validate"}
  PROVE  Whole([c EXCEPT !.step = "extend", !.accept = Append(@, c.at)])
<1> DEFINE d == [c EXCEPT !.step = "extend", !.accept = Append(@, c.at)]
<1>1. /\ c \in Calls /\ c.at <= Len(c.batch) /\ ~c.aborted /\ c.at \in Nat \ {0} /\ c.at \in Nat
      /\ Len(c.batch) \in Nat /\ c.invalid \in Seq(Nat) /\ c.excess \in Seq(Nat) /\ c.accept \in Seq(Nat) /\ c.broadcast \in Seq(Nat)
      /\ c.errors \in Seq(Nat \X Submitting!Errors)
  BY DEF Whole, Calls, Submitting!Ended
<1>2. /\ d.number = c.number /\ d.node = c.node /\ d.batch = c.batch /\ d.binary = c.binary /\ d.at = c.at
      /\ d.step = "extend" /\ d.accept = Append(c.accept, c.at) /\ d.broadcast = c.broadcast /\ d.invalid = c.invalid
      /\ d.excess = c.excess /\ d.errors = c.errors /\ d.aborted = c.aborted
  BY <1>1 DEF Calls
<1>4. d \in Calls
  <2>1. Append(c.accept, c.at) \in Seq(Nat)
    BY <1>1
  <2>2. \A e \in Calls, x \in Seq(Nat) : [e EXCEPT !.step = "extend", !.accept = x] \in Calls
    BY DEF Calls, Submitting!Step
  <2> QED BY <1>1, <2>1, <2>2
<1> HIDE DEF d
<1>3. d.accept \in Seq(Nat) /\ In(d.accept) = In(c.accept) \cup {c.at}
  BY <1>1, <1>2, InAppend
<1>5. Came(c) = 1..(c.at - 1) /\ Came(d) = 1..c.at
  BY <1>1, <1>2 DEF Came
<1>6. c.at \notin In(c.invalid) /\ Came(d) = Came(c) \cup {c.at}
  BY <1>1, <1>5 DEF Whole
<1>7. In(d.accept) \cap In(d.invalid) = {} /\ In(d.accept) \cup In(d.invalid) = Came(d)
  BY <1>2, <1>3, <1>6 DEF Whole
<1>8. In(d.broadcast) \subseteq In(d.accept) /\ In(d.excess) \subseteq In(d.invalid)
  BY <1>2, <1>3 DEF Whole
<1>9. \A i \in In(d.accept) : d.batch[i] \notin Private => i \in In(d.broadcast) \/ (d.step = "extend" /\ i = d.at)
  BY <1>2, <1>3 DEF Whole
<1>10. Whole(d)
  BY <1>1, <1>2, <1>3, <1>4, <1>7, <1>8, <1>9 DEF Whole
<1> QED BY <1>10 DEF d

\* An entry may be passed on unless an extension refuses it.
LEMMA ExtendWhole ==
  ASSUME NEW c, Whole(c), ~Submitting!Ended(c), c.step = "extend"
  PROVE  Whole(IF Submitting!Entry(c) \in Private THEN Submitting!Done(c)
               ELSE [Submitting!Done(c) EXCEPT !.broadcast = Append(@, c.at)])
<1> DEFINE d == IF Submitting!Entry(c) \in Private THEN Submitting!Done(c)
                ELSE [Submitting!Done(c) EXCEPT !.broadcast = Append(@, c.at)]
<1>1. /\ c \in Calls /\ c.at <= Len(c.batch) /\ ~c.aborted /\ c.at \in Nat \ {0} /\ c.at \in Nat
      /\ Len(c.batch) \in Nat /\ c.invalid \in Seq(Nat) /\ c.excess \in Seq(Nat) /\ c.accept \in Seq(Nat) /\ c.broadcast \in Seq(Nat)
      /\ c.errors \in Seq(Nat \X Submitting!Errors)
  BY DEF Whole, Calls, Submitting!Ended
<1>2. /\ d.number = c.number /\ d.node = c.node /\ d.batch = c.batch /\ d.binary = c.binary /\ d.at = c.at + 1
      /\ d.step = "decode" /\ d.accept = c.accept /\ d.invalid = c.invalid
      /\ d.broadcast = (IF c.batch[c.at] \in Private THEN c.broadcast ELSE Append(c.broadcast, c.at))
      /\ d.excess = c.excess /\ d.errors = c.errors /\ d.aborted = c.aborted
  BY <1>1 DEF Calls, Submitting!Done, Submitting!Entry
<1>4. d \in Calls
  <2>1. Submitting!Done(c) \in Calls
    BY <1>1, DoneCall
  <2>2. Append(c.broadcast, c.at) \in Seq(Nat) /\ Submitting!Done(c).broadcast = c.broadcast
    BY <1>1 DEF Calls, Submitting!Done
  <2>3. \A e \in Calls, x \in Seq(Nat) : [e EXCEPT !.broadcast = x] \in Calls
    BY DEF Calls
  <2> QED BY <2>1, <2>2, <2>3
<1> HIDE DEF d
<1>3. /\ d.broadcast \in Seq(Nat)
      /\ In(d.broadcast) = IF c.batch[c.at] \in Private THEN In(c.broadcast) ELSE In(c.broadcast) \cup {c.at}
  BY <1>1, <1>2, InAppend
<1>5. Came(c) = 1..c.at /\ Came(d) = 1..c.at
  BY <1>1, <1>2 DEF Came
<1>6. In(d.accept) \cap In(d.invalid) = {} /\ In(d.accept) \cup In(d.invalid) = Came(d)
  BY <1>2, <1>5 DEF Whole
<1>7. In(d.broadcast) \subseteq In(d.accept) /\ In(d.excess) \subseteq In(d.invalid)
  BY <1>2, <1>3 DEF Whole
<1>8. \A i \in In(d.accept) : d.batch[i] \notin Private => i \in In(d.broadcast)
  BY <1>2, <1>3 DEF Whole
<1>9. Whole(d)
  BY <1>1, <1>2, <1>4, <1>6, <1>7, <1>8 DEF Whole
<1> QED BY <1>9 DEF d

-----------------------------------------------------------------------------
(* The steps *)

LEMMA ChosenConstant == \A n : Submitting!Chosen(n)' = Submitting!Chosen(n)
BY DEF Submitting!Chosen

\* What a step does to the history: it only grows.
LEMMA KnownKept ==
  ASSUME SubmissionInv, submissionHistory' \in Histories, submissionHistory.calls <= submissionHistory'.calls,
         submissionHistory.entered \subseteq submissionHistory'.entered, disposed \subseteq disposed'
  PROVE  \A c \in submissionCalls \cup answers : Known(c)'
<1>1. submissionHistory.calls \in Nat /\ submissionHistory'.calls \in Nat
  BY DEF SubmissionInv, Histories
<1>2. \A c \in submissionCalls \cup answers : Known(c)
  BY DEF SubmissionInv
<1> QED BY <1>1, <1>2 DEF Known

\* A step that leaves the calls, the answers, the posts and the history alone.
LEMMA SubmissionRest ==
  ASSUME SubmissionInv, UNCHANGED <<submissionCalls, answers>>, posts' \subseteq posts, disposed \subseteq disposed',
         submissionHistory' \in Histories, submissionHistory'.calls = submissionHistory.calls,
         submissionHistory'.entered = submissionHistory.entered, submissionHistory'.posted = submissionHistory.posted
  PROVE  SubmissionInv'
<1>1. \A c \in submissionCalls \cup answers : Known(c)'
  <2>1. submissionHistory.calls \in Nat
    BY DEF SubmissionInv, Histories
  <2> QED BY <2>1, KnownKept
<1>2. PostsOfAnswers'
  BY DEF SubmissionInv, PostsOfAnswers
<1>3. Submitting!AcceptedIsPassedOn'
  BY ChosenConstant DEF SubmissionInv, Submitting!AcceptedIsPassedOn
<1> QED BY <1>1, <1>2, <1>3 DEF SubmissionInv

\* A call begins, of a client or of a post.
LEMMA BeginKeeps ==
  ASSUME SubmissionInv, NEW n \in Nodes, NEW b \in Seq(Submitting!Transactions), NEW binary \in BOOLEAN,
         Submitting!Begin(n, b, binary), submissionHistory' = [submissionHistory EXCEPT !.calls = @ + 1],
         posts' \subseteq posts, UNCHANGED <<answers, disposed>>
  PROVE  SubmissionInv'
<1>1. submissionHistory \in Histories
  BY DEF SubmissionInv
<1>2. PICK k \in Nat : k = submissionHistory.calls + 1
  BY <1>1 DEF Histories
<1>3. PICK c : c = [number |-> k, node |-> n, batch |-> b, binary |-> binary, at |-> 1, step |-> "decode",
                    accept |-> <<>>, broadcast |-> <<>>, invalid |-> <<>>, excess |-> <<>>, errors |-> <<>>,
                    aborted |-> FALSE]
  OBVIOUS
<1>4. submissionCalls' = submissionCalls \cup {c}
  BY <1>2, <1>3 DEF Submitting!Begin, Submitting!CallOf
<1>5. Whole(c) /\ c.number = k /\ In(c.accept) = {}
  BY <1>2, <1>3, BegunWhole DEF In
<1>6. /\ submissionHistory' \in Histories /\ submissionHistory'.calls = k
      /\ submissionHistory'.entered = submissionHistory.entered /\ submissionHistory'.posted = submissionHistory.posted
  BY <1>1, <1>2 DEF Histories
<1>7. \A d \in submissionCalls \cup answers : Known(d)'
  <2>1. submissionHistory.calls <= submissionHistory'.calls
    BY <1>1, <1>2, <1>6 DEF Histories
  <2> QED BY <1>6, <2>1, KnownKept
<1>8. Known(c)'
  <2>1. k \in 1..k
    BY <1>1, <1>2 DEF Histories
  <2> QED BY <2>1, <1>5, <1>6 DEF Known
<1>9. \A d \in submissionCalls \cup answers : d.number # c.number
  <2>1. \A d \in submissionCalls \cup answers : d.number \in 1..submissionHistory.calls
    BY DEF SubmissionInv, Known
  <2> QED BY <1>1, <1>2, <1>5, <2>1 DEF Histories
<1>10. PostsOfAnswers'
  BY <1>6 DEF SubmissionInv, PostsOfAnswers
<1>11. Submitting!AcceptedIsPassedOn'
  BY <1>6, ChosenConstant DEF SubmissionInv, Submitting!AcceptedIsPassedOn
<1>12. \A d, e \in submissionCalls' \cup answers' : d.number = e.number => d = e
  BY <1>4, <1>9 DEF SubmissionInv
<1>13. submissionCalls' \cap answers' = {}
  BY <1>4, <1>9 DEF SubmissionInv
<1>14. \A d \in submissionCalls' \cup answers' : Whole(d) /\ Known(d)'
  BY <1>4, <1>5, <1>7, <1>8 DEF SubmissionInv
<1> QED BY <1>6, <1>10, <1>11, <1>12, <1>13, <1>14 DEF SubmissionInv

\* A call that is under way goes on.
LEMMA GoesOn ==
  ASSUME SubmissionInv, NEW c \in submissionCalls, NEW d, Submitting!Replace(c, d), Whole(d),
         d.number = c.number, d.node = c.node,
         \A i \in In(d.accept) :
           i \in In(c.accept) \/ <<d.node, d.number, i>> \in submissionHistory'.entered \/ d.node \in disposed,
         submissionHistory' \in Histories, submissionHistory'.calls = submissionHistory.calls,
         submissionHistory.entered \subseteq submissionHistory'.entered,
         submissionHistory'.posted = submissionHistory.posted, UNCHANGED <<answers, posts, disposed>>
  PROVE  SubmissionInv'
<1>1. submissionCalls' = (submissionCalls \ {c}) \cup {d}
  BY DEF Submitting!Replace
<1>2. \A e \in submissionCalls \cup answers : Known(e)'
  <2>1. submissionHistory.calls \in Nat
    BY DEF SubmissionInv, Histories
  <2> QED BY <2>1, KnownKept
<1>3. Known(d)'
  BY <1>2 DEF Known
<1>4. \A e \in (submissionCalls \ {c}) \cup answers : e.number # d.number
  BY DEF SubmissionInv
<1>5. PostsOfAnswers'
  BY DEF SubmissionInv, PostsOfAnswers
<1>6. Submitting!AcceptedIsPassedOn'
  BY ChosenConstant DEF SubmissionInv, Submitting!AcceptedIsPassedOn
<1>7. \A e, f \in submissionCalls' \cup answers' : e.number = f.number => e = f
  BY <1>1, <1>4 DEF SubmissionInv
<1>8. submissionCalls' \cap answers' = {}
  BY <1>1, <1>4 DEF SubmissionInv
<1>9. \A e \in submissionCalls' \cup answers' : Whole(e) /\ Known(e)'
  BY <1>1, <1>2, <1>3 DEF SubmissionInv
<1> QED BY <1>5, <1>6, <1>7, <1>8, <1>9 DEF SubmissionInv

\* The identity of a call and what it has accepted.
LEMMA Identity ==
  ASSUME NEW c \in Calls
  PROVE  /\ \A error : LET d == Submitting!Refuse(c, error)
                       IN  d.number = c.number /\ d.node = c.node /\ d.accept = c.accept
         /\ LET d == Submitting!Abort(c) IN d.number = c.number /\ d.node = c.node /\ d.accept = c.accept
         /\ LET d == IF Submitting!Entry(c) \in Private THEN Submitting!Done(c)
                     ELSE [Submitting!Done(c) EXCEPT !.broadcast = Append(@, c.at)]
            IN  d.number = c.number /\ d.node = c.node /\ d.accept = c.accept
         /\ LET d == [c EXCEPT !.step = "extend", !.accept = Append(@, c.at)]
            IN  d.number = c.number /\ d.node = c.node /\ In(d.accept) = In(c.accept) \cup {c.at}
         /\ \A s : LET d == [c EXCEPT !.step = s]
                   IN  d.number = c.number /\ d.node = c.node /\ d.accept = c.accept
<1>1. c.accept \in Seq(Nat) /\ c.at \in Nat
  BY DEF Calls
<1>2. In(Append(c.accept, c.at)) = In(c.accept) \cup {c.at}
  BY <1>1, InAppend
<1>3. [c EXCEPT !.step = "extend", !.accept = Append(@, c.at)].accept = Append(c.accept, c.at)
  BY DEF Calls
<1>4. LET d == [c EXCEPT !.step = "extend", !.accept = Append(@, c.at)]
      IN  d.number = c.number /\ d.node = c.node
  BY DEF Calls
<1>5. \A error : LET d == Submitting!Refuse(c, error)
                 IN  d.number = c.number /\ d.node = c.node /\ d.accept = c.accept
  BY DEF Calls, Submitting!Refuse, Submitting!Done
<1>6. LET d == Submitting!Abort(c) IN d.number = c.number /\ d.node = c.node /\ d.accept = c.accept
  BY DEF Calls, Submitting!Abort
<1>7. LET d == IF Submitting!Entry(c) \in Private THEN Submitting!Done(c)
               ELSE [Submitting!Done(c) EXCEPT !.broadcast = Append(@, c.at)]
      IN  d.number = c.number /\ d.node = c.node /\ d.accept = c.accept
  BY DEF Calls, Submitting!Done
<1>8. \A s : LET d == [c EXCEPT !.step = s]
             IN  d.number = c.number /\ d.node = c.node /\ d.accept = c.accept
  BY DEF Calls
<1> QED BY <1>2, <1>3, <1>4, <1>5, <1>6, <1>7, <1>8

LEMMA EntryKeeps ==
  ASSUME SubmissionInv, NEW c \in submissionCalls,
         Submitting!Decode(c) \/ Submitting!Enter(c) \/ Submitting!Validate(c) \/ Submitting!Extend(c)
  PROVE  SubmissionInv'
<1>1. Whole(c) /\ c \in Calls /\ submissionHistory \in Histories /\ ~Submitting!Ended(c) /\ UNCHANGED <<answers, posts, disposed>>
  BY DEF SubmissionInv, Whole, Submitting!Decode, Submitting!Enter, Submitting!Validate, Submitting!Extend
<1>2. ASSUME NEW error \in Submitting!Errors, c.step \in {"decode", "enter", "validate"}, UNCHANGED submissionHistory,
             Submitting!Replace(c, Submitting!Refuse(c, error))
      PROVE  SubmissionInv'
  <2>1. Whole(Submitting!Refuse(c, error))
    BY <1>1, <1>2, RefuseWhole
  <2>2. PICK d : d = Submitting!Refuse(c, error)
    OBVIOUS
  <2>3. d.number = c.number /\ d.node = c.node /\ d.accept = c.accept
    BY <1>1, <2>2, Identity
  <2> QED BY <1>1, <1>2, <2>1, <2>2, <2>3, GoesOn
<1>3. ASSUME c.step = "decode", UNCHANGED submissionHistory, Submitting!Replace(c, Submitting!Abort(c))
      PROVE  SubmissionInv'
  <2>1. PICK d : d = Submitting!Abort(c)
    OBVIOUS
  <2>2. Whole(d) /\ d.number = c.number /\ d.node = c.node /\ d.accept = c.accept
    BY <1>1, <1>3, <2>1, AbortWhole, Identity
  <2> QED BY <1>1, <1>3, <2>1, <2>2, GoesOn
<1>4. ASSUME NEW s \in {"enter", "validate"}, c.step \in {"decode", "enter"}, UNCHANGED submissionHistory,
             Submitting!Replace(c, [c EXCEPT !.step = s])
      PROVE  SubmissionInv'
  <2>1. PICK d : d = [c EXCEPT !.step = s]
    OBVIOUS
  <2>2. d.number = c.number /\ d.node = c.node /\ d.accept = c.accept
    BY <1>1, <2>1, Identity
  <2>3. Whole(d)
    <3>1. d \in Calls
      BY <1>1, <1>4, <2>1 DEF Calls, Submitting!Step
    <3>2. /\ d.batch = c.batch /\ d.at = c.at /\ d.step = s /\ d.aborted = c.aborted /\ d.invalid = c.invalid
          /\ d.broadcast = c.broadcast /\ d.excess = c.excess
      BY <1>1, <2>1 DEF Calls
    <3>3. c.at <= Len(c.batch) /\ ~c.aborted
      BY <1>1 DEF Submitting!Ended, Calls
    <3> QED BY <1>1, <1>4, <2>2, <3>1, <3>2, <3>3 DEF Whole, Came
  <2> QED BY <1>1, <1>4, <2>1, <2>2, <2>3, GoesOn
<1>5. ASSUME c.step \in {"enter", "validate"},
             Submitting!Replace(c, [c EXCEPT !.step = "extend", !.accept = Append(@, c.at)]),
             \/ c.node \in disposed /\ UNCHANGED submissionHistory
             \/ submissionHistory' = [submissionHistory EXCEPT !.entered = @ \cup {<<c.node, c.number, c.at>>}]
      PROVE  SubmissionInv'
  <2>1. PICK d : d = [c EXCEPT !.step = "extend", !.accept = Append(@, c.at)]
    OBVIOUS
  <2>2. Whole(d)
    BY <1>1, <1>5, <2>1, AcceptWhole
  <2>3. d.number = c.number /\ d.node = c.node /\ In(d.accept) = In(c.accept) \cup {c.at}
    BY <1>1, <2>1, Identity
  <2>4. /\ submissionHistory' \in Histories /\ submissionHistory'.calls = submissionHistory.calls
        /\ submissionHistory.entered \subseteq submissionHistory'.entered
        /\ submissionHistory'.posted = submissionHistory.posted
        /\ c.node \in disposed \/ <<c.node, c.number, c.at>> \in submissionHistory'.entered
    <3>1. <<c.node, c.number, c.at>> \in Nodes \X Nat \X Nat
      BY <1>1 DEF Calls
    <3> QED BY <1>1, <1>5, <3>1 DEF Histories
  <2> QED BY <1>1, <1>5, <2>1, <2>2, <2>3, <2>4, GoesOn
<1>6. CASE Submitting!Decode(c)
  <2>1. "ERR_BAD_DATA" \in Submitting!Errors
    BY DEF Submitting!Errors
  <2>2. c.step = "decode" /\ UNCHANGED submissionHistory
    BY <1>6 DEF Submitting!Decode
  <2>3. \/ Submitting!Replace(c, Submitting!Refuse(c, "ERR_BAD_DATA"))
        \/ Submitting!Replace(c, Submitting!Abort(c))
        \/ Submitting!Replace(c, [c EXCEPT !.step = "enter"])
    BY <1>6 DEF Submitting!Decode
  <2> QED BY <1>2, <1>3, <1>4, <2>1, <2>2, <2>3
<1>7. CASE Submitting!Enter(c)
  <2>1. "ERR_DUPLICATE" \in Submitting!Errors
    BY DEF Submitting!Errors
  <2> QED BY <1>2, <1>4, <1>5, <1>7, <2>1 DEF Submitting!Enter
<1>8. CASE Submitting!Validate(c)
  <2>1. {"ERR_EXCEEDS_MAX_COUNT", "ERR_OTHER"} \subseteq Submitting!Errors
    BY DEF Submitting!Errors
  <2> QED BY <1>2, <1>5, <1>8, <2>1 DEF Submitting!Validate
<1>9. CASE Submitting!Extend(c)
  <2>1. PICK d : d = IF Submitting!Entry(c) \in Private THEN Submitting!Done(c)
                     ELSE [Submitting!Done(c) EXCEPT !.broadcast = Append(@, c.at)]
    OBVIOUS
  <2>2. Submitting!Replace(c, d) /\ c.step = "extend" /\ UNCHANGED submissionHistory
    BY <1>9, <2>1 DEF Submitting!Extend
  <2>3. Whole(d)
    BY <1>1, <2>1, <2>2, ExtendWhole
  <2>4. d.number = c.number /\ d.node = c.node /\ d.accept = c.accept
    BY <1>1, <2>1, Identity
  <2> QED BY <1>1, <2>2, <2>3, <2>4, GoesOn
<1> QED BY <1>6, <1>7, <1>8, <1>9

\* A call ends; what it may pass on, nobody has passed on for it before.
LEMMA FinishKeeps ==
  ASSUME SubmissionInv, NEW c \in submissionCalls, Submitting!Finish(c)
  PROVE  SubmissionInv'
<1>1. /\ Whole(c) /\ c \in Calls /\ Known(c) /\ submissionHistory \in Histories /\ Submitting!Ended(c)
      /\ submissionCalls' = submissionCalls \ {c} /\ answers' = answers \cup {c} /\ UNCHANGED disposed
  BY DEF SubmissionInv, Whole, Submitting!Finish
<1>2. PICK peers \in SUBSET (Nodes \ {c.node}) :
        /\ c.broadcast # <<>> => peers \in Submitting!Chosen(c.node)
        /\ \A p \in posts' : p \in posts \/ (p.to \in peers /\ p.transactions = [i \in DOMAIN c.broadcast |-> c.batch[c.broadcast[i]]])
        /\ submissionHistory' \in Histories /\ submissionHistory'.calls = submissionHistory.calls
        /\ submissionHistory'.entered = submissionHistory.entered
        /\ \A x : x \in submissionHistory'.posted <=>
                    \/ x \in submissionHistory.posted
                    \/ \E p \in peers, i \in DOMAIN c.broadcast : x = <<p, c.number, c.broadcast[i]>>
  <2>1. CASE c.broadcast = <<>> /\ UNCHANGED <<posts, submissionHistory>>
    BY <1>1, <2>1
  <2>2. CASE \E peers \in Submitting!Chosen(c.node) : Submitting!BroadcastTransactions(c, peers)
    <3>1. PICK peers \in Submitting!Chosen(c.node) : Submitting!BroadcastTransactions(c, peers)
      BY <2>2
    <3>2. peers \in SUBSET (Nodes \ {c.node})
      BY DEF Submitting!Chosen
    <3>3. \A p \in posts' : p \in posts \/ (p.to \in peers /\ p.transactions = [i \in DOMAIN c.broadcast |-> c.batch[c.broadcast[i]]])
      BY <3>1 DEF Submitting!BroadcastTransactions
    <3>4. submissionHistory' = [submissionHistory EXCEPT !.posted = @ \cup Submitting!Passed(c, peers)]
      BY <3>1 DEF Submitting!BroadcastTransactions
    <3>5. \A x : x \in Submitting!Passed(c, peers) <=>
                   \E p \in peers, i \in DOMAIN c.broadcast : x = <<p, c.number, c.broadcast[i]>>
      BY DEF Submitting!Passed
    <3>6. Submitting!Passed(c, peers) \subseteq Nodes \X Nat \X Nat
      <4>1. c.number \in Nat /\ \A i \in DOMAIN c.broadcast : c.broadcast[i] \in Nat
        BY <1>1 DEF Calls
      <4> QED BY <3>2, <3>5, <4>1
    <3>7. /\ submissionHistory' \in Histories /\ submissionHistory'.calls = submissionHistory.calls
          /\ submissionHistory'.entered = submissionHistory.entered
          /\ submissionHistory'.posted = submissionHistory.posted \cup Submitting!Passed(c, peers)
      BY <1>1, <3>4, <3>6 DEF Histories
    <3> QED BY <3>2, <3>3, <3>5, <3>7
  <2> QED BY <2>1, <2>2 DEF Submitting!Finish
<1>5. \A d \in answers : d.number # c.number
  BY DEF SubmissionInv
<1>6. \A x \in submissionHistory.posted : x[2] # c.number
  BY <1>5 DEF SubmissionInv, PostsOfAnswers
<1>7. PostsOfAnswers'
  <2>1. SUFFICES ASSUME NEW x \in submissionHistory'.posted
        PROVE  \E d \in answers \cup {c} : d.number = x[2] /\ x[1] # d.node /\ x[3] \in In(d.broadcast)
    BY <1>1 DEF PostsOfAnswers
  <2>2. CASE x \in submissionHistory.posted
    BY <2>2 DEF SubmissionInv, PostsOfAnswers
  <2>3. CASE \E p \in peers, i \in DOMAIN c.broadcast : x = <<p, c.number, c.broadcast[i]>>
    BY <2>3 DEF In
  <2> QED BY <1>2, <2>2, <2>3
<1>8. Submitting!AcceptedIsPassedOn'
  <2>1. SUFFICES ASSUME NEW d \in answers \cup {c}, NEW i \in In(d.accept), d.batch[i] \notin Private
        PROVE  {p \in Nodes : <<p, d.number, i>> \in submissionHistory'.posted} \in Submitting!Chosen(d.node)
    BY <1>1, ToSetIn, ChosenConstant DEF Submitting!AcceptedIsPassedOn
  <2>2. CASE d \in answers
    <3>1. {p \in Nodes : <<p, d.number, i>> \in submissionHistory.posted} \in Submitting!Chosen(d.node)
      BY <2>1, <2>2, ToSetIn DEF SubmissionInv, Submitting!AcceptedIsPassedOn
    <3>2. \A p : <<p, d.number, i>> \in submissionHistory'.posted <=> <<p, d.number, i>> \in submissionHistory.posted
      BY <1>2, <1>5, <2>2
    <3> QED BY <3>1, <3>2
  <2>3. CASE d = c
    <3>1. c.step # "extend"
      BY <1>1 DEF Whole, Submitting!Ended, Calls
    <3>2. i \in In(c.broadcast)
      BY <1>1, <2>1, <2>3, <3>1 DEF Whole
    <3>3. PICK j \in DOMAIN c.broadcast : i = c.broadcast[j]
      BY <3>2 DEF In
    <3>4. \A p : <<p, c.number, i>> \in submissionHistory'.posted <=> p \in peers
      BY <1>2, <1>6, <3>3
    <3>5. c.broadcast # <<>>
      BY <3>3
    <3>6. {p \in Nodes : <<p, c.number, i>> \in submissionHistory'.posted} = peers
      BY <3>4
    <3> QED BY <1>2, <2>3, <3>5, <3>6
  <2> QED BY <2>2, <2>3
<1>9. \A p \in posts' : p.to \in Nodes /\ p.transactions \in Seq(Submitting!Transactions)
  <2>1. [i \in DOMAIN c.broadcast |-> c.batch[c.broadcast[i]]] \in Seq(Submitting!Transactions)
    <3>1. c.broadcast \in Seq(Nat) /\ c.batch \in Seq(Submitting!Transactions) /\ c.at \in Nat
      BY <1>1 DEF Calls
    <3>2. \A i \in DOMAIN c.broadcast : c.broadcast[i] \in 1..Len(c.batch)
      <4>1. Came(c) \subseteq 1..Len(c.batch)
        BY <1>1, <3>1 DEF Whole, Came
      <4>2. \A i \in DOMAIN c.broadcast : c.broadcast[i] \in In(c.broadcast)
        BY DEF In
      <4> QED BY <1>1, <4>1, <4>2 DEF Whole
    <3>3. DOMAIN c.broadcast = 1..Len(c.broadcast) /\ Len(c.broadcast) \in Nat
      BY <3>1
    <3>4. \A i \in 1..Len(c.batch) : c.batch[i] \in Submitting!Transactions
      BY <3>1
    <3> QED BY <3>2, <3>3, <3>4
  <2> QED BY <1>2, <2>1 DEF SubmissionInv
<1>10. \A d \in submissionCalls' \cup answers' : Whole(d) /\ Known(d)'
  <2>1. submissionHistory.calls \in Nat
    BY <1>1 DEF Histories
  <2>2. \A d \in submissionCalls \cup answers : Known(d)'
    BY <1>1, <1>2, <2>1, KnownKept
  <2> QED BY <1>1, <2>2 DEF SubmissionInv
<1>11. \A d, e \in submissionCalls' \cup answers' : d.number = e.number => d = e
  BY <1>1 DEF SubmissionInv
<1>12. submissionCalls' \cap answers' = {}
  BY <1>1 DEF SubmissionInv
<1> QED BY <1>2, <1>7, <1>8, <1>9, <1>10, <1>11, <1>12 DEF SubmissionInv

LEMMA SubmissionStep ==
  ASSUME Submitting!SubmissionAssumption, SubmissionInv, [Submitting!Next]_(Submitting!vars)
  PROVE  SubmissionInv'
<1>1. submissionHistory \in Histories
  BY DEF SubmissionInv
<1>2. ASSUME NEW n \in Nodes, NEW b \in Batches, NEW binary \in BOOLEAN, Submitting!Submit(n, b, binary)
      PROVE  SubmissionInv'
  <2>1. b \in Seq(Submitting!Transactions)
    BY DEF Submitting!SubmissionAssumption
  <2> QED BY <1>2, <2>1, BeginKeeps DEF Submitting!Submit
<1>3. ASSUME NEW p \in posts, Submitting!Arrive(p) PROVE SubmissionInv'
  <2>1. p.to \in Nodes /\ p.transactions \in Seq(Submitting!Transactions)
    BY DEF SubmissionInv
  <2>2. posts' \subseteq posts
    BY <1>3 DEF Submitting!Arrive
  <2> QED BY <1>3, <2>1, <2>2, BeginKeeps DEF Submitting!Arrive
<1>4. ASSUME NEW p \in posts, Submitting!Lose(p) PROVE SubmissionInv'
  BY <1>1, <1>4, SubmissionRest DEF Submitting!Lose
<1>5. ASSUME NEW n, NEW x, Submitting!Forged(n, x) PROVE SubmissionInv'
  <2>1. /\ submissionHistory' \in Histories /\ submissionHistory'.calls = submissionHistory.calls
        /\ submissionHistory'.entered = submissionHistory.entered /\ submissionHistory'.posted = submissionHistory.posted
    BY <1>1, <1>5 DEF Submitting!Forged, Histories
  <2> QED BY <1>5, <2>1, SubmissionRest DEF Submitting!Forged
<1>6. ASSUME NEW n, Submitting!Dispose(n) PROVE SubmissionInv'
  BY <1>1, <1>6, SubmissionRest DEF Submitting!Dispose
<1>7. CASE UNCHANGED Submitting!vars
  BY <1>1, <1>7, SubmissionRest DEF Submitting!vars
<1> QED BY <1>2, <1>3, <1>4, <1>5, <1>6, <1>7, EntryKeeps, FinishKeeps DEF Submitting!Next

LEMMA SubmissionBegins ==
  ASSUME Submitting!Init
  PROVE  SubmissionInv
BY DEF Submitting!Init, SubmissionInv, Histories, PostsOfAnswers, Submitting!AcceptedIsPassedOn

LEMMA SubmissionInvOnce ==
  ASSUME SubmissionInv
  PROVE  SubmittedOnce
<1>1. Submitting!AnswersAddUp
  <2>1. \A c \in submissionCalls \cup answers : Whole(c) /\ Known(c)
    BY DEF SubmissionInv
  <2> QED BY <2>1, ToSetIn DEF Submitting!AnswersAddUp, Whole, Known, Came
<1>2. Submitting!PassedOnOnceEntered
  <2>1. SUFFICES ASSUME NEW x \in submissionHistory.posted
        PROVE  \E n \in Nodes : n # x[1] /\ (<<n, x[2], x[3]>> \in submissionHistory.entered \/ n \in disposed)
    BY DEF Submitting!PassedOnOnceEntered
  <2>2. PICK c \in answers : c.number = x[2] /\ x[1] # c.node /\ x[3] \in In(c.broadcast)
    BY DEF SubmissionInv, PostsOfAnswers
  <2>3. Whole(c) /\ Known(c) /\ c \in Calls
    BY DEF SubmissionInv, Whole
  <2>4. c.node \in Nodes
    BY <2>3 DEF Calls
  <2> QED BY <2>2, <2>3, <2>4 DEF Whole, Known
<1> QED BY <1>1, <1>2 DEF SubmissionInv, SubmittedOnce

(***************************************************************************)
(* However the calls of the nodes interleave, fail or lose their posts: a  *)
(* call answers for each entry it came to, what it accepts it passes on    *)
(* when it ends, and only the call by which a transaction entered a pool   *)
(* passes it on from there.                                                *)
(***************************************************************************)
THEOREM TransactionsAreSubmittedOnce ==
  ASSUME Submitting!SubmissionAssumption
  PROVE  Submitting!Spec => []SubmittedOnce
<1>1. Submitting!Init => SubmissionInv
  BY SubmissionBegins
<1>2. SubmissionInv /\ [Submitting!Next]_(Submitting!vars) => SubmissionInv'
  BY SubmissionStep
<1>3. SubmissionInv => SubmittedOnce
  BY SubmissionInvOnce
<1> QED BY <1>1, <1>2, <1>3, PTL DEF Submitting!Spec

-----------------------------------------------------------------------------
(* The pool of transactions *)

PoolProof == INSTANCE TransactionPool_proof WITH MaxHeight <- MaxPoolHeight, MaxRestarts <- MaxPoolRestarts

(***************************************************************************)
(* Whatever calls, blocks, reverts, clean-ups, collations and restarts     *)
(* come between one another: storage and mempools agree when nothing is on *)
(* its way, nonces are consecutive, kinds are single, the limit is kept and *)
(* no sender is left behind. Excluded is only that a transaction is added  *)
(* while the node is about to remove it.                                   *)
(***************************************************************************)
THEOREM PoolStaysConsistent ==
  ASSUME Pool!PoolAssumption, ~Racing
  PROVE  Pool!Spec => []PoolConsistent
<1>0. PoolProof!PoolAssumption
  BY DEF
      Pool!PoolAssumption, PoolProof!PoolAssumption, Pool!Row, PoolProof!Row, Pool!Mempool,
      PoolProof!Mempool, Pool!IsFiniteSet, PoolProof!IsFiniteSet
<1>1. Pool!Init => PoolProof!Init
  BY DEF Pool!Init, PoolProof!Init, Pool!NoCall, PoolProof!NoCall
<1>2. [Pool!Next]_(Pool!vars) => [PoolProof!Next]_(PoolProof!vars)
  BY DEF
      Pool!Row, PoolProof!Row, Pool!Mempool, PoolProof!Mempool, Pool!PoolAssumption,
      PoolProof!PoolAssumption, Pool!vars, PoolProof!vars, Pool!NoCall, PoolProof!NoCall, Pool!Height,
      PoolProof!Height, Pool!NonceIn, PoolProof!NonceIn, Pool!ChainNonce, PoolProof!ChainNonce, Pool!Stored,
      PoolProof!Stored, Pool!Deleted, PoolProof!Deleted, Pool!Txs, PoolProof!Txs, Pool!Pooled,
      PoolProof!Pooled, Pool!Size, PoolProof!Size, Pool!Lowest, PoolProof!Lowest, Pool!Unlocked,
      PoolProof!Unlocked, Pool!IsExpired, PoolProof!IsExpired, Pool!IsOld, PoolProof!IsOld, Pool!New,
      PoolProof!New, Pool!Opened, PoolProof!Opened, Pool!Disposed, PoolProof!Disposed, Pool!TakeBack,
      PoolProof!TakeBack, Pool!RemoveFrom, PoolProof!RemoveFrom, Pool!Idle, PoolProof!Idle, Pool!To,
      PoolProof!To, Pool!Fail, PoolProof!Fail, Pool!FailEarly, PoolProof!FailEarly, Pool!Release,
      PoolProof!Release, Pool!FailInMempool, PoolProof!FailInMempool, Pool!Others, PoolProof!Others,
      Pool!Start, PoolProof!Start, Pool!AddTransaction, PoolProof!AddTransaction, Pool!Unfitting,
      PoolProof!Unfitting, Pool!ToTrim, PoolProof!ToTrim, Pool!TrimStep, PoolProof!TrimStep, Pool!Trimmed,
      PoolProof!Trimmed, Pool!Trim, PoolProof!Trim, Pool!MakeRoom, PoolProof!MakeRoom, Pool!Enter,
      PoolProof!Enter, Pool!NoneOfKind, PoolProof!NoneOfKind, Pool!NameFree, PoolProof!NameFree,
      Pool!MayEnter, PoolProof!MayEnter, Pool!Verify, PoolProof!Verify, Pool!Copied, PoolProof!Copied,
      Pool!Apply, PoolProof!Apply, Pool!Push, PoolProof!Push, Pool!ApplyBlock, PoolProof!ApplyBlock,
      Pool!Forged, PoolProof!Forged, Pool!RemoveForged, PoolProof!RemoveForged, Pool!CleanUp,
      PoolProof!CleanUp, Pool!RevertBlock, PoolProof!RevertBlock, Pool!Before, PoolProof!Before, Pool!Fits,
      PoolProof!Fits, Pool!Failing, PoolProof!Failing, Pool!GetBlockCandidateTransactions,
      PoolProof!GetBlockCandidateTransactions, Pool!RemoveFailed, PoolProof!RemoveFailed, Pool!StartReadding,
      PoolProof!StartReadding, Pool!Restart, PoolProof!Restart, Pool!Takes, PoolProof!Takes, Pool!Refused,
      PoolProof!Refused, Pool!Pushed, PoolProof!Pushed, Pool!ReaddNext, PoolProof!ReaddNext,
      Pool!EndReadding, PoolProof!EndReadding, Pool!Init, PoolProof!Init, Pool!AddStep, PoolProof!AddStep,
      Pool!Next, PoolProof!Next, Pool!ToSet, PoolProof!ToSet, Pool!Cardinality, PoolProof!Cardinality,
      Pool!IsFiniteSet, PoolProof!IsFiniteSet, Pool!Front, PoolProof!Front, Pool!Last, PoolProof!Last
<1>3. PoolProof!Init /\ [][PoolProof!Next]_(PoolProof!vars) =>
        [](PoolProof!TypeOK /\ PoolProof!NoncesAreConsecutive /\ PoolProof!OneOfAKind /\ PoolProof!PoolLimit
             /\ PoolProof!SendersGivenUp /\ PoolProof!NextOrStale)
  BY <1>0, PoolProof!AlwaysSound
<1>4. PoolProof!Init /\ [][PoolProof!Next]_(PoolProof!vars) => []PoolProof!StorageIsMempool
  BY <1>0, PoolProof!AlwaysStored
<1>5. /\ PoolProof!StorageIsMempool /\ PoolProof!NoncesAreConsecutive /\ PoolProof!OneOfAKind
      /\ PoolProof!PoolLimit /\ PoolProof!SendersGivenUp /\ PoolProof!NextOrStale
      => PoolConsistent
  BY DEF PoolConsistent,
      Pool!StorageIsMempool, PoolProof!StorageIsMempool, Pool!NoncesAreConsecutive,
      PoolProof!NoncesAreConsecutive, Pool!OneOfAKind, PoolProof!OneOfAKind, Pool!PoolLimit,
      PoolProof!PoolLimit, Pool!SendersGivenUp, PoolProof!SendersGivenUp, Pool!NextOrStale,
      PoolProof!NextOrStale, Pool!Quiet, PoolProof!Quiet, Pool!Idle, PoolProof!Idle, Pool!Stored,
      PoolProof!Stored, Pool!Pooled, PoolProof!Pooled, Pool!Size, PoolProof!Size, Pool!Txs, PoolProof!Txs,
      Pool!ChainNonce, PoolProof!ChainNonce, Pool!NonceIn, PoolProof!NonceIn, Pool!ToSet, PoolProof!ToSet,
      Pool!Cardinality, PoolProof!Cardinality, Pool!IsFiniteSet, PoolProof!IsFiniteSet, Pool!Last,
      PoolProof!Last
<1> QED BY <1>1, <1>2, <1>3, <1>4, <1>5, PTL DEF Pool!Spec
=============================================================================
