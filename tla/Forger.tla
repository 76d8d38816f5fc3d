------------------------------- MODULE Forger -------------------------------
(* The forger (core-forger ForgerService and its actions, core-p2p             *)
(* NetworkState, core-blockchain handleIncomingBlock for its blocks): a loop   *)
(* of timers that loads the round, looks at the network and forges when it is  *)
(* a validator's turn, while other blocks arrive and time passes. Forgers of a *)
(* round take turns by the slot; a block is known by its height and its slot.  *)
EXTENDS Integers, Sequences, FiniteSets

CONSTANTS SlotTicks,     \* blockTime in ticks; a block is begun in the first half
          MinimumTicks,  \* minimumMs (2000)
          RetryTicks,    \* two seconds
          Validators,    \* maxValidators
          Ours,          \* Ours[r]: the turns of round r that are of validators of this node
          PeerSet, MinimumReach,
          None,
          MaxTime, MaxHeight, MaxRestarts   \* bounds

ForgerAssumption ==
    /\ SlotTicks \in Nat \ {0} /\ Validators \in Nat \ {0} /\ MinimumTicks \in Nat \ {0} /\ RetryTicks \in Nat \ {0}
    /\ Ours \in Seq(SUBSET (0..(Validators - 1))) /\ MaxHeight <= Validators * Len(Ours)

VARIABLES now,       \* the clock, in ticks
          tip,       \* the last block: [height, slot]
          pc, wake,  \* the timer of #checkLater
          round,     \* #round: [height: of the last block then, slot, ours: is it our turn]
          network,   \* the network state: the last block then
          incoming,  \* our block in handleIncomingBlock, or None
          queue,     \* our blocks to be processed: [parent, slot, height: of round]
          coldStart, restarts,
          forged,    \* history: slots a block was broadcast in
          waited,    \* history: slots in which the round could not be loaded at boot
          odd        \* history: a second block of a slot; one refused that is not late

vars == <<now, tip, pc, wake, round, network, incoming, queue, coldStart, restarts, forged, waited, odd>>

SlotOf(t) == t \div SlotTicks
SlotEnd(s) == (s + 1) * SlotTicks

\* calculateRound and calculateForgingInfo for one number of validators.
IsOurs(height, slot) == (slot % Validators) \in Ours[1 + (height - 1) \div Validators]

\* forgingStatus.
CanForge == now % SlotTicks < SlotTicks \div 2

-----------------------------------------------------------------------------
CheckLater(t) == pc' = "sleep" /\ wake' = t

\* Faulty variant: looks again at once.
BootNow == now

\* A slot that has begun is left to what ran before.
BootWait == SlotEnd(SlotOf(now))

Boot ==
    /\ pc = "boot"
    /\ \/ CheckLater(BootWait) /\ UNCHANGED waited
       \/ CheckLater(now + RetryTicks) /\ waited' = waited \union {SlotOf(now)}
    /\ UNCHANGED <<now, tip, round, network, incoming, queue, coldStart, restarts, forged, odd>>

\* checkSlot: the round of the next block, now.
LoadRound ==
    /\ pc = "sleep" /\ now >= wake /\ tip.height < MaxHeight
    /\ LET s == SlotOf(now)
           loaded == [height |-> tip.height, slot |-> s, ours |-> IsOurs(tip.height + 1, s)]
       IN  /\ round' = loaded
           /\ IF ~CanForge THEN CheckLater(now + 1)
              ELSE IF ~loaded.ours THEN CheckLater(SlotEnd(s))
              ELSE pc' = "loaded" /\ UNCHANGED wake
    /\ UNCHANGED <<now, tip, network, incoming, queue, coldStart, restarts, forged, waited, odd>>

\* getQuorum of what #update counted.
Quorum(ok) == 100 * Cardinality(ok) >= 66 * Cardinality(PeerSet)

\* getNetworkState and isForgingAllowed; ok are the peers that are neither
\* higher than we nor forked.
Analyze ==
    /\ pc = "loaded" /\ coldStart' = FALSE
    /\ \E reached \in SUBSET PeerSet : \E ok \in SUBSET reached :
          LET allowed == ~coldStart /\ Cardinality(reached) >= MinimumReach /\ Quorum(ok)
          IN  IF allowed THEN pc' = "allowed" /\ network' = tip /\ UNCHANGED wake
              ELSE CheckLater(SlotEnd(round.slot)) /\ UNCHANGED network
    /\ UNCHANGED <<now, tip, round, incoming, queue, restarts, forged, waited, odd>>

\* updateNetworkStatus in genesis-start mode.
EnterColdStart ==
    /\ ~coldStart /\ coldStart' = TRUE
    /\ UNCHANGED <<now, tip, pc, wake, round, network, incoming, queue, restarts, forged, waited, odd>>

TimeLeft(s) == SlotEnd(s) - now

\* forgeNewBlock: on the last block that the network state saw, in the slot of
\* the round. A block that is too late is not sent.
Forge ==
    /\ pc = "allowed"
    /\ IF TimeLeft(round.slot) >= MinimumTicks
       THEN /\ incoming' = [parent |-> network, slot |-> round.slot, height |-> round.height]
            /\ pc' = "broadcast" /\ UNCHANGED wake
       ELSE CheckLater(SlotEnd(round.slot)) /\ UNCHANGED incoming
    /\ UNCHANGED <<now, tip, round, network, queue, coldStart, restarts, forged, waited, odd>>

AfterForging == SlotEnd(round.slot)

\* handleIncomingBlock of our block, in the slot that it is by then.
HandleIncomingBlock ==
    /\ pc = "broadcast" /\ CheckLater(AfterForging) /\ incoming' = None
    /\ IF SlotOf(now) # incoming.slot \/ TimeLeft(incoming.slot) < MinimumTicks
       THEN UNCHANGED <<queue, forged, odd>>
       ELSE /\ queue' = Append(queue, incoming) /\ forged' = forged \union {incoming.slot}
            /\ odd' = IF incoming.slot \in forged \ waited THEN odd \union {"again"} ELSE odd
    /\ UNCHANGED <<now, tip, round, network, coldStart, restarts, waited>>

\* Anything before the broadcast fails: no idea when this will be ok.
Failed ==
    /\ pc \in {"loaded", "allowed"} \/ (pc = "sleep" /\ now >= wake)
    /\ CheckLater(now + RetryTicks)
    /\ UNCHANGED <<now, tip, round, network, incoming, queue, coldStart, restarts, forged, waited, odd>>

\* The round was loaded before the parent arrived.
StaleRound(b) == b.height # b.parent.height

\* Our block is processed: it must follow the last block, and it is checked
\* whose turn it is in its slot, in the round of its height.
Process ==
    /\ queue # <<>> /\ queue' = Tail(queue)
    /\ LET b == Head(queue)
           fits == b.parent = tip /\ b.slot > tip.slot
           turn == IsOurs(b.parent.height + 1, b.slot)
       IN  /\ tip' = IF fits /\ turn THEN [height |-> tip.height + 1, slot |-> b.slot] ELSE tip
           /\ odd' = IF fits /\ ~turn /\ ~StaleRound(b) THEN odd \union {"refused"} ELSE odd
    /\ UNCHANGED <<now, pc, wake, round, network, incoming, coldStart, restarts, forged, waited>>

\* A block of another node, of this slot or of one before.
Arrive ==
    /\ tip.height < MaxHeight
    /\ \E s \in (tip.slot + 1)..SlotOf(now) :
          ~IsOurs(tip.height + 1, s) /\ tip' = [height |-> tip.height + 1, slot |-> s]
    /\ UNCHANGED <<now, pc, wake, round, network, incoming, queue, coldStart, restarts, forged, waited, odd>>

Restart ==
    /\ restarts < MaxRestarts /\ restarts' = restarts + 1
    /\ pc' = "boot" /\ wake' = now /\ round' = None /\ network' = None /\ incoming' = None
    /\ queue' = <<>> /\ coldStart' = FALSE
    /\ UNCHANGED <<now, tip, forged, waited, odd>>

Tick ==
    /\ now < MaxTime /\ now' = now + 1
    /\ UNCHANGED <<tip, pc, wake, round, network, incoming, queue, coldStart, restarts, forged, waited, odd>>

Init ==
    /\ now = 0 /\ tip = [height |-> 1, slot |-> -1] /\ pc = "boot" /\ wake = 0 /\ round = None /\ network = None
    /\ incoming = None /\ queue = <<>> /\ coldStart = FALSE /\ restarts = 0 /\ forged = {} /\ waited = {} /\ odd = {}

Next ==
    \/ Boot \/ LoadRound \/ Analyze \/ EnterColdStart \/ Forge \/ HandleIncomingBlock \/ Failed
    \/ Process \/ Arrive \/ Restart \/ Tick

Spec == Init /\ [][Next]_vars

-----------------------------------------------------------------------------
ForgerTypeOK ==
    /\ now \in 0..MaxTime /\ pc \in {"boot", "sleep", "loaded", "allowed", "broadcast"} /\ wake \in Nat
    /\ tip.height \in 1..MaxHeight /\ tip.slot <= SlotOf(now)
    /\ (incoming # None) <=> (pc = "broadcast")

\* No slot gets two blocks of ours, after failures and restarts either, unless
\* the round could not be loaded when the node came up in that slot.
OneBlockPerSlot == "again" \notin odd

\* A block of ours that follows the last block is refused as out of turn only
\* when another block came between the round and the network state (what the
\* warning "out of sync" of checkSlot tells).
RefusedOnlyIfDelayed == "refused" \notin odd
=============================================================================
