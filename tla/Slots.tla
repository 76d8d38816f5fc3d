------------------------------- MODULE Slots -------------------------------
(***************************************************************************)
(* Slots of time (core-crypto-time) and whose slot it is                   *)
(* (calculate-forging-info.ts).  The chain grows by blocks forged at the   *)
(* start of a slot, with missed slots between them, while milestones       *)
(* change the block time and the number of validators; it counts its slots *)
(* as it goes, and the calculators must agree with that count.             *)
(***************************************************************************)
EXTENDS Integers, FiniteSetsExt, SequencesExt

CONSTANTS
  BlockTimes,    \* bound: the block times
  Counts,        \* bound: the numbers of validators
  MaxTimeChanges, \* bound: milestones that change the block time
  MaxHeight,     \* bound: the highest block
  MaxMissed,     \* bound: slots missed between two blocks
  Epoch,         \* the timestamp of the genesis block, in seconds
  DefaultLookup  \* BlockTimeLookup is used (TRUE), or a lookup that knows every block

SlotsAssumption ==
  /\ BlockTimes \subseteq Nat \ {0} /\ Counts \subseteq Nat \ {0}
  /\ MaxHeight \in Nat \ {0} /\ MaxMissed \in Nat /\ Epoch \in Nat

VARIABLES
  blockTimes, \* getMilestonesWhichAffectBlockTimes: from which height which time
  validators, \* the same of the number of validators
  time,       \* the timestamps of the blocks, by height
  slot        \* the slots of the blocks, as the chain counted them

vars == <<blockTimes, validators, time, slot>>

Height == Len(time)

\* Lists of changes: each one at a greater height, to another value.
ChangeList(values, n) ==
  {c \in UNION {[1..k -> [height : 1..MaxHeight, data : values]] : k \in 1..n} :
     /\ c[1].height = 1
     /\ \A i \in 2..Len(c) : c[i - 1].height < c[i].height /\ c[i - 1].data # c[i].data}

DataAt(changes, h) == changes[Max({i \in 1..Len(changes) : changes[i].height <= h})].data

-----------------------------------------------------------------------------
\* getBlockTimeLookup.  The default one knows height 1, "always 0", and the
\* last block before each change of the block time; asked for any other height
\* it throws.
KnownTo(h) ==
  {1} \cup {blockTimes[i].height - 1 : i \in {j \in 2..Len(blockTimes) : blockTimes[j].height <= h}}
Found(h) == ~DefaultLookup \/ h \in KnownTo(h)
BlockTimeLookup(h) == IF DefaultLookup /\ h = 1 THEN 0 ELSE time[h]

\* The spans that are over at a height, by the index of the change that ended them.
Over(changes, h) == {i \in 2..Len(changes) : changes[i].height <= h}

\* The end of a span: the end of the slot of its last block.
SpanEnd(i) == BlockTimeLookup(blockTimes[i].height - 1) + blockTimes[i - 1].data

\* The slots of a span, from its first block to its end.
SlotsOfSpan(i) == (SpanEnd(i) - BlockTimeLookup(blockTimes[i - 1].height)) \div blockTimes[i - 1].data

\* What the loop over the spans leaves: the slots and the end of those over.
Loop(h) ==
  LET over == Over(blockTimes, h)
  IN  [totalSlots  |-> MapThenSumSet(SlotsOfSpan, over),
       lastSpanEnd |-> IF over = {} THEN Epoch ELSE SpanEnd(Max(over)),
       blockTime   |-> DataAt(blockTimes, h)]

GetSlotInfo(timestamp, h) ==
  LET loop  == Loop(h)
      since == (timestamp - loop.lastSpanEnd) \div loop.blockTime
      start == loop.lastSpanEnd + since * loop.blockTime
  IN  [slotNumber |-> loop.totalSlots + since, startTime |-> start,
       forgingStatus |-> timestamp < start + loop.blockTime \div 2]

GetSlotTime(number, h) == Loop(h).lastSpanEnd + (number - Loop(h).totalSlots) * Loop(h).blockTime

\* findIndex: the first slot of the current span of validators.
LastSpanSlot(h) ==
  LET over == Over(validators, h)
  IN  IF over = {} THEN 0
      ELSE LET end == validators[Max(over)].height - 1
           IN  GetSlotInfo(BlockTimeLookup(end), end).slotNumber + 1

CurrentForger(slotNumber, h) == (slotNumber - LastSpanSlot(h)) % DataAt(validators, h)

\* calculateForgingInfo.
ForgingInfo(timestamp, h) ==
  LET info    == GetSlotInfo(timestamp, h)
      current == CurrentForger(info.slotNumber, h)
  IN  [blockTimestamp |-> info.startTime, canForge |-> info.forgingStatus,
       currentForger  |-> current, nextForger |-> (current + 1) % DataAt(validators, h)]

\* The heights whose timestamp a calculation at a height asks for.
Asked(h) ==
  UNION {{blockTimes[i - 1].height, blockTimes[i].height - 1} : i \in Over(blockTimes, h)}
    \cup {validators[i].height - 1 : i \in Over(validators, h)}

-----------------------------------------------------------------------------
Init ==
  /\ blockTimes \in ChangeList(BlockTimes, MaxTimeChanges + 1)
  /\ validators \in ChangeList(Counts, 2)
  /\ time = <<Epoch>> /\ slot = <<0>>

\* The next block, some slots after the last one.  The slot after the last
\* block of a span has the old block time, the following ones have the new.
NextBlock(missed) ==
  /\ Height < MaxHeight
  /\ time' = Append(time, Last(time) + DataAt(blockTimes, Height)
                            + missed * DataAt(blockTimes, Height + 1))
  /\ slot' = Append(slot, Last(slot) + 1 + missed)
  /\ UNCHANGED <<blockTimes, validators>>

Next == \E missed \in 0..MaxMissed : NextBlock(missed)

Spec == Init /\ [][Next]_vars

-----------------------------------------------------------------------------
\* Properties.

\* Time goes on with the blocks.
TypeOK == Len(slot) = Height /\ \A h \in 1..(Height - 1) : time[h] < time[h + 1]

SlotOf(h) == GetSlotInfo(time[h], h).slotNumber

\* The calculated slot of a block is the one the chain counted, over any
\* change of the block time and any missed slots.
SlotIsCounted == SlotOf(Height) = Last(slot)

\* Each block is in a later slot than the one before it: isBlockChained refuses
\* it otherwise.
SlotsIncrease == Height > 1 => SlotOf(Height - 1) < SlotOf(Height)

\* getSlotTime inverts getSlotInfo: for any moment, it gives the start of the
\* slot the moment is in.
SlotTimeIsStart ==
  \A t \in Last(time)..(Last(time) + 2 * DataAt(blockTimes, Height)) :
    /\ GetSlotTime(GetSlotInfo(t, Height).slotNumber, Height) = GetSlotInfo(t, Height).startTime
    /\ GetSlotInfo(t, Height).startTime <= t

\* When the number of validators changes, the slot after the last block of the
\* old ones is the first of the new ones, and from then on they take turns
\* slot by slot, whatever the block time is.
ForgersTakeTurns ==
  \A i \in Over(validators, Height) :
    i = Max(Over(validators, Height)) =>
      ForgingInfo(Last(time), Height).currentForger
        = (Last(slot) - slot[validators[i].height - 1] - 1) % validators[i].data

\* Does not hold (README, section 5):
\* Says block-time-lookup.ts, "to calculate the timespan between two milestones
\* we need to look up the timestamp of the last block": what is asked is found.
LookupsFound == \A h \in Asked(Height) : Found(h)
=============================================================================
