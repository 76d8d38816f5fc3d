----------------------------- MODULE Milestones -----------------------------
(***************************************************************************)
(* The milestones of the network configuration (core-crypto-config) and    *)
(* the rounds computed from them (round-calculator.ts).  The chain grows   *)
(* one block at a time and counts its rounds as it goes; the calculators,  *)
(* which are given a height only, must agree with that count.              *)
(***************************************************************************)
EXTENDS Integers, FiniteSetsExt, SequencesExt

CONSTANTS
  MaxHeight,   \* bound: the highest block
  Counts,      \* bound: the numbers of validators a milestone may set
  BlockTimes,  \* bound: the block times a milestone may set
  MaxLength,   \* bound: milestones of a configuration
  Restating    \* may a milestone set again the number that already holds?

MilestonesAssumption ==
  /\ MaxHeight \in Nat \ {0} /\ MaxLength \in Nat \ {0}
  /\ Counts \subseteq Nat \ {0} /\ BlockTimes \subseteq Nat \ {0}

None == 0  \* a key that a milestone does not set

VARIABLES
  milestones, \* #milestones, merged
  cursor,     \* #milestone.index (from 1 here)
  height,     \* #height
  walk        \* the round the chain is in, its first height and its length

vars == <<milestones, cursor, height, walk>>

-----------------------------------------------------------------------------
\* Configurations, as the network file gives them: ordered by height, the
\* first one complete.
Configuration ==
  {c \in UNION {[1..n -> [height : 1..MaxHeight, activeValidators : Counts \cup {None},
                          blockTime : BlockTimes \cup {None}]] : n \in 1..MaxLength} :
     /\ c[1].height = 1 /\ c[1].activeValidators # None /\ c[1].blockTime # None
     /\ \A i \in 2..Len(c) : c[i - 1].height < c[i].height}

\* #validateMilestones: each milestone that changes the number is compared with
\* the one before it that sets a number.
Validated(c) ==
  LET setting == SelectSeq(c, LAMBDA m : m.activeValidators # None)
  IN  \A i \in 2..Len(setting) :
        \/ setting[i].activeValidators = setting[i - 1].activeValidators
        \/ (setting[i].height - setting[i - 1].height) % setting[i - 1].activeValidators = 0

\* #buildConstants: a milestone inherits what it does not set.
Merged(c) ==
  LET merged[i \in 1..Len(c)] ==
        IF i = 1 THEN c[1]
        ELSE [key \in DOMAIN c[i] |-> IF c[i][key] = None THEN merged[i - 1][key] ELSE c[i][key]]
  IN  merged

\* Faulty variant: the cursor only moves up.
CursorForward(i, h) == Max({i} \cup {j \in 1..Len(milestones) : milestones[j].height <= h})

\* getMilestone moves the cursor up while the next milestone has begun, then
\* down while its own has not.
CursorFor(i, h) ==
  LET up == Max({i} \cup {j \in i..Len(milestones) : milestones[j].height <= h})
  IN  Max({j \in 1..up : milestones[j].height <= h})

MilestoneAt(h) == milestones[CursorFor(cursor, h)]

\* getNextMilestoneWithNewKey: the first one above a height whose value is not
\* the one that holds there.
NextWithNewKey(h, key) ==
  LET next == {i \in 1..Len(milestones) : milestones[i].height > h /\ milestones[i][key] # MilestoneAt(h)[key]}
  IN  IF next = {} THEN [found |-> FALSE, height |-> h, data |-> None]
      ELSE [found |-> TRUE, height |-> milestones[Min(next)].height, data |-> milestones[Min(next)][key]]

\* getMilestonesWhichAffectActiveValidatorCount, for any key.
Changes(key) ==
  LET from[n \in Nat] ==
        IF n = 0 THEN <<[found |-> TRUE, height |-> 1, data |-> MilestoneAt(1)[key]]>>
        ELSE LET next == NextWithNewKey(Last(from[n - 1]).height, key)
             IN  IF next.found THEN Append(from[n - 1], next) ELSE from[n - 1]
  IN  from[Len(milestones)]

-----------------------------------------------------------------------------
\* The round of a height: the rounds of the spans that are over, and those of
\* the span it is in.  A span that is no whole number of rounds is an error.
Bad == [round |-> None]

CalculateRound(h) ==
  LET changes == Changes("activeValidators")
      over    == {i \in 2..Len(changes) : changes[i].height <= h}
      span(i) == changes[i].height - changes[i - 1].height
      last    == changes[Max(over \cup {1})]
      inSpan  == h - last.height
      rounds  == 1 + MapThenSumSet(LAMBDA i : span(i) \div changes[i - 1].data, over) + inSpan \div last.data
  IN  IF \E i \in over : span(i) % changes[i - 1].data # 0 THEN Bad
      ELSE [round         |-> rounds,
            roundHeight   |-> last.height + (inSpan \div last.data) * last.data,
            nextRound     |-> rounds + (IF (inSpan + 1) % last.data = 0 THEN 1 ELSE 0),
            maxValidators |-> last.data]

\* The milestone that introduced the key's value at a height: scanned from the
\* last one down, as long as the value is the same.
IntroducedAt(h, key) ==
  LET begun == {i \in 1..Len(milestones) : milestones[i].height <= h}
  IN  milestones[Min({i \in begun : \A j \in begun : j >= i => milestones[j][key] = milestones[Max(begun)][key]})]

\* isNewRound, which looks at the milestones by itself.
IsNewRound(h) ==
  LET milestone == IntroducedAt(h, "activeValidators")
  IN  h = 1 \/ (h - milestone.height) % milestone.activeValidators = 0

\* isNewBlockTime of block-time-calculator.ts.
IsNewBlockTime(h) == h = 1 \/ h = IntroducedAt(h, "blockTime").height

-----------------------------------------------------------------------------
Init ==
  /\ \E c \in Configuration :
       /\ Validated(c)
       /\ ~Restating => \A i \in 2..Len(c) : c[i].activeValidators # Merged(c)[i - 1].activeValidators
       /\ milestones = Merged(c)
  /\ cursor = 1 /\ height = 1
  /\ walk = [round |-> 1, roundHeight |-> 1, length |-> milestones[1].activeValidators]

\* A block is added: setHeight.  The round is over when it has its blocks.
NextBlock ==
  /\ height < MaxHeight
  /\ height' = height + 1
  /\ walk' = IF height + 1 < walk.roundHeight + walk.length THEN walk
             ELSE [round |-> walk.round + 1, roundHeight |-> height + 1,
                   length |-> MilestoneAt(height + 1).activeValidators]
  /\ UNCHANGED <<milestones, cursor>>

\* Somebody asks for the milestone of any height.
GetMilestone(h) ==
  /\ cursor' = CursorFor(cursor, h)
  /\ UNCHANGED <<milestones, height, walk>>

Next == NextBlock \/ \E h \in 1..MaxHeight : GetMilestone(h)

Spec == Init /\ [][Next]_vars

-----------------------------------------------------------------------------
\* Properties.

\* The cursor stays on a milestone, and a round has at least one block.
TypeOK == cursor \in 1..Len(milestones) /\ height \in 1..MaxHeight /\ walk.length > 0

\* Wherever earlier lookups left the cursor, getMilestone(h) is the last
\* milestone that has begun at h.
CursorIsNoMemory ==
  \A h \in 1..MaxHeight :
    MilestoneAt(h) = milestones[Max({i \in 1..Len(milestones) : milestones[i].height <= h})]

\* calculateRound(height) is the round the chain counted, and says that a new
\* one follows exactly at its last block.
RoundIsCounted ==
  CalculateRound(height) =
    [round |-> walk.round, roundHeight |-> walk.roundHeight, maxValidators |-> walk.length,
     nextRound |-> IF height + 1 = walk.roundHeight + walk.length THEN walk.round + 1 ELSE walk.round]

\* isNewRound(height), which does not use calculateRound, says the same.
NewRoundIsCounted == IsNewRound(height) <=> height = walk.roundHeight

\* isNewBlockTime is true exactly where the block time differs from the one of
\* the height before.
NewBlockTimeIsChange ==
  IsNewBlockTime(height) <=> height = 1 \/ MilestoneAt(height).blockTime # MilestoneAt(height - 1).blockTime

\* Does not hold (README, section 5):
\* Says the error message of #validateMilestones: "The number of validators can
\* only be changed at the beginning of a new round."
ChangedAtNewRound == CalculateRound(height) # Bad
=============================================================================
