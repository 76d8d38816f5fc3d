-------------------------- MODULE RoundState_proof --------------------------
(***************************************************************************)
(* The rounds of validators stay what the chain decides, whatever blocks   *)
(* are applied, refused, reverted and saved, and wherever the node stops.  *)
(***************************************************************************)
EXTENDS RoundState, SequenceTheorems, FiniteSetTheorems, TLAPS

-----------------------------------------------------------------------------
(* Heights and rounds *)

\* Factors keep the order.
LEMMA TimesMonotone ==
  ASSUME NEW p \in Nat, NEW a \in Int, NEW b \in Int, a <= b
  PROVE  a * p <= b * p /\ a * p \in Int /\ b * p \in Int
OBVIOUS

\* What a quotient and a remainder are.
LEMMA Quotient ==
  ASSUME NEW p \in Nat \ {0}, NEW n \in Nat
  PROVE  /\ n \div p \in Nat
         /\ (n \div p) * p <= n
         /\ n < (n \div p + 1) * p
         /\ n % p = n - (n \div p) * p
<1>1. n \div p \in Int
  OBVIOUS
<1>2. n \div p >= 0
  OBVIOUS
<1>3. p * (n \div p) <= n /\ n < p * (n \div p + 1)
  OBVIOUS
<1>4. n % p = n - p * (n \div p)
  OBVIOUS
<1>5. \A q \in Int : p * q = q * p
  OBVIOUS
<1> QED
  BY <1>1, <1>2, <1>3, <1>4, <1>5

\* There is no other quotient.
LEMMA QuotientOf ==
  ASSUME NEW p \in Nat \ {0}, NEW n \in Nat, NEW q \in Int, q * p <= n, n < (q + 1) * p
  PROVE  n \div p = q
OBVIOUS

\* The height before a round's first block, but for round 1 the genesis block:
\* the last one whose votes decide the round.
Cut(r) == IF r = 1 THEN 1 ELSE (r - 1) * PerRound

\* At least two validators forge, and no more than there are.
LEMMA PerRoundType ==
  ASSUME RoundStateAssumption
  PROVE  PerRound \in Nat /\ PerRound >= 2 /\ PerRound <= Cardinality(Validator) /\ Cardinality(Validator) \in Nat
BY FS_CardinalityType DEF RoundStateAssumption

\* A round's heights are those above the rounds before it and up to its own end.
LEMMA RoundBounds ==
  ASSUME RoundStateAssumption, NEW h \in Nat \ {0}
  PROVE  /\ RoundOf(h) \in Nat \ {0}
         /\ (RoundOf(h) - 1) * PerRound < h
         /\ h <= RoundOf(h) * PerRound
         /\ IsLastOfRound(h) <=> h = RoundOf(h) * PerRound
<1>0. PerRound \in Nat \ {0}
  BY PerRoundType
<1> DEFINE q == (h - 1) \div PerRound
<1>1. q \in Nat /\ q * PerRound <= h - 1 /\ h - 1 < (q + 1) * PerRound
  <2>1. h - 1 \in Nat
    OBVIOUS
  <2>2. \A p \in Nat \ {0}, n \in Nat : n \div p \in Nat /\ (n \div p) * p <= n /\ n < (n \div p + 1) * p
    BY Quotient
  <2> QED
    BY <1>0, <2>1, <2>2, Zenon
<1>2. RoundOf(h) = q + 1
  BY DEF RoundOf
<1>3. h % PerRound = h - (h \div PerRound) * PerRound /\ h \div PerRound \in Nat
      /\ (h \div PerRound) * PerRound <= h
  BY <1>0, Quotient
<1> HIDE DEF q
<1>a. q * PerRound \in Int /\ (q + 1) * PerRound \in Int /\ (q + 2) * PerRound \in Int
      /\ (q + 2) * PerRound = (q + 1) * PerRound + PerRound
  BY <1>0, <1>1
<1>4. ASSUME h = (q + 1) * PerRound PROVE h % PerRound = 0
  <2>1. h \div PerRound = q + 1
    BY <1>0, <1>1, <1>4, <1>a, QuotientOf
  <2> QED
    BY <1>3, <2>1, <1>4, <1>a
<1>5. ASSUME h % PerRound = 0 PROVE h = (q + 1) * PerRound
  <2> DEFINE d == h \div PerRound
  <2>0. d * PerRound \in Int /\ d \in Nat
    BY <1>0, <1>3
  <2>1. d \in Nat /\ h = d * PerRound
    <3> HIDE DEF d
    <3>1. h % PerRound = h - d * PerRound
      BY <1>3 DEF d
    <3> QED
      BY <3>1, <2>0, <1>5
  <2> HIDE DEF d
  <2>2. CASE d <= q
    <3>1. d * PerRound <= q * PerRound
      BY <1>0, <1>1, <2>1, <2>2, TimesMonotone
    <3> QED
      BY <3>1, <2>1, <1>1, <1>a
  <2>3. CASE d >= q + 2
    <3>1. (q + 2) * PerRound <= d * PerRound
      BY <1>0, <1>1, <2>1, <2>3, TimesMonotone
    <3> QED
      BY <3>1, <2>1, <1>1, <1>a, <1>0
  <2>4. CASE d = q + 1
    BY <2>1, <2>4
  <2> QED
    BY <1>1, <2>1, <2>2, <2>3, <2>4
<1>6. IsLastOfRound(h) <=> h = (q + 1) * PerRound
  BY <1>4, <1>5 DEF IsLastOfRound
<1>7. q + 1 \in Nat \ {0} /\ (q + 1) - 1 = q /\ q * PerRound < h /\ h <= (q + 1) * PerRound
  BY <1>1, <1>a
<1> QED
  BY <1>2, <1>6, <1>7

\* They are the only ones.
LEMMA RoundOfBetween ==
  ASSUME RoundStateAssumption, NEW h \in Nat \ {0}, NEW r \in Nat,
         (r - 1) * PerRound < h, h <= r * PerRound
  PROVE  RoundOf(h) = r
<1>0. PerRound \in Nat \ {0}
  BY PerRoundType
<1>1. (r - 1) * PerRound \in Int /\ r * PerRound \in Int /\ (r - 1) + 1 = r
  BY <1>0
<1>2. (r - 1) * PerRound <= h - 1 /\ h - 1 < ((r - 1) + 1) * PerRound /\ h - 1 \in Nat /\ r - 1 \in Int
  BY <1>1
<1>3. (h - 1) \div PerRound = r - 1
  BY <1>0, <1>2, QuotientOf
<1> QED
  BY <1>3 DEF RoundOf

\* The first height of a round, and what the next height is.
LEMMA RoundSteps ==
  ASSUME RoundStateAssumption, NEW h \in Nat \ {0}
  PROVE  /\ RoundHeight(h) \in 1..h
         /\ RoundHeight(h) = (RoundOf(h) - 1) * PerRound + 1
         /\ RoundOf(h) = 1 => RoundHeight(h) = 1
         /\ RoundOf(h) # 1 => Cut(RoundOf(h)) = RoundHeight(h) - 1
         /\ IsLastOfRound(h) =>
              /\ RoundOf(h + 1) = RoundOf(h) + 1 /\ RoundHeight(h + 1) = h + 1
              /\ Cut(RoundOf(h + 1)) = h /\ RoundHeight(h) < h
         /\ ~IsLastOfRound(h) => RoundOf(h + 1) = RoundOf(h) /\ RoundHeight(h + 1) = RoundHeight(h)
<1> DEFINE q == RoundOf(h)
           below == (q - 1) * PerRound
           upto == q * PerRound
<1>0. PerRound \in Nat /\ PerRound >= 2
  BY PerRoundType
<1>1. q \in Nat \ {0} /\ below < h /\ h <= upto /\ (IsLastOfRound(h) <=> h = upto)
  BY RoundBounds
<1>2. RoundHeight(h) = below + 1
  BY DEF RoundHeight
<1>3. RoundHeight(h + 1) = (RoundOf(h + 1) - 1) * PerRound + 1
  BY DEF RoundHeight
<1>4. q # 1 => Cut(q) = below
  BY DEF Cut
<1>5. q = 1 => below = 0
  BY <1>0
<1>6. below \in Int /\ upto \in Int /\ upto = below + PerRound
  BY <1>0, <1>1
<1>7. 0 * PerRound <= below
  BY <1>0, <1>1, TimesMonotone
<1>8. 0 <= below
  BY <1>0, <1>7
<1>9. ASSUME IsLastOfRound(h)
      PROVE  RoundOf(h + 1) = q + 1 /\ RoundHeight(h + 1) = h + 1 /\ Cut(RoundOf(h + 1)) = h
  <2>1. h = upto
    BY <1>1, <1>9
  <2>2. (q + 1) - 1 = q /\ (q + 1) * PerRound \in Int /\ (q + 1) * PerRound = upto + PerRound
    BY <1>0, <1>1
  <2> HIDE DEF below, upto
  <2>3. upto < h + 1 /\ h + 1 <= (q + 1) * PerRound /\ h + 1 \in Nat \ {0} /\ q + 1 \in Nat
    BY <2>1, <2>2, <1>0, <1>1, <1>6
  <2>4. ((q + 1) - 1) * PerRound < h + 1
    BY <2>2, <2>3 DEF upto
  <2>5. RoundOf(h + 1) = q + 1
    <3> HIDE DEF q
    <3> QED BY <2>3, <2>4, RoundOfBetween
  <2>6. ((q + 1) - 1) * PerRound = h
    BY <2>1, <2>2 DEF upto
  <2>7. q + 1 # 1
    BY <1>1
  <2> QED
    BY <2>5, <2>6, <2>7, <1>3 DEF Cut
<1>10. ASSUME ~IsLastOfRound(h) PROVE RoundOf(h + 1) = q
  <2> HIDE DEF below, upto
  <2>1. below < h + 1 /\ h + 1 <= upto /\ h + 1 \in Nat \ {0}
    BY <1>1, <1>6, <1>10
  <2> QED
    BY <2>1, <1>1, RoundOfBetween DEF below, upto
<1> HIDE DEF below, upto, q
<1>11. RoundHeight(h) \in 1..h
  BY <1>1, <1>2, <1>6, <1>8
<1>12. IsLastOfRound(h) => RoundHeight(h) < h
  BY <1>0, <1>1, <1>2, <1>6
<1>13. RoundHeight(h) = (RoundOf(h) - 1) * PerRound + 1
  BY <1>2 DEF q, below
<1>14. RoundOf(h) = 1 => RoundHeight(h) = 1
  BY <1>2, <1>5 DEF q
<1>15. RoundOf(h) # 1 => Cut(RoundOf(h)) = RoundHeight(h) - 1
  BY <1>2, <1>4, <1>6 DEF q
<1>16. ~IsLastOfRound(h) => RoundOf(h + 1) = RoundOf(h) /\ RoundHeight(h + 1) = RoundHeight(h)
  BY <1>3, <1>10, <1>13 DEF q
<1>17. IsLastOfRound(h) => RoundOf(h + 1) = RoundOf(h) + 1 /\ RoundHeight(h + 1) = h + 1 /\ Cut(RoundOf(h + 1)) = h
  BY <1>9 DEF q
<1> QED
  BY <1>11, <1>12, <1>13, <1>14, <1>15, <1>16, <1>17

\* The genesis block begins round 1 and does not end it.
LEMMA RoundOfOne ==
  ASSUME RoundStateAssumption
  PROVE  RoundOf(1) = 1 /\ ~IsLastOfRound(1) /\ RoundHeight(1) = 1
<1>0. PerRound \in Nat /\ PerRound >= 2
  BY PerRoundType
<1>1. (1 - 1) * PerRound < 1 /\ 1 <= 1 * PerRound /\ 1 * PerRound = PerRound /\ 1 \in Nat /\ 1 \in Nat \ {0}
  BY <1>0
<1>2. RoundOf(1) = 1
  BY <1>1, RoundOfBetween
<1>3. ~IsLastOfRound(1)
  <2>1. IsLastOfRound(1) <=> 1 = RoundOf(1) * PerRound
    BY <1>1, RoundBounds
  <2> QED
    BY <1>0, <1>1, <1>2, <2>1
<1> QED
  BY <1>2, <1>3, RoundSteps

\* A higher block is not of an earlier round.
LEMMA RoundMonotone ==
  ASSUME RoundStateAssumption, NEW g \in Nat \ {0}, NEW h \in Nat \ {0}, g <= h
  PROVE  RoundOf(g) <= RoundOf(h)
<1>0. PerRound \in Nat
  BY PerRoundType
<1> DEFINE q == RoundOf(g)
           p == RoundOf(h)
<1>1. q \in Nat \ {0} /\ p \in Nat \ {0} /\ (q - 1) * PerRound < g /\ h <= p * PerRound
  BY RoundBounds
<1> HIDE DEF q, p
<1>2. ASSUME p <= q - 1 PROVE FALSE
  <2>1. p * PerRound <= (q - 1) * PerRound /\ p * PerRound \in Int /\ (q - 1) * PerRound \in Int
    BY <1>0, <1>1, <1>2, TimesMonotone
  <2> QED
    BY <1>1, <2>1
<1> QED
  BY <1>1, <1>2 DEF q, p

\* What decides a round is part of the chain when the round begins.
LEMMA CutWithin ==
  ASSUME RoundStateAssumption, NEW h \in Nat \ {0}, NEW r \in 1..RoundOf(h + 1)
  PROVE  Cut(r) \in 1..h
<1>0. PerRound \in Nat /\ PerRound >= 2
  BY PerRoundType
<1>1. CASE r = 1
  BY <1>1 DEF Cut
<1>2. CASE r # 1
  <2> DEFINE p == RoundOf(h + 1)
  <2>1. p \in Nat \ {0} /\ (p - 1) * PerRound < h + 1
    BY RoundBounds
  <2> HIDE DEF p
  <2>2. r \in 1..p
    BY DEF p
  <2>3. (r - 1) * PerRound <= (p - 1) * PerRound /\ (r - 1) * PerRound \in Int /\ (p - 1) * PerRound \in Int
    BY <1>0, <2>1, <2>2, TimesMonotone
  <2>4. 1 * PerRound <= (r - 1) * PerRound
    BY <1>0, <2>2, <1>2, TimesMonotone
  <2>5. Cut(r) = (r - 1) * PerRound
    BY <1>2 DEF Cut
  <2>6. 1 * PerRound = PerRound
    BY <1>0
  <2> QED
    BY <1>0, <2>1, <2>3, <2>4, <2>5, <2>6
<1> QED
  BY <1>1, <1>2

-----------------------------------------------------------------------------
(* Votes *)

\* A stretch of a chain.
LEMMA Piece ==
  ASSUME NEW c \in Seq(Validator), NEW a \in 1..(Len(c) + 1), NEW b \in (a - 1)..Len(c)
  PROVE  /\ SubSeq(c, a, b) \in Seq(Validator) /\ Len(SubSeq(c, a, b)) = b - a + 1
         /\ DOMAIN SubSeq(c, a, b) = 1..(b - a + 1)
         /\ \A i \in 1..(b - a + 1) : SubSeq(c, a, b)[i] = c[a + i - 1]
<1>1. Len(c) \in Nat /\ a \in Int /\ b \in Int /\ \A i \in a..b : c[i] \in Validator
  BY LenProperties, ElementOfSeq
<1>2. /\ SubSeq(c, a, b) \in Seq(Validator)
      /\ Len(SubSeq(c, a, b)) = IF a <= b THEN b - a + 1 ELSE 0
      /\ \A i \in 1..(b - a + 1) : SubSeq(c, a, b)[i] = c[a + i - 1]
  BY <1>1, SubSeqProperties
<1>3. Len(SubSeq(c, a, b)) = b - a + 1
  BY <1>1, <1>2
<1> QED
  BY <1>2, <1>3, LenProperties

\* The positions of v in a list of blocks.
At(blocks, v) == {i \in DOMAIN blocks : blocks[i] = v}

\* One more block.
LEMMA Appended ==
  \A c \in Seq(Validator), v \in Validator :
    /\ Append(c, v) \in Seq(Validator) /\ Len(Append(c, v)) = Len(c) + 1
    /\ Append(c, v)[Len(c) + 1] = v
    /\ \A i \in 1..Len(c) : Append(c, v)[i] = c[i]
BY AppendProperties

\* The votes for a validator are the number of its positions.
LEMMA VotesAt ==
  ASSUME NEW blocks \in Seq(Validator), NEW v \in Validator
  PROVE  /\ VotesOf(blocks)[v] = Cardinality(At(blocks, v))
         /\ IsFiniteSet(At(blocks, v))
         /\ VotesOf(blocks)[v] \in Nat
<1>0. Len(blocks) \in Nat /\ DOMAIN blocks = 1..Len(blocks)
  BY LenProperties
<1>1. IsFiniteSet(1..Len(blocks)) /\ At(blocks, v) \subseteq 1..Len(blocks)
  BY <1>0, FS_Interval DEF At
<1>2. IsFiniteSet(At(blocks, v))
  BY <1>1, FS_Subset
<1> QED
  BY <1>2, FS_CardinalityType DEF VotesOf, At

\* Votes are numbers.
LEMMA VotesType ==
  ASSUME NEW blocks \in Seq(Validator)
  PROVE  VotesOf(blocks) \in [Validator -> Nat]
BY VotesAt DEF VotesOf

\* The blocks of a chain after height k, counted apart.
LEMMA VotesSplit ==
  ASSUME NEW c \in Seq(Validator), NEW k \in 0..Len(c), NEW v \in Validator
  PROVE  VotesOf(c)[v] = VotesOf(SubSeq(c, 1, k))[v] + VotesOf(SubSeq(c, k + 1, Len(c)))[v]
<1> DEFINE low == SubSeq(c, 1, k)
           high == SubSeq(c, k + 1, Len(c))
           later == {i \in (k + 1)..Len(c) : c[i] = v}
<1>0. Len(c) \in Nat /\ DOMAIN c = 1..Len(c)
  BY LenProperties
<1>1. low \in Seq(Validator) /\ Len(low) = k /\ \A i \in 1..k : low[i] = c[i]
  BY <1>0, Piece
<1>2. high \in Seq(Validator) /\ Len(high) = Len(c) - k /\ \A i \in 1..(Len(c) - k) : high[i] = c[k + i]
  <2>1. k + 1 \in 1..(Len(c) + 1) /\ Len(c) \in ((k + 1) - 1)..Len(c)
    BY <1>0
  <2>2. /\ SubSeq(c, k + 1, Len(c)) \in Seq(Validator)
        /\ Len(SubSeq(c, k + 1, Len(c))) = Len(c) - (k + 1) + 1
        /\ \A i \in 1..(Len(c) - (k + 1) + 1) : SubSeq(c, k + 1, Len(c))[i] = c[(k + 1) + i - 1]
    BY <2>1, Piece
  <2>3. Len(c) - (k + 1) + 1 = Len(c) - k /\ \A i \in 1..(Len(c) - k) : (k + 1) + i - 1 = k + i
    BY <1>0
  <2> QED
    BY <2>2, <2>3
<1>3. DOMAIN low = 1..k /\ DOMAIN high = 1..(Len(c) - k)
  BY <1>1, <1>2, LenProperties
<1> HIDE DEF low, high
<1>4. At(c, v) = At(low, v) \cup later
  BY <1>0, <1>1, <1>3 DEF At
<1>5. At(low, v) \cap later = {}
  BY <1>0, <1>3 DEF At
<1>6. IsFiniteSet(later)
  <2>1. IsFiniteSet(1..Len(c)) /\ later \subseteq 1..Len(c)
    BY <1>0, FS_Interval
  <2> QED
    BY <2>1, FS_Subset
<1>7. Cardinality(later) = Cardinality(At(high, v)) /\ Cardinality(later) \in Nat
  <2> DEFINE f == [i \in At(high, v) |-> k + i]
  <2>1. f \in [At(high, v) -> later]
    BY <1>0, <1>2, <1>3 DEF At
  <2>2. \A i, j \in At(high, v) : f[i] = f[j] => i = j
    BY <1>0, <1>3 DEF At
  <2>3. \A i \in later : i - k \in At(high, v) /\ f[i - k] = i
    <3> SUFFICES ASSUME NEW i \in later PROVE i - k \in At(high, v) /\ f[i - k] = i
      OBVIOUS
    <3>1. i - k \in 1..(Len(c) - k) /\ k + (i - k) = i /\ c[i] = v
      BY <1>0
    <3>2. high[i - k] = v
      BY <3>1, <1>2
    <3> QED
      BY <3>1, <3>2, <1>3 DEF At
  <2>4. f \in Bijection(At(high, v), later)
    BY <2>1, <2>2, <2>3 DEF Bijection, Injection, Surjection, IsInjective
  <2>5. IsFiniteSet(At(high, v))
    BY <1>2, VotesAt
  <2> QED
    BY <2>4, <2>5, <1>6, FS_Bijection, FS_CardinalityType DEF ExistsBijection
<1>8. Cardinality(At(c, v)) = Cardinality(At(low, v)) + Cardinality(later)
  <2>1. IsFiniteSet(At(low, v))
    BY <1>1, VotesAt
  <2>2. Cardinality(At(low, v)) \in Nat
    BY <2>1, FS_CardinalityType
  <2>3. Cardinality(At(low, v) \cup later) =
          Cardinality(At(low, v)) + Cardinality(later) - Cardinality(At(low, v) \cap later)
    <3> HIDE DEF later
    <3> QED
      BY <2>1, <1>6, FS_Union
  <2>4. Cardinality(At(low, v) \cap later) = 0
    BY <1>5, FS_EmptySet
  <2> QED
    BY <2>2, <2>3, <2>4, <1>4, <1>7
<1> QED
  BY <1>1, <1>2, <1>7, <1>8, VotesAt DEF low, high

\* A block is a vote for its validator.
LEMMA VotesAppend ==
  ASSUME NEW c \in Seq(Validator), NEW v \in Validator
  PROVE  VotesOf(Append(c, v)) = [VotesOf(c) EXCEPT ![v] = @ + 1]
<1> DEFINE d == Append(c, v)
<1>0. Len(c) \in Nat /\ DOMAIN c = 1..Len(c)
  BY LenProperties
<1>1. d \in Seq(Validator) /\ Len(d) = Len(c) + 1 /\ d[Len(c) + 1] = v /\ \A i \in 1..Len(c) : d[i] = c[i]
  BY <1>0, AppendProperties
<1>2. DOMAIN d = 1..(Len(c) + 1)
  BY <1>1, LenProperties
<1> HIDE DEF d
<1>3. At(d, v) = At(c, v) \cup {Len(c) + 1} /\ Len(c) + 1 \notin At(c, v)
  BY <1>0, <1>1, <1>2 DEF At
<1>4. \A w \in Validator : w # v => At(d, w) = At(c, w)
  BY <1>0, <1>1, <1>2 DEF At
<1>5. VotesOf(d)[v] = VotesOf(c)[v] + 1
  BY <1>1, <1>3, VotesAt, FS_AddElement
<1>6. \A w \in Validator : w # v => VotesOf(d)[w] = VotesOf(c)[w]
  BY <1>1, <1>4, VotesAt
<1>7. VotesOf(c) \in [Validator -> Nat] /\ VotesOf(d) \in [Validator -> Nat]
  BY <1>1, VotesType
<1> QED
  BY <1>5, <1>6, <1>7 DEF d

\* What is left of a chain when its last block is taken back.
LEMMA ChainFront ==
  ASSUME NEW c \in Seq(Validator), Len(c) >= 2
  PROVE  /\ Front(c) \in Seq(Validator) /\ Len(Front(c)) = Len(c) - 1 /\ Last(c) \in Validator
         /\ c = Append(Front(c), Last(c)) /\ \A i \in 1..(Len(c) - 1) : Front(c)[i] = c[i]
<1>0. Len(c) \in Nat /\ DOMAIN c = 1..Len(c)
  BY LenProperties
<1>1. 1 \in 1..(Len(c) + 1) /\ Len(c) - 1 \in (1 - 1)..Len(c) /\ Len(c) \in 1..Len(c)
  BY <1>0
<1>2. Front(c) \in Seq(Validator) /\ Len(Front(c)) = Len(c) - 1 - 1 + 1
      /\ \A i \in 1..(Len(c) - 1 - 1 + 1) : Front(c)[i] = c[1 + i - 1]
  BY <1>1, Piece DEF Front
<1>3. Len(Front(c)) = Len(c) - 1 /\ \A i \in 1..(Len(c) - 1) : Front(c)[i] = c[i]
  BY <1>0, <1>2
<1>4. Last(c) \in Validator
  BY <1>1, ElementOfSeq DEF Last
<1> DEFINE y == Append(Front(c), Last(c))
<1>5. /\ y \in Seq(Validator) /\ Len(y) = Len(Front(c)) + 1 /\ y[Len(Front(c)) + 1] = Last(c)
      /\ \A i \in 1..Len(Front(c)) : y[i] = Front(c)[i]
  BY <1>2, <1>4, Appended, Zenon
<1> HIDE DEF y
<1>6. Len(y) = Len(c) /\ \A i \in 1..Len(y) : y[i] = c[i]
  BY <1>0, <1>3, <1>5 DEF Last
<1>7. y = c
  BY <1>5, <1>6, SeqEqual
<1> QED
  BY <1>2, <1>3, <1>4, <1>7 DEF y

\* Taking back the last block takes back its vote.
LEMMA VotesFront ==
  ASSUME NEW c \in Seq(Validator), Len(c) >= 2
  PROVE  /\ Front(c) \in Seq(Validator) /\ Len(Front(c)) = Len(c) - 1
         /\ Last(c) \in Validator
         /\ VotesOf(Front(c)) = [VotesOf(c) EXCEPT ![Last(c)] = @ - 1]
<1>1. Front(c) \in Seq(Validator) /\ Len(Front(c)) = Len(c) - 1 /\ Last(c) \in Validator /\ c = Append(Front(c), Last(c))
  BY ChainFront
<1>4. VotesOf(c) = [VotesOf(Front(c)) EXCEPT ![Last(c)] = @ + 1]
  BY <1>1, VotesAppend
<1>5. VotesOf(Front(c)) \in [Validator -> Nat]
  BY <1>1, VotesType
<1>6. VotesOf(Front(c)) = [VotesOf(c) EXCEPT ![Last(c)] = @ - 1]
  <2> DEFINE f == VotesOf(Front(c))
             l == Last(c)
  <2>1. f \in [Validator -> Nat] /\ l \in Validator /\ VotesOf(c) = [f EXCEPT ![l] = @ + 1]
    BY <1>1, <1>4, <1>5
  <2> HIDE DEF f, l
  <2>2. \A w \in Validator : [[f EXCEPT ![l] = @ + 1] EXCEPT ![l] = @ - 1][w] = f[w]
    BY <2>1
  <2>3. DOMAIN [[f EXCEPT ![l] = @ + 1] EXCEPT ![l] = @ - 1] = Validator /\ DOMAIN f = Validator
    BY <2>1
  <2>4. f = [[f EXCEPT ![l] = @ + 1] EXCEPT ![l] = @ - 1]
    BY <2>1, <2>2, <2>3
  <2> QED
    BY <2>1, <2>4 DEF f, l
<1> QED
  BY <1>1, <1>6

-----------------------------------------------------------------------------
(* Orders *)

\* A strict total order of S.
Orders(R, S) ==
  /\ \A x \in S : <<x, x>> \notin R
  /\ \A x, y, z \in S : <<x, y>> \in R /\ <<y, z>> \in R => <<x, z>> \in R
  /\ \A x, y \in S : x # y => <<x, y>> \in R \/ <<y, x>> \in R

\* A list as long as a set, without repetitions, lists the set.
LEMMA ListsAll ==
  ASSUME NEW S, IsFiniteSet(S), NEW s \in [1..Cardinality(S) -> S], IsInjective(s)
  PROVE  s \in Seq(S) /\ Len(s) = Cardinality(S) /\ ToSet(s) = S
<1>0. Cardinality(S) \in Nat
  BY FS_CardinalityType
<1>1. s \in Seq(S) /\ Len(s) = Cardinality(S)
  BY <1>0, SeqDef
<1>2. s \in Injection(1..Cardinality(S), S)
  BY DEF Injection, IsInjective
<1>3. Cardinality(1..Cardinality(S)) = Cardinality(S)
  BY <1>0, FS_Interval
<1>4. s \in Surjection(1..Cardinality(S), S)
  BY <1>2, <1>3, FS_Injection
<1>5. ToSet(s) = S
  BY <1>4 DEF ToSet, Surjection
<1> QED
  BY <1>1, <1>5

\* The elements of S before x.
Below(R, S, x) == {y \in S : <<y, x>> \in R}

\* A finite set in a total order has its sorted list: the place of an element
\* is one more than the number of those before it.
LEMMA SortedLists ==
  ASSUME NEW S, IsFiniteSet(S), NEW R, Orders(R, S)
  PROVE  /\ Sorted(S, R) \in Seq(S) /\ Len(Sorted(S, R)) = Cardinality(S)
         /\ IsInjective(Sorted(S, R)) /\ ToSet(Sorted(S, R)) = S
<1> DEFINE n == Cardinality(S)
           rank == [x \in S |-> Cardinality(Below(R, S, x)) + 1]
           s == [i \in 1..n |-> CHOOSE x \in S : rank[x] = i]
<1>0. n \in Nat /\ IsFiniteSet(1..n) /\ Cardinality(1..n) = n
  BY FS_CardinalityType, FS_Interval
<1>1. \A x \in S : IsFiniteSet(Below(R, S, x)) /\ Cardinality(Below(R, S, x)) \in Nat /\ Cardinality(Below(R, S, x)) < n
  <2> SUFFICES ASSUME NEW x \in S
               PROVE  IsFiniteSet(Below(R, S, x)) /\ Cardinality(Below(R, S, x)) \in Nat /\ Cardinality(Below(R, S, x)) < n
    OBVIOUS
  <2>1. Below(R, S, x) \subseteq S \ {x}
    BY DEF Orders, Below
  <2>2. IsFiniteSet(S \ {x}) /\ Cardinality(S \ {x}) = n - 1
    BY FS_RemoveElement
  <2>3. IsFiniteSet(Below(R, S, x)) /\ Cardinality(Below(R, S, x)) <= n - 1
    <3> DEFINE B == Below(R, S, x)
    <3>1. B \in SUBSET (S \ {x})
      BY <2>1
    <3> HIDE DEF B, n
    <3>2. IsFiniteSet(B) /\ Cardinality(B) <= Cardinality(S \ {x})
      BY <2>2, <3>1, FS_Subset
    <3> QED BY <2>2, <3>2 DEF B
  <2>4. Cardinality(Below(R, S, x)) \in Nat
    BY <2>3, FS_CardinalityType
  <2> HIDE DEF n
  <2> QED
    BY <1>0, <2>3, <2>4
<1>2. \A x, y \in S : <<y, x>> \in R => rank[y] < rank[x]
  <2> SUFFICES ASSUME NEW x \in S, NEW y \in S, <<y, x>> \in R
               PROVE  Cardinality(Below(R, S, y)) < Cardinality(Below(R, S, x))
    BY <1>1
  <2>1. Below(R, S, y) \subseteq Below(R, S, x) /\ y \in Below(R, S, x) /\ y \notin Below(R, S, y)
    BY DEF Orders, Below
  <2>2. Below(R, S, y) # Below(R, S, x) /\ Below(R, S, y) \in SUBSET Below(R, S, x)
    BY <2>1
  <2>a. IsFiniteSet(Below(R, S, x))
    BY <1>1
  <2>3. Cardinality(Below(R, S, y)) <= Cardinality(Below(R, S, x)) /\ Cardinality(Below(R, S, y)) # Cardinality(Below(R, S, x))
    <3> DEFINE B == Below(R, S, x)
               A == Below(R, S, y)
    <3>1. A \in SUBSET B /\ A # B /\ IsFiniteSet(B)
      BY <2>2, <2>a
    <3> HIDE DEF A, B
    <3>2. Cardinality(A) <= Cardinality(B) /\ Cardinality(A) # Cardinality(B)
      BY <3>1, FS_Subset
    <3> QED BY <3>2 DEF A, B
  <2> QED
    BY <1>1, <2>3
<1>3. rank \in [S -> 1..n]
  <2> HIDE DEF n
  <2> QED
    BY <1>0, <1>1
<1> HIDE DEF rank
<1>4. \A x, y \in S : rank[x] = rank[y] => x = y
  <2>1. \A x \in S : rank[x] \in Nat
    BY <1>0, <1>3
  <2> SUFFICES ASSUME NEW x \in S, NEW y \in S, rank[x] = rank[y], x # y PROVE FALSE
    OBVIOUS
  <2>2. <<x, y>> \in R \/ <<y, x>> \in R
    BY DEF Orders
  <2>3. rank[x] < rank[y] \/ rank[y] < rank[x]
    BY <1>2, <2>2
  <2> QED
    BY <2>1, <2>3
<1>5. rank \in Injection(S, 1..n)
  BY <1>3, <1>4 DEF Injection, IsInjective
<1>6. rank \in Surjection(S, 1..n)
  BY <1>0, <1>5, FS_Injection
<1>7. \A i \in 1..n : s[i] \in S /\ rank[s[i]] = i
  BY <1>6 DEF Surjection
<1>8. s \in [1..n -> S] /\ DOMAIN s = 1..n
  BY <1>7
<1> HIDE DEF s
<1>9. IsInjective(s)
  BY <1>7, <1>8 DEF IsInjective
<1>10. \A i, j \in DOMAIN s : i < j => <<s[i], s[j]>> \in R
  <2> SUFFICES ASSUME NEW i \in 1..n, NEW j \in 1..n, i < j PROVE <<s[i], s[j]>> \in R
    BY <1>8
  <2>1. s[i] # s[j] /\ s[i] \in S /\ s[j] \in S
    BY <1>7, <1>0
  <2>2. <<s[j], s[i]>> \notin R
    BY <1>0, <1>2, <1>7
  <2> QED
    BY <2>1, <2>2 DEF Orders
<1> DEFINE Lists(t) == IsInjective(t) /\ \A i, j \in DOMAIN t : i < j => <<t[i], t[j]>> \in R
<1>11. Sorted(S, R) = CHOOSE t \in [1..n -> S] : Lists(t)
  BY DEF Sorted
<1>12. Lists(s)
  BY <1>9, <1>10
<1> HIDE DEF Lists
<1>13. Sorted(S, R) \in [1..n -> S] /\ Lists(Sorted(S, R))
  BY <1>8, <1>11, <1>12
<1>14. IsInjective(Sorted(S, R))
  BY <1>13 DEF Lists
<1> QED
  BY <1>13, <1>14, ListsAll

\* Public keys, and vote balances before them, put the validators in an order.
LEMMA KeysOrder ==
  ASSUME RoundStateAssumption
  PROVE  Orders({p \in Validator \X Validator : KeyBefore(p[1], p[2])}, Validator)
<1>0. Len(KeyOrder) \in Nat /\ DOMAIN KeyOrder = 1..Len(KeyOrder)
  BY LenProperties DEF RoundStateAssumption
<1>1. \A v \in Validator : \E i \in DOMAIN KeyOrder : KeyOrder[i] = v
  BY DEF RoundStateAssumption, ToSet
<1>2. \A i, j \in DOMAIN KeyOrder : KeyOrder[i] = KeyOrder[j] => i = j
  BY DEF RoundStateAssumption, IsInjective
<1>3. \A x \in Validator : ~KeyBefore(x, x)
  BY <1>0, <1>2 DEF KeyBefore
<1>4. ASSUME NEW x \in Validator, NEW y \in Validator, NEW z \in Validator, KeyBefore(x, y), KeyBefore(y, z)
      PROVE  KeyBefore(x, z)
  <2>1. PICK i, j \in DOMAIN KeyOrder : i < j /\ KeyOrder[i] = x /\ KeyOrder[j] = y
    BY <1>4 DEF KeyBefore
  <2>2. PICK k, l \in DOMAIN KeyOrder : k < l /\ KeyOrder[k] = y /\ KeyOrder[l] = z
    BY <1>4 DEF KeyBefore
  <2>3. i < l
    BY <1>0, <1>2, <2>1, <2>2
  <2> QED
    BY <2>1, <2>2, <2>3 DEF KeyBefore
<1>5. ASSUME NEW x \in Validator, NEW y \in Validator, x # y
      PROVE  KeyBefore(x, y) \/ KeyBefore(y, x)
  <2>1. PICK i \in DOMAIN KeyOrder : KeyOrder[i] = x
    BY <1>1
  <2>2. PICK j \in DOMAIN KeyOrder : KeyOrder[j] = y
    BY <1>1
  <2>3. i < j \/ j < i
    BY <1>0, <1>5, <2>1, <2>2
  <2> QED
    BY <2>1, <2>2, <2>3 DEF KeyBefore
<1> DEFINE R == {p \in Validator \X Validator : KeyBefore(p[1], p[2])}
<1>6. \A x, y \in Validator : <<x, y>> \in R <=> KeyBefore(x, y)
  OBVIOUS
<1> HIDE DEF R
<1>7. Orders(R, Validator)
  BY <1>3, <1>4, <1>5, <1>6 DEF Orders
<1> QED
  BY <1>7 DEF R

\* Vote balances, and public keys where they are equal, put them in an order.
LEMMA BalancesOrder ==
  ASSUME RoundStateAssumption, NEW balance \in [Validator -> Nat]
  PROVE  Orders({p \in Validator \X Validator : Better(balance, p[1], p[2])}, Validator)
<1> DEFINE R == {p \in Validator \X Validator : Better(balance, p[1], p[2])}
           K == {p \in Validator \X Validator : KeyBefore(p[1], p[2])}
<1>1. Orders(K, Validator)
  BY KeysOrder
<1>2. \A x, y \in Validator : <<x, y>> \in K <=> KeyBefore(x, y)
  OBVIOUS
<1>3. \A x, y \in Validator :
        <<x, y>> \in R <=> balance[x] > balance[y] \/ (balance[x] = balance[y] /\ <<x, y>> \in K)
  BY <1>2 DEF Better
<1>4. \A x \in Validator : balance[x] \in Nat
  OBVIOUS
<1> HIDE DEF R, K
<1>5. ASSUME NEW x \in Validator PROVE <<x, x>> \notin R
  <2>1. <<x, x>> \notin K
    BY <1>1 DEF Orders
  <2>2. ~(balance[x] > balance[x])
    BY <1>4
  <2> QED
    BY <1>3, <2>1, <2>2
<1>6. ASSUME NEW x \in Validator, NEW y \in Validator, NEW z \in Validator, <<x, y>> \in R, <<y, z>> \in R
      PROVE  <<x, z>> \in R
  <2>1. balance[x] >= balance[y] /\ balance[y] >= balance[z]
    BY <1>3, <1>4, <1>6
  <2>2. CASE balance[x] = balance[y] /\ balance[y] = balance[z]
    <3>1. <<x, y>> \in K /\ <<y, z>> \in K
      BY <1>3, <1>4, <1>6, <2>2
    <3>2. <<x, z>> \in K
      BY <1>1, <3>1 DEF Orders
    <3> QED
      BY <1>3, <2>2, <3>2
  <2>3. CASE ~(balance[x] = balance[y] /\ balance[y] = balance[z])
    BY <1>3, <1>4, <2>1, <2>3
  <2> QED
    BY <2>2, <2>3
<1>7. ASSUME NEW x \in Validator, NEW y \in Validator, x # y
      PROVE  <<x, y>> \in R \/ <<y, x>> \in R
  <2>1. <<x, y>> \in K \/ <<y, x>> \in K
    BY <1>1, <1>7 DEF Orders
  <2> QED
    BY <1>3, <1>4, <2>1
<1>8. Orders(R, Validator)
  BY <1>5, <1>6, <1>7 DEF Orders
<1> QED
  BY <1>8 DEF R

\* A round has as many validators as forge.
LEMMA RoundValidatorsType ==
  ASSUME RoundStateAssumption, NEW balance \in [Validator -> Nat]
  PROVE  /\ RoundValidators(balance) \in Seq(Validator)
         /\ Len(RoundValidators(balance)) = PerRound
         /\ RoundValidators(balance) # <<>>
<1>0. PerRound \in Nat /\ PerRound >= 2 /\ PerRound <= Cardinality(Validator) /\ Cardinality(Validator) \in Nat
  BY PerRoundType
<1>1. Ranking(balance) \in Seq(Validator) /\ Len(Ranking(balance)) = Cardinality(Validator)
  <2> DEFINE R == {p \in Validator \X Validator : Better(balance, p[1], p[2])}
  <2>1. Orders(R, Validator) /\ IsFiniteSet(Validator)
    BY BalancesOrder DEF RoundStateAssumption
  <2>2. Ranking(balance) = Sorted(Validator, R)
    BY DEF Ranking
  <2> HIDE DEF R
  <2> QED
    BY <2>1, <2>2, SortedLists
<1>2. RoundValidators(balance) \in Seq(Validator) /\ Len(RoundValidators(balance)) = PerRound - 1 + 1
  <2>1. 1 \in 1..(Len(Ranking(balance)) + 1) /\ PerRound \in (1 - 1)..Len(Ranking(balance))
    BY <1>0, <1>1
  <2> QED
    BY <1>1, <2>1, Piece DEF RoundValidators
<1> QED
  BY <1>0, <1>2, EmptySeq

-----------------------------------------------------------------------------
(* The rounds a chain decides *)

\* The validators of round r in a chain, and the rows of its first rounds.
DecidedIn(c, r) == RoundValidators(VotesOf(SubSeq(c, 1, Cut(r))))
Row(c, r) == [round |-> r, validators |-> DecidedIn(c, r)]
Rows(c, k) == {Row(c, r) : r \in 1..k}

\* Every round up to the next block's is decided: as many validators as forge.
LEMMA DecidedType ==
  ASSUME RoundStateAssumption, NEW c \in Seq(Validator), Len(c) >= 1, NEW r \in 1..RoundOf(Len(c) + 1)
  PROVE  /\ DecidedIn(c, r) \in Seq(Validator) /\ DecidedIn(c, r) # <<>>
         /\ Len(DecidedIn(c, r)) = PerRound
<1>1. Len(c) \in Nat \ {0}
  BY LenProperties
<1>2. Cut(r) \in 1..Len(c)
  BY <1>1, CutWithin
<1>3. 1 \in 1..(Len(c) + 1) /\ Cut(r) \in (1 - 1)..Len(c)
  BY <1>1, <1>2
<1>4. SubSeq(c, 1, Cut(r)) \in Seq(Validator)
  BY <1>3, Piece
<1>5. VotesOf(SubSeq(c, 1, Cut(r))) \in [Validator -> Nat]
  BY <1>4, VotesType
<1> QED
  BY <1>5, RoundValidatorsType DEF DecidedIn

\* Chains that agree up to a height decide the same rounds up to the next height's.
LEMMA DecidedSame ==
  ASSUME RoundStateAssumption, NEW c \in Seq(Validator), NEW d \in Seq(Validator),
         NEW m \in 1..Len(c), m <= Len(d), \A i \in 1..m : c[i] = d[i],
         NEW k \in Nat, k <= RoundOf(m + 1)
  PROVE  /\ \A r \in 1..k : DecidedIn(c, r) = DecidedIn(d, r)
         /\ Rows(c, k) = Rows(d, k)
<1>0. Len(c) \in Nat /\ Len(d) \in Nat /\ m \in Nat \ {0} /\ RoundOf(m + 1) \in Nat
  <2>1. Len(c) \in Nat /\ Len(d) \in Nat
    BY LenProperties
  <2>2. m \in Nat \ {0} /\ m + 1 \in Nat \ {0}
    BY <2>1
  <2> QED
    BY <2>1, <2>2, RoundBounds
<1>1. ASSUME NEW r \in 1..k PROVE DecidedIn(c, r) = DecidedIn(d, r)
  <2>1. r \in 1..RoundOf(m + 1)
    BY <1>0
  <2>2. Cut(r) \in 1..m
    BY <1>0, <2>1, CutWithin
  <2>3. Cut(r) \in Nat /\ Cut(r) \in (1 - 1)..Len(c) /\ Cut(r) \in (1 - 1)..Len(d) /\ 1 \in 1..(Len(c) + 1)
        /\ 1 \in 1..(Len(d) + 1) /\ Cut(r) <= m
    BY <1>0, <2>2
  <2> DEFINE a == SubSeq(c, 1, Cut(r))
             b == SubSeq(d, 1, Cut(r))
  <2>4. a \in Seq(Validator) /\ Len(a) = Cut(r) - 1 + 1 /\ \A i \in 1..(Cut(r) - 1 + 1) : a[i] = c[1 + i - 1]
    BY <2>3, Piece
  <2>5. b \in Seq(Validator) /\ Len(b) = Cut(r) - 1 + 1 /\ \A i \in 1..(Cut(r) - 1 + 1) : b[i] = d[1 + i - 1]
    BY <2>3, Piece
  <2> HIDE DEF a, b
  <2>6. ASSUME NEW i \in 1..Len(a) PROVE a[i] = b[i]
    <3>1. i \in 1..(Cut(r) - 1 + 1) /\ 1 + i - 1 = i /\ i \in 1..m
      BY <1>0, <2>3, <2>4
    <3>2. a[i] = c[i] /\ b[i] = d[i] /\ c[i] = d[i]
      BY <3>1, <2>4, <2>5
    <3> QED
      BY <3>2
  <2>7. a = b
    BY <2>4, <2>5, <2>6, SeqEqual
  <2> QED
    BY <2>7 DEF DecidedIn, a, b
<1>2. \A r \in 1..k : Row(c, r) = Row(d, r)
  BY <1>1 DEF Row
<1> QED
  BY <1>1, <1>2 DEF Rows

\* Rows that are deleted, and one that is saved.
LEMMA RowsDeleted ==
  ASSUME NEW c, NEW k \in Nat, NEW r \in Nat, r <= k
  PROVE  DeleteRound(Rows(c, k), r + 1) = Rows(c, r)
<1>1. \A q \in 1..k : Row(c, q).round = q
  BY DEF Row
<1>2. \A e : e \in Rows(c, k) /\ e.round < r + 1 <=> e \in Rows(c, r)
  <2> SUFFICES ASSUME NEW e PROVE e \in Rows(c, k) /\ e.round < r + 1 <=> e \in Rows(c, r)
    OBVIOUS
  <2>1. ASSUME e \in Rows(c, k), e.round < r + 1 PROVE e \in Rows(c, r)
    <3>1. PICK q \in 1..k : e = Row(c, q)
      BY <2>1 DEF Rows
    <3>2. q \in 1..r
      BY <1>1, <2>1, <3>1
    <3> QED
      BY <3>1, <3>2 DEF Rows
  <2>2. ASSUME e \in Rows(c, r) PROVE e \in Rows(c, k) /\ e.round < r + 1
    <3>1. PICK q \in 1..r : e = Row(c, q)
      BY <2>2 DEF Rows
    <3>2. q \in 1..k
      OBVIOUS
    <3>3. e.round < r + 1
      BY <1>1, <3>1, <3>2
    <3> QED
      BY <3>1, <3>2, <3>3 DEF Rows
  <2> QED
    BY <2>1, <2>2
<1> QED
  BY <1>2 DEF DeleteRound

\* A row that is saved is one round more; one that is there is kept.
LEMMA RowsSaved ==
  ASSUME NEW c, NEW k \in Nat
  PROVE  /\ SaveRound(Rows(c, k), k + 1, DecidedIn(c, k + 1)) = Rows(c, k + 1)
         /\ k >= 1 => \A order : SaveRound(Rows(c, k), k, order) = Rows(c, k)
<1>1. \A q \in 1..k : Row(c, q).round = q
  BY DEF Row
<1>2. ~\E e \in Rows(c, k) : e.round = k + 1
  BY <1>1 DEF Rows
<1>3. Rows(c, k) \cup {Row(c, k + 1)} = Rows(c, k + 1)
  <2>1. 1..(k + 1) = (1..k) \cup {k + 1}
    OBVIOUS
  <2> QED
    BY <2>1 DEF Rows
<1>4. k >= 1 => \E e \in Rows(c, k) : e.round = k
  <2>1. k >= 1 => k \in 1..k
    OBVIOUS
  <2> QED
    BY <1>1, <2>1 DEF Rows
<1>5. [round |-> k + 1, validators |-> DecidedIn(c, k + 1)] = Row(c, k + 1)
  BY DEF Row
<1> QED
  BY <1>2, <1>3, <1>4, <1>5 DEF SaveRound

\* What a restart reads of a round are its validators.
LEMMA StoredOrderOf ==
  ASSUME RoundStateAssumption, NEW c \in Seq(Validator), NEW k \in Nat, NEW r \in 1..k,
         disk.rounds = Rows(c, k), DecidedIn(c, r) \in Seq(Validator), DecidedIn(c, r) # <<>>
  PROVE  /\ StoredOrder(r) \in Seq(Validator) /\ StoredOrder(r) # <<>>
         /\ ToSet(StoredOrder(r)) = ToSet(DecidedIn(c, r))
<1> DEFINE S == {v \in Validator : \E e \in disk.rounds : e.round = r /\ v \in ToSet(e.validators)}
           D == ToSet(DecidedIn(c, r))
           K == {p \in Validator \X Validator : KeyBefore(p[1], p[2])}
<1>1. \A q \in 1..k : Row(c, q).round = q /\ Row(c, q).validators = DecidedIn(c, q)
  BY DEF Row
<1>2. D \subseteq Validator /\ D # {}
  <2>1. Len(DecidedIn(c, r)) \in Nat \ {0} /\ DOMAIN DecidedIn(c, r) = 1..Len(DecidedIn(c, r))
    BY EmptySeq, LenProperties
  <2>2. 1 \in DOMAIN DecidedIn(c, r)
    BY <2>1
  <2>3. \A i \in DOMAIN DecidedIn(c, r) : DecidedIn(c, r)[i] \in Validator
    BY <2>1, ElementOfSeq
  <2> QED
    BY <2>2, <2>3 DEF ToSet
<1> HIDE DEF D
<1>3. \A v : v \in S <=> v \in D
  <2>1. \A e \in disk.rounds : e.round = r => e.validators = DecidedIn(c, r)
    BY <1>1 DEF Rows
  <2>2. Row(c, r) \in disk.rounds /\ Row(c, r).round = r /\ Row(c, r).validators = DecidedIn(c, r)
    BY <1>1 DEF Rows
  <2> QED
    BY <1>2, <2>1, <2>2 DEF D
<1>4. StoredOrder(r) = Sorted(S, K)
  BY DEF StoredOrder
<1> HIDE DEF S, K
<1>5. S = D
  BY <1>3
<1>6. Orders(K, Validator)
  BY KeysOrder DEF K
<1>7. Orders(K, S)
  BY <1>2, <1>5, <1>6 DEF Orders
<1>8. IsFiniteSet(S)
  BY <1>2, <1>5, FS_Subset DEF RoundStateAssumption
<1>9. StoredOrder(r) \in Seq(S) /\ ToSet(StoredOrder(r)) = S
  BY <1>4, <1>7, <1>8, SortedLists
<1>10. StoredOrder(r) \in Seq(Validator)
  BY <1>2, <1>5, <1>9, SeqMonotonic
<1>11. StoredOrder(r) # <<>>
  <2>1. ToSet(<<>>) = {}
    BY DEF ToSet
  <2> QED
    BY <1>2, <1>5, <1>9, <2>1
<1> QED
  BY <1>5, <1>9, <1>10, <1>11 DEF D

\* Where no round is stored, nobody is read.
LEMMA NothingStored ==
  ASSUME disk.rounds = {}, NEW r
  PROVE  StoredOrder(r) = <<>>
<1> DEFINE S == {v \in Validator : \E e \in disk.rounds : e.round = r /\ v \in ToSet(e.validators)}
           K == {p \in Validator \X Validator : KeyBefore(p[1], p[2])}
<1>1. S = {}
  OBVIOUS
<1>2. StoredOrder(r) = Sorted(S, K)
  BY DEF StoredOrder
<1> HIDE DEF S, K
<1>3. Orders(K, S) /\ IsFiniteSet(S) /\ Cardinality(S) = 0
  BY <1>1, FS_EmptySet DEF Orders
<1>4. StoredOrder(r) \in Seq(S) /\ Len(StoredOrder(r)) = 0
  BY <1>2, <1>3, SortedLists
<1> QED
  BY <1>4, EmptySeq

-----------------------------------------------------------------------------
(* The blocks of a round *)

\* Since the round of the next block began.
Since(c) == SubSeq(c, RoundHeight(Len(c) + 1), Len(c))

\* The blocks since the round began are those of the last block's round, unless
\* it ended one: then there are none.
LEMMA SinceNow ==
  ASSUME RoundStateAssumption, NEW c \in Seq(Validator), Len(c) >= 1
  PROVE  /\ Since(c) \in Seq(Validator) /\ BlocksForRound(c) \in Seq(Validator)
         /\ Len(BlocksForRound(c)) = Len(c) - RoundHeight(Len(c)) + 1
         /\ IsLastOfRound(Len(c)) => Since(c) = <<>> /\ Len(BlocksForRound(c)) >= 2
         /\ ~IsLastOfRound(Len(c)) => Since(c) = BlocksForRound(c)
<1> DEFINE h == Len(c)
<1>0. h \in Nat \ {0}
  BY LenProperties
<1> HIDE DEF h
<1>1. RoundHeight(h) \in 1..h /\ (IsLastOfRound(h) => RoundHeight(h + 1) = h + 1 /\ RoundHeight(h) < h)
      /\ (~IsLastOfRound(h) => RoundHeight(h + 1) = RoundHeight(h))
  BY <1>0, RoundSteps
<1>2. RoundHeight(h) \in 1..(h + 1) /\ RoundHeight(h + 1) \in 1..(h + 1)
  BY <1>0, <1>1
<1>3. h \in (RoundHeight(h) - 1)..h /\ h \in (RoundHeight(h + 1) - 1)..h
  BY <1>0, <1>2
<1>4. BlocksForRound(c) = SubSeq(c, RoundHeight(h), h) /\ Since(c) = SubSeq(c, RoundHeight(h + 1), h)
  BY DEF BlocksForRound, Since, h
<1>5. BlocksForRound(c) \in Seq(Validator) /\ Len(BlocksForRound(c)) = h - RoundHeight(h) + 1
  BY <1>2, <1>3, <1>4, Piece DEF h
<1>6. Since(c) \in Seq(Validator) /\ Len(Since(c)) = h - RoundHeight(h + 1) + 1
  BY <1>2, <1>3, <1>4, Piece DEF h
<1>7. IsLastOfRound(h) => Len(Since(c)) = 0 /\ Len(BlocksForRound(c)) >= 2
  BY <1>0, <1>1, <1>5, <1>6
<1> QED
  BY <1>1, <1>4, <1>5, <1>6, <1>7, EmptySeq DEF h

\* A new block is added to them; they are the blocks of its round.
LEMMA SinceAppended ==
  ASSUME RoundStateAssumption, NEW c \in Seq(Validator), Len(c) >= 1, NEW v \in Validator
  PROVE  BlocksForRound(Append(c, v)) = Append(Since(c), v)
<1> DEFINE h == Len(c)
           d == Append(c, v)
           s == RoundHeight(h + 1)
           x == BlocksForRound(d)
           y == Append(Since(c), v)
<1>0. h \in Nat \ {0} /\ h + 1 \in Nat \ {0}
  BY LenProperties
<1>1. d \in Seq(Validator) /\ Len(d) = h + 1 /\ d[h + 1] = v /\ \A i \in 1..h : d[i] = c[i]
  BY Appended
<1> HIDE DEF d
<1>2. s \in 1..(h + 1)
  BY <1>0, RoundSteps
<1> HIDE DEF s
<1>3. s \in 1..(Len(d) + 1) /\ Len(d) \in (s - 1)..Len(d) /\ h \in (s - 1)..h
  BY <1>0, <1>1, <1>2
<1>4. x = SubSeq(d, s, Len(d))
  BY <1>1 DEF BlocksForRound, s
<1>5. Since(c) = SubSeq(c, s, h)
  BY DEF Since, s
<1>6. /\ x \in Seq(Validator) /\ Len(x) = h + 1 - s + 1
      /\ \A i \in 1..(h + 1 - s + 1) : x[i] = d[s + i - 1]
  BY <1>1, <1>3, <1>4, Piece
<1>7. /\ Since(c) \in Seq(Validator) /\ Len(Since(c)) = h - s + 1
      /\ \A i \in 1..(h - s + 1) : Since(c)[i] = c[s + i - 1]
  BY <1>2, <1>3, <1>5, Piece
<1>8. /\ y \in Seq(Validator) /\ Len(y) = h - s + 1 + 1 /\ y[h - s + 1 + 1] = v
      /\ \A i \in 1..(h - s + 1) : y[i] = Since(c)[i]
  BY <1>7, Appended
<1> HIDE DEF x, y, h
<1>9. ASSUME NEW i \in 1..Len(x) PROVE x[i] = y[i]
  <2>1. CASE i \in 1..(h - s + 1)
    <3>1. i \in 1..(h + 1 - s + 1) /\ s + i - 1 \in 1..h
      BY <1>0, <1>2, <2>1
    <3> QED
      BY <3>1, <2>1, <1>1, <1>6, <1>7, <1>8
  <2>2. CASE i = h - s + 1 + 1
    <3>1. i \in 1..(h + 1 - s + 1) /\ s + i - 1 = h + 1
      BY <1>0, <1>2, <2>2
    <3> QED
      BY <3>1, <2>2, <1>1, <1>6, <1>8
  <2> QED
    BY <1>0, <1>2, <1>6, <2>1, <2>2
<1>10. Len(x) = Len(y)
  BY <1>0, <1>2, <1>6, <1>8
<1> QED
  BY <1>6, <1>8, <1>9, <1>10, SeqEqual DEF x, y, d

\* Appending and taking back again, and both behind the first block.
LEMMA AppendFront ==
  ASSUME NEW s \in Seq(Validator), NEW v \in Validator
  PROVE  /\ Front(Append(s, v)) = s
         /\ s # <<>> => Tail(Append(s, v)) = Append(Tail(s), v) /\ Tail(s) \in Seq(Validator)
<1> DEFINE t == Append(s, v)
           f == Front(t)
<1>0. Len(s) \in Nat
  BY LenProperties
<1>1. t \in Seq(Validator) /\ Len(t) = Len(s) + 1 /\ \A i \in 1..Len(s) : t[i] = s[i]
  BY Appended
<1> HIDE DEF t
<1>2. 1 \in 1..(Len(t) + 1) /\ Len(s) \in (1 - 1)..Len(t) /\ Len(t) - 1 = Len(s)
  BY <1>0, <1>1
<1>3. f \in Seq(Validator) /\ Len(f) = Len(s) - 1 + 1 /\ \A i \in 1..(Len(s) - 1 + 1) : f[i] = t[1 + i - 1]
  BY <1>1, <1>2, Piece DEF Front
<1> HIDE DEF f
<1>4. Len(f) = Len(s) /\ \A i \in 1..Len(f) : f[i] = s[i]
  BY <1>0, <1>1, <1>3
<1>5. f = s
  BY <1>3, <1>4, SeqEqual
<1>6. s # <<>> => Tail(t) = Append(Tail(s), v) /\ Tail(s) \in Seq(Validator)
  BY DEF t
<1> QED
  BY <1>5, <1>6 DEF f, t

\* The blocks of the round of the last block, without it.
LEMMA SinceFront ==
  ASSUME RoundStateAssumption, NEW c \in Seq(Validator), Len(c) >= 2
  PROVE  /\ BlocksForRound(c) = Append(Since(Front(c)), Last(c))
         /\ Front(BlocksForRound(c)) = Since(Front(c))
<1>1. Front(c) \in Seq(Validator) /\ Len(Front(c)) >= 1 /\ Last(c) \in Validator /\ c = Append(Front(c), Last(c))
  <2>1. Len(c) \in Nat
    BY LenProperties
  <2> QED
    BY <2>1, ChainFront
<1>2. BlocksForRound(c) = Append(Since(Front(c)), Last(c))
  BY <1>1, SinceAppended
<1>3. Since(Front(c)) \in Seq(Validator)
  BY <1>1, SinceNow
<1> QED
  BY <1>1, <1>2, <1>3, AppendFront

-----------------------------------------------------------------------------
(* The invariant *)

\* The records that actions write.
Forging == [round : Nat, order : Seq(Validator)]
Kept == [blocks : Seq(Validator), forging : Forging]

\* The blocks of the round change without its validators.
LEMMA RoundRecord ==
  ASSUME NEW rd \in Kept, NEW x
  PROVE  [rd EXCEPT !.blocks = x] = [blocks |-> x, forging |-> rd.forging] /\ rd.blocks \in Seq(Validator) /\ rd.forging \in Forging
BY DEF Kept

\* The rounds or the blocks of the database change alone.
LEMMA DiskRecord ==
  ASSUME NEW dk, dk = [chain |-> dk.chain, rounds |-> dk.rounds], NEW x
  PROVE  /\ [dk EXCEPT !.rounds = x] = [chain |-> dk.chain, rounds |-> x]
         /\ [dk EXCEPT !.chain = x] = [chain |-> x, rounds |-> dk.rounds]
OBVIOUS

NextRound(c) == RoundOf(Len(c) + 1)

Phases == {"apply", "save", "revertOne", "revertAll", "down"}

Typed(c, vs, rd, dk, jb) ==
  /\ c \in Seq(Validator) /\ Len(c) >= 1 /\ vs \in [Validator -> Nat]
  /\ rd \in Kept
  /\ dk = [chain |-> dk.chain, rounds |-> dk.rounds] /\ dk.chain \in Seq(Validator)
  /\ jb \in [phase : Phases, accepted : Nat]

\* The saved blocks are the first of the chain; the job knows how many are not.
Saved(c, dk, jb) ==
  /\ Len(dk.chain) \in 1..Len(c) /\ \A i \in 1..Len(dk.chain) : dk.chain[i] = c[i]
  /\ jb.phase \in {"apply", "save", "revertAll"} => jb.accepted = Len(c) - Len(dk.chain)
  /\ jb.phase = "revertOne" => jb.accepted = Len(c) - 1 - Len(dk.chain)

\* The votes are those of the chain, and decided who is in force.
InForce(c, vs, rd) ==
  /\ vs = VotesOf(c)
  /\ rd.forging.round = NextRound(c) /\ rd.forging.order # <<>>
  /\ ToSet(rd.forging.order) = ToSet(DecidedIn(c, NextRound(c)))

\* The blocks of the round in memory, and all rounds in the database.
Complete(c, rd, rows) ==
  /\ rd.blocks = Since(c) \/ (NextRound(c) = 1 /\ rd.blocks = Tail(Since(c)))
  /\ rows = Rows(c, NextRound(c))

\* After the round that a block begins could not be saved: its blocks are not
\* forgotten.
Unsaved(c, rd, rows) ==
  /\ IsLastOfRound(Len(c))
  /\ rd.blocks = BlocksForRound(c) \/ (RoundOf(Len(c)) = 1 /\ rd.blocks = Tail(BlocksForRound(c)))
  /\ rows = Rows(c, RoundOf(Len(c)))

\* What a restart finds: every round the saved blocks begin, and later ones of
\* the chain that was lost; or the database of a node that never ran.
Restartable(c, dk) ==
  \/ dk.rounds = {} /\ Len(dk.chain) = 1
  \/ \E k \in RoundOf(Len(dk.chain))..NextRound(c) : dk.rounds = Rows(c, k)

\* Balances that are accumulated are right for the genesis block alone.
Exact(dk, jb, bd) ==
  Accumulated =>
    /\ \E f : bd = [faults |-> f, crashes |-> 0]
    /\ jb.phase = "down" => Len(dk.chain) = 1

InvOf(c, vs, rd, dk, jb, bd) ==
  /\ Typed(c, vs, rd, dk, jb) /\ Saved(c, dk, jb) /\ Exact(dk, jb, bd)
  /\ jb.phase # "down" =>
       /\ InForce(c, vs, rd)
       /\ Complete(c, rd, dk.rounds) \/ (jb.phase = "revertOne" /\ Unsaved(c, rd, dk.rounds))
  /\ jb.phase = "down" => Restartable(c, dk)

RoundsInv == InvOf(chain, votes, round, disk, job, budget)

\* The invariant of the next state, with each variable primed.
LEMMA InvPrimed ==
  RoundsInv' <=> InvOf(chain', votes', round', disk', job', budget')
BY DEF RoundsInv, InvOf, Typed, Saved, Exact, InForce, Complete, Unsaved, Restartable, Since, NextRound, Kept, Forging, Rows, Row, DecidedIn, Cut, Phases,
   RoundOf, RoundHeight, BlocksForRound, IsLastOfRound, RoundValidators, Ranking, Sorted, Better, KeyBefore, VotesOf, ToSet, IsInjective

-----------------------------------------------------------------------------
(* One block more *)

\* What it changes.
Extended(c, v, d) ==
  /\ d \in Seq(Validator) /\ Len(d) = Len(c) + 1 /\ NextRound(c) = RoundOf(Len(d))
  /\ NextRound(c) \in Nat \ {0} /\ NextRound(d) \in Nat \ {0}
  /\ Rows(d, NextRound(c)) = Rows(c, NextRound(c))
  /\ DecidedIn(d, NextRound(c)) = DecidedIn(c, NextRound(c))
  /\ NextRound(c) = 1 => Since(c) # <<>>
  /\ BlocksForRound(d) = Append(Since(c), v)
  /\ IsLastOfRound(Len(d)) =>
       /\ NextRound(d) = NextRound(c) + 1 /\ Since(d) = <<>>
       /\ DecidedIn(d, NextRound(d)) = RoundValidators(VotesOf(d))
  /\ ~IsLastOfRound(Len(d)) => NextRound(d) = NextRound(c) /\ Since(d) = Append(Since(c), v)

\* A block more ends its round or not, and changes nothing of the rounds before.
LEMMA NextBlock ==
  ASSUME RoundStateAssumption, NEW c \in Seq(Validator), Len(c) >= 1, NEW v \in Validator
  PROVE  Extended(c, v, Append(c, v))
<1> DEFINE d == Append(c, v)
<1> DEFINE h == Len(c)
<1>0. h \in Nat \ {0} /\ h + 1 \in Nat \ {0} /\ h + 2 \in Nat \ {0} /\ (h + 1) + 1 = h + 2
  BY LenProperties
<1>1. d \in Seq(Validator) /\ Len(d) = h + 1 /\ \A i \in 1..h : d[i] = c[i]
  BY Appended
<1>d. d = Append(c, v)
  OBVIOUS
<1>2. NextRound(c) = RoundOf(h + 1) /\ NextRound(d) = RoundOf(h + 2)
  BY <1>0, <1>1 DEF NextRound
<1> HIDE DEF h, d
<1>3. RoundOf(h + 1) \in Nat \ {0} /\ RoundOf(h + 2) \in Nat \ {0}
  BY <1>0, RoundBounds
<1>4. Rows(d, RoundOf(h + 1)) = Rows(c, RoundOf(h + 1)) /\ DecidedIn(d, RoundOf(h + 1)) = DecidedIn(c, RoundOf(h + 1))
  <2>1. h \in 1..Len(c) /\ h <= Len(d) /\ RoundOf(h + 1) \in Nat /\ RoundOf(h + 1) <= RoundOf(h + 1)
        /\ RoundOf(h + 1) \in 1..RoundOf(h + 1)
    BY <1>0, <1>1, <1>3 DEF h
  <2>2. \A i \in 1..h : c[i] = d[i]
    BY <1>1
  <2> QED
    BY <2>1, <2>2, <1>1, DecidedSame
<1>5. RoundOf(h + 1) = 1 => Since(c) # <<>>
  <2> SUFFICES ASSUME RoundOf(h + 1) = 1 PROVE Since(c) # <<>>
    OBVIOUS
  <2>1. RoundHeight(h + 1) = 1
    BY <1>0, RoundSteps
  <2>2. Since(c) = SubSeq(c, 1, Len(c))
    BY <2>1 DEF Since, h
  <2>3. Since(c) = c
    BY <2>2, SubSeqFull
  <2> QED
    BY <2>3, <1>0, EmptySeq DEF h
<1>6. BlocksForRound(d) = Append(Since(c), v)
  BY <1>d, SinceAppended
<1>7. ASSUME IsLastOfRound(h + 1)
      PROVE  RoundOf(h + 2) = RoundOf(h + 1) + 1 /\ Since(d) = <<>> /\ DecidedIn(d, RoundOf(h + 2)) = RoundValidators(VotesOf(d))
  <2>1. RoundOf(h + 2) = RoundOf(h + 1) + 1 /\ Cut(RoundOf(h + 2)) = h + 1
    <3>1. RoundOf((h + 1) + 1) = RoundOf(h + 1) + 1 /\ Cut(RoundOf((h + 1) + 1)) = h + 1
      BY <1>0, <1>7, RoundSteps, Zenon
    <3> QED
      BY <3>1, <1>0
  <2>a. IsLastOfRound(Len(d)) /\ Len(d) >= 1
    BY <1>0, <1>1, <1>7
  <2>2. Since(d) = <<>>
    BY <1>1, <2>a, SinceNow
  <2>3. SubSeq(d, 1, Cut(RoundOf(h + 2))) = d
    BY <1>1, <2>1, SubSeqFull
  <2> QED
    BY <2>1, <2>2, <2>3 DEF DecidedIn
<1>8. ASSUME ~IsLastOfRound(h + 1)
      PROVE  RoundOf(h + 2) = RoundOf(h + 1) /\ Since(d) = Append(Since(c), v)
  <2>1. RoundOf(h + 2) = RoundOf(h + 1)
    <3>1. RoundOf((h + 1) + 1) = RoundOf(h + 1)
      BY <1>0, <1>8, RoundSteps, Zenon
    <3> QED
      BY <3>1, <1>0
  <2>a. ~IsLastOfRound(Len(d)) /\ Len(d) >= 1
    BY <1>0, <1>1, <1>8
  <2>2. Since(d) = BlocksForRound(d)
    BY <1>1, <2>a, SinceNow
  <2> QED
    BY <2>1, <2>2, <1>6
<1>9. Extended(c, v, d)
  BY <1>1, <1>2, <1>3, <1>4, <1>5, <1>6, <1>7, <1>8 DEF h, Extended
<1> QED
  BY <1>9 DEF d

\* A block that is applied: with the round it begins, if it ends one.
LEMMA ApplyCore ==
  ASSUME RoundStateAssumption, RoundsInv, NEW v \in Validator, Applied(v)
  PROVE  /\ job.phase = "apply" /\ chain' = Append(chain, v)
         /\ votes' \in [Validator -> Nat] /\ disk' = [chain |-> disk.chain, rounds |-> disk'.rounds]
         /\ round' \in Kept
         /\ InForce(chain', votes', round') /\ Complete(chain', round', disk'.rounds)
<1> DEFINE c == chain
           d == Append(chain, v)
           n == NextRound(chain)
           f == round.forging
<1>1. /\ job.phase = "apply" /\ chain' = d /\ votes' = [votes EXCEPT ![v] = @ + 1]
      /\ c \in Seq(Validator) /\ Len(c) >= 1 /\ votes \in [Validator -> Nat]
      /\ round \in Kept
      /\ disk = [chain |-> disk.chain, rounds |-> disk.rounds]
      /\ InForce(c, votes, round) /\ Complete(c, round, disk.rounds)
  BY DEF Applied, RoundsInv, InvOf, Typed, Kept, Forging
<1>2. /\ d \in Seq(Validator) /\ Len(d) = Len(c) + 1 /\ n = RoundOf(Len(d))
      /\ n \in Nat \ {0} /\ NextRound(d) \in Nat \ {0}
      /\ Rows(d, n) = Rows(c, n) /\ DecidedIn(d, n) = DecidedIn(c, n)
      /\ n = 1 => Since(c) # <<>>
      /\ IsLastOfRound(Len(d)) =>
           NextRound(d) = n + 1 /\ Since(d) = <<>> /\ DecidedIn(d, NextRound(d)) = RoundValidators(VotesOf(d))
      /\ ~IsLastOfRound(Len(d)) => NextRound(d) = n /\ Since(d) = Append(Since(c), v)
  <2>1. Extended(chain, v, Append(chain, v))
    BY <1>1, NextBlock
  <2> QED
    BY <2>1 DEF Extended
<1>3. votes' = VotesOf(d) /\ votes' \in [Validator -> Nat]
  BY <1>1, <1>2, VotesAppend, VotesType DEF InForce
<1>4. Height + 1 = Len(d) /\ Height + 2 = Len(d) + 1 /\ Len(d) # 1
  <2>1. Len(c) \in Nat
    BY <1>1, LenProperties
  <2> QED
    BY <1>1, <1>2, <2>1 DEF Height
<1>5. Since(c) \in Seq(Validator) /\ round.blocks \in Seq(Validator) /\ Append(round.blocks, v) \in Seq(Validator)
  <2>1. Since(c) \in Seq(Validator)
    BY <1>1, SinceNow
  <2>2. round.blocks \in Seq(Validator)
    BY <1>1, RoundRecord
  <2> QED
    BY <2>1, <2>2, Appended
<1>6. f \in Forging /\ f.round = n /\ f.order # <<>>
      /\ ToSet(f.order) = ToSet(DecidedIn(c, n)) /\ disk.rounds = Rows(c, n)
  BY <1>1, RoundRecord DEF InForce, Complete
<1> DEFINE pushed == [round EXCEPT !.blocks = Append(round.blocks, v)]
<1>7. pushed = [blocks |-> Append(round.blocks, v), forging |-> f]
  BY <1>1, RoundRecord
<1>8. CASE IsLastOfRound(Len(d))
  <2> DEFINE order == RoundValidators(votes')
             started == StartRound(pushed, disk.rounds, Len(d), votes')
  <2>1. NextRound(d) = n + 1 /\ RoundOf(Len(d) + 1) = n + 1
    BY <1>2, <1>8 DEF NextRound
  <2>2. round' = started.round /\ disk' = [disk EXCEPT !.rounds = started.rounds]
    BY <1>4, <1>8 DEF Applied, Starts
  <2>3. order \in Seq(Validator) /\ order # <<>>
    BY <1>3, RoundValidatorsType
  <2>4. Active(f, n + 1, order) = [round |-> n + 1, order |-> order]
    BY <1>2, <1>6, <2>3 DEF Active
  <2>5. SaveRound(disk.rounds, n + 1, order) = Rows(d, n + 1)
    <3>1. disk.rounds = Rows(d, n) /\ order = DecidedIn(d, n + 1) /\ n \in Nat
      BY <1>2, <1>3, <1>6, <1>8, <2>1
    <3> QED
      BY <3>1, RowsSaved
  <2>6. started = [round |-> [forging |-> [round |-> n + 1, order |-> order], blocks |-> <<>>],
                   rounds |-> Rows(d, n + 1)]
    <3> HIDE DEF n, order
    <3> QED
      BY <1>7, <2>1, <2>4, <2>5 DEF StartRound, f, order
  <2>7. /\ round' = [forging |-> [round |-> n + 1, order |-> order], blocks |-> <<>>]
        /\ disk' = [chain |-> disk.chain, rounds |-> Rows(d, n + 1)]
    <3>1. started.round = [forging |-> [round |-> n + 1, order |-> order], blocks |-> <<>>]
          /\ started.rounds = Rows(d, n + 1)
      BY <2>6
    <3> HIDE DEF started, n, order, d
    <3>2. disk' = [disk EXCEPT !.rounds = Rows(d, n + 1)]
      BY <2>2, <3>1
    <3>3. disk' = [chain |-> disk.chain, rounds |-> Rows(d, n + 1)]
      BY <1>1, <3>2, DiskRecord
    <3> QED
      BY <2>2, <3>1, <3>3
  <2>8. <<>> \in Seq(Validator)
    OBVIOUS
  <2>9. order = DecidedIn(d, NextRound(d)) /\ Since(d) = <<>>
    BY <1>2, <1>3, <1>8
  <2> HIDE DEF n, order, d
  <2>10. InForce(d, votes', round') /\ Complete(d, round', disk'.rounds)
    BY <1>3, <2>1, <2>3, <2>7, <2>9 DEF InForce, Complete
  <2>11. n + 1 \in Nat
    BY <1>2
  <2>12. round' \in Kept
    BY <2>3, <2>7, <2>8, <2>11 DEF Kept, Forging
  <2>13. disk' = [chain |-> disk.chain, rounds |-> disk'.rounds]
    BY <2>7
  <2>14. job.phase = "apply" /\ chain' = d /\ votes' \in [Validator -> Nat]
    BY <1>1, <1>3
  <2> QED
    BY <2>10, <2>12, <2>13, <2>14 DEF d
<1>9. CASE ~IsLastOfRound(Len(d))
  <2>1. NextRound(d) = n /\ Since(d) = Append(Since(c), v)
    BY <1>2, <1>9
  <2>2. round' = pushed /\ disk' = [disk EXCEPT !.rounds = disk.rounds]
    BY <1>4, <1>9 DEF Applied, Starts
  <2>3. disk' = [chain |-> disk.chain, rounds |-> disk.rounds] /\ round' = [blocks |-> Append(round.blocks, v), forging |-> f]
    BY <1>1, <1>7, <2>2, DiskRecord
  <2>4. n = 1 => Tail(Since(d)) = Append(Tail(Since(c)), v)
    BY <1>2, <1>5, <2>1, AppendFront
  <2>5. round.blocks = Since(c) \/ (n = 1 /\ round.blocks = Tail(Since(c)))
    BY <1>1 DEF Complete
  <2> HIDE DEF n, d, f
  <2>6. InForce(d, votes', round')
    BY <1>2, <1>3, <1>6, <2>1, <2>3 DEF InForce
  <2>7. Complete(d, round', disk'.rounds)
    BY <1>2, <1>6, <2>1, <2>3, <2>4, <2>5 DEF Complete
  <2>12. round' \in Kept
    BY <1>5, <1>6, <2>3 DEF Kept
  <2>13. disk' = [chain |-> disk.chain, rounds |-> disk'.rounds]
    BY <2>3
  <2>14. job.phase = "apply" /\ chain' = d /\ votes' \in [Validator -> Nat]
    BY <1>1, <1>3
  <2> QED
    BY <2>6, <2>7, <2>12, <2>13, <2>14 DEF d
<1> QED
  BY <1>8, <1>9

\* A block whose round cannot be saved.
LEMMA FailedCore ==
  ASSUME RoundStateAssumption, RoundsInv, NEW v \in Validator, SaveRoundFails(v)
  PROVE  /\ chain' = Append(chain, v) /\ votes' \in [Validator -> Nat] /\ round' \in Kept /\ disk' = disk
         /\ InForce(chain', votes', round') /\ Unsaved(chain', round', disk'.rounds)
<1> DEFINE d == Append(chain, v)
           n == NextRound(chain)
           f == round.forging
           order == RoundValidators(votes')
<1>1. /\ job.phase = "apply" /\ chain' = d /\ votes' = [votes EXCEPT ![v] = @ + 1] /\ disk' = disk
      /\ chain \in Seq(Validator) /\ Len(chain) >= 1 /\ votes \in [Validator -> Nat]
      /\ round \in Kept
      /\ InForce(chain, votes, round) /\ Complete(chain, round, disk.rounds)
  BY DEF SaveRoundFails, RoundsInv, InvOf, Typed, Kept, Forging
<1>2. Extended(chain, v, d)
  BY <1>1, NextBlock
<1>3. votes' = VotesOf(d) /\ votes' \in [Validator -> Nat]
  BY <1>1, <1>2, VotesAppend, VotesType DEF InForce, Extended
<1>4. Height + 1 = Len(d) /\ Height + 2 = Len(d) + 1 /\ Len(d) # 1
  <2>1. Len(chain) \in Nat
    BY <1>1, LenProperties
  <2> QED
    BY <1>1, <1>2, <2>1 DEF Height, Extended
<1>5. IsLastOfRound(Len(d))
  BY <1>4 DEF SaveRoundFails, Starts
<1>6. Since(chain) \in Seq(Validator) /\ round.blocks \in Seq(Validator) /\ Append(round.blocks, v) \in Seq(Validator)
  <2>1. Since(chain) \in Seq(Validator)
    BY <1>1, SinceNow
  <2>2. round.blocks \in Seq(Validator)
    BY <1>1, RoundRecord
  <2> QED
    BY <2>1, <2>2, Appended
<1>7. f \in Forging /\ f.round = n /\ disk.rounds = Rows(chain, n)
  BY <1>1, RoundRecord DEF InForce, Complete
<1>8. /\ d \in Seq(Validator) /\ n = RoundOf(Len(d)) /\ n \in Nat /\ NextRound(d) = n + 1 /\ Rows(d, n) = Rows(chain, n)
      /\ DecidedIn(d, n + 1) = order /\ BlocksForRound(d) = Append(Since(chain), v) /\ (n = 1 => Since(chain) # <<>>)
  BY <1>2, <1>3, <1>5 DEF Extended
<1>9. order \in Seq(Validator) /\ order # <<>>
  BY <1>3, RoundValidatorsType
<1>10. RoundOf(Height + 2) = n + 1
  BY <1>4, <1>8 DEF NextRound
<1>11. Active(f, n + 1, order) = [round |-> n + 1, order |-> order]
  BY <1>7, <1>8, <1>9 DEF Active
<1>12. round' = [blocks |-> Append(round.blocks, v), forging |-> [round |-> n + 1, order |-> order]]
  BY <1>10, <1>11 DEF SaveRoundFails
<1>13. n = 1 => Tail(BlocksForRound(d)) = Append(Tail(Since(chain)), v)
  BY <1>6, <1>8, AppendFront
<1>14. round.blocks = Since(chain) \/ (n = 1 /\ round.blocks = Tail(Since(chain)))
  BY <1>1 DEF Complete
<1> HIDE DEF n, d, f, order
<1>15. InForce(d, votes', round')
  BY <1>3, <1>8, <1>9, <1>12 DEF InForce
<1>16. Unsaved(d, round', disk'.rounds)
  BY <1>1, <1>5, <1>7, <1>8, <1>12, <1>13, <1>14 DEF Unsaved
<1>17. round' \in Kept
  <2>1. n + 1 \in Nat
    BY <1>8
  <2> QED
    BY <2>1, <1>6, <1>9, <1>12 DEF Kept, Forging
<1> QED
  BY <1>1, <1>3, <1>15, <1>16, <1>17 DEF d

-----------------------------------------------------------------------------
(* One block less *)

\* The votes before a round are those of now without the round's blocks.
LEMMA PreviousVotesAre ==
  ASSUME RoundStateAssumption, chain \in Seq(Validator), Len(chain) >= 2, votes = VotesOf(chain),
         IsLastOfRound(Len(chain)), NEW blocks,
         blocks = BlocksForRound(chain) \/ (RoundOf(Len(chain)) = 1 /\ blocks = Tail(BlocksForRound(chain)))
  PROVE  RoundValidators(PreviousVotes(blocks)) = DecidedIn(chain, RoundOf(Len(chain)))
<1> DEFINE h == Len(chain)
           r == RoundOf(h)
           k == Cut(r)
           b == BlocksForRound(chain)
           taken == IF RoundOf(Height) = 1 /\ Len(blocks) = Height THEN Tail(blocks) ELSE blocks
<1>0. h \in Nat \ {0} /\ h >= 2 /\ Height = h
  BY LenProperties DEF Height
<1>1. r \in Nat \ {0} /\ RoundHeight(h) \in 1..h /\ (r = 1 => RoundHeight(h) = 1 /\ k = 1) /\ (r # 1 => k = RoundHeight(h) - 1)
  <2>1. h \in Nat \ {0}
    BY <1>0
  <2> HIDE DEF h
  <2>2. RoundOf(h) \in Nat \ {0}
    BY <2>1, RoundBounds
  <2>3. RoundHeight(h) \in 1..h /\ (RoundOf(h) = 1 => RoundHeight(h) = 1) /\ (RoundOf(h) # 1 => Cut(RoundOf(h)) = RoundHeight(h) - 1)
    BY <2>1, RoundSteps
  <2>4. Cut(1) = 1
    BY DEF Cut
  <2> QED
    BY <2>2, <2>3, <2>4
<1>2. b \in Seq(Validator) /\ Len(b) = h - RoundHeight(h) + 1 /\ b = SubSeq(chain, RoundHeight(h), h) /\ Len(b) >= 2
  BY <1>0, SinceNow DEF BlocksForRound
<1>3. k \in 0..Len(chain) /\ taken = SubSeq(chain, k + 1, Len(chain))
  <2>1. CASE r = 1
    <3>1. b = SubSeq(chain, 1, h) /\ k = 1
      BY <1>1, <1>2, <2>1
    <3>2. b = chain
      BY <3>1, SubSeqFull
    <3>3. Len(Tail(chain)) = h - 1 /\ Tail(chain) = SubSeq(chain, 2, Len(chain))
      BY <1>0, HeadTailProperties, TailIsSubSeq, EmptySeq
    <3>4. taken = Tail(chain)
      BY <1>0, <2>1, <3>2, <3>3
    <3> QED
      BY <1>0, <3>1, <3>3, <3>4
  <2>2. CASE r # 1
    <3>1. blocks = b /\ taken = b
      BY <1>0, <2>2
    <3>2. k = RoundHeight(h) - 1 /\ k + 1 = RoundHeight(h) /\ k \in 0..h
      BY <1>0, <1>1, <2>2
    <3> QED
      BY <1>2, <3>1, <3>2
  <2> QED
    BY <2>1, <2>2
<1>4. SubSeq(chain, 1, k) \in Seq(Validator) /\ SubSeq(chain, k + 1, Len(chain)) \in Seq(Validator)
  <2>1. 1 \in 1..(Len(chain) + 1) /\ k \in (1 - 1)..Len(chain) /\ k + 1 \in 1..(Len(chain) + 1) /\ Len(chain) \in ((k + 1) - 1)..Len(chain)
    BY <1>0, <1>3
  <2> HIDE DEF k
  <2> QED
    BY <2>1, Piece
<1>5. PreviousVotes(blocks) = VotesOf(SubSeq(chain, 1, k))
  <2>1. PreviousVotes(blocks) = [v \in Validator |-> votes[v] - VotesOf(taken)[v]]
    BY DEF PreviousVotes
  <2>2. ASSUME NEW v \in Validator
        PROVE  votes[v] - VotesOf(taken)[v] = VotesOf(SubSeq(chain, 1, k))[v]
    <3> HIDE DEF k, taken
    <3>1. VotesOf(chain)[v] = VotesOf(SubSeq(chain, 1, k))[v] + VotesOf(SubSeq(chain, k + 1, Len(chain)))[v]
      BY <1>3, VotesSplit
    <3>2. VotesOf(SubSeq(chain, 1, k))[v] \in Nat /\ VotesOf(SubSeq(chain, k + 1, Len(chain)))[v] \in Nat
      BY <1>4, VotesAt
    <3> QED
      BY <1>3, <3>1, <3>2
  <2>3. VotesOf(SubSeq(chain, 1, k)) \in [Validator -> Nat]
    BY <1>4, VotesType
  <2> HIDE DEF k, taken
  <2> QED
    BY <2>1, <2>2, <2>3
<1> QED
  BY <1>5 DEF DecidedIn

\* A block that is reverted: with the round it ended, if it ended one.
LEMMA RevertCore ==
  ASSUME RoundStateAssumption, RoundsInv, job.phase \in {"revertOne", "revertAll"}, Len(chain) >= 2, RevertBlock
  PROVE  /\ chain' = Front(chain) /\ chain' \in Seq(Validator) /\ Len(chain') = Len(chain) - 1
         /\ \A i \in 1..(Len(chain) - 1) : chain'[i] = chain[i]
         /\ votes' \in [Validator -> Nat] /\ disk' = [chain |-> disk.chain, rounds |-> disk'.rounds]
         /\ round' \in Kept
         /\ InForce(chain', votes', round') /\ Complete(chain', round', disk'.rounds)
<1> DEFINE c == Front(chain)
           v == Last(chain)
           n == NextRound(c)
           b == BlocksForRound(chain)
           blocks == IF round.blocks = <<>> THEN b ELSE round.blocks
           result == RevertRound(blocks)
           order == RoundValidators(PreviousVotes(blocks))
<1>1. /\ round' = [blocks |-> Front(blocks), forging |-> result.forging]
      /\ disk' = [disk EXCEPT !.rounds = result.rounds]
      /\ votes' = [votes EXCEPT ![v] = @ - 1] /\ chain' = c
  BY DEF RevertBlock
<1>2. /\ chain \in Seq(Validator) /\ votes \in [Validator -> Nat] /\ round \in Kept
      /\ disk = [chain |-> disk.chain, rounds |-> disk.rounds]
      /\ InForce(chain, votes, round)
      /\ Complete(chain, round, disk.rounds) \/ Unsaved(chain, round, disk.rounds)
  BY DEF RoundsInv, InvOf, Typed
<1>3. /\ c \in Seq(Validator) /\ Len(c) = Len(chain) - 1 /\ v \in Validator /\ chain = Append(c, v)
      /\ \A i \in 1..(Len(chain) - 1) : c[i] = chain[i]
      /\ Len(c) >= 1 /\ Height = Len(chain) /\ Len(chain) \in Nat
  <2>1. Len(chain) \in Nat
    BY <1>2, LenProperties
  <2> QED
    BY <1>2, <2>1, ChainFront DEF Height
<1>4. Extended(c, v, chain)
  <2>1. Extended(c, v, Append(c, v))
    BY <1>3, NextBlock
  <2> QED
    BY <1>3, <2>1
<1>5. votes' = VotesOf(c) /\ votes' \in [Validator -> Nat]
  <2>1. VotesOf(c) = [VotesOf(chain) EXCEPT ![v] = @ - 1]
    BY <1>2, VotesFront
  <2>2. VotesOf(c) \in [Validator -> Nat]
    BY <1>3, VotesType
  <2> QED
    BY <1>1, <1>2, <2>1, <2>2 DEF InForce
<1>6. /\ n \in Nat \ {0} /\ n = RoundOf(Len(chain)) /\ Rows(chain, n) = Rows(c, n)
      /\ DecidedIn(chain, n) = DecidedIn(c, n) /\ (n = 1 => Since(c) # <<>>) /\ b = Append(Since(c), v)
      /\ (IsLastOfRound(Len(chain)) => NextRound(chain) = n + 1 /\ Since(chain) = <<>>)
      /\ (~IsLastOfRound(Len(chain)) => NextRound(chain) = n)
  BY <1>4 DEF Extended
<1>7. Since(c) \in Seq(Validator) /\ (~IsLastOfRound(Len(chain)) => Since(chain) = b)
  <2>1. Since(c) \in Seq(Validator)
    BY <1>3, SinceNow
  <2>2. ~IsLastOfRound(Len(chain)) => Since(chain) = b
    <3>1. Len(chain) >= 1
      BY <1>3
    <3> QED
      BY <1>2, <3>1, SinceNow
  <2> QED
    BY <2>1, <2>2
<1> HIDE DEF n, b
<1>8. blocks = b \/ (n = 1 /\ blocks = Tail(b))
  <2>1. CASE round.blocks = <<>>
    BY <2>1
  <2>2. CASE round.blocks # <<>> /\ Unsaved(chain, round, disk.rounds)
    BY <1>6, <2>2 DEF Unsaved, b
  <2>3. CASE round.blocks # <<>> /\ Complete(chain, round, disk.rounds)
    <3>1. blocks = round.blocks /\ (round.blocks = Since(chain) \/ (NextRound(chain) = 1 /\ round.blocks = Tail(Since(chain))))
      BY <2>3 DEF Complete
    <3>2. ~IsLastOfRound(Len(chain))
      BY <1>6, <2>3, <3>1
    <3> QED
      BY <1>6, <1>7, <3>1, <3>2
  <2> QED
    BY <1>2, <2>1, <2>2, <2>3
<1> HIDE DEF blocks
<1>9. Front(blocks) \in Seq(Validator) /\ (Front(blocks) = Since(c) \/ (n = 1 /\ Front(blocks) = Tail(Since(c))))
  <2>1. Front(b) = Since(c)
    BY <1>3, <1>6, <1>7, AppendFront
  <2>2. n = 1 => Tail(b) = Append(Tail(Since(c)), v) /\ Tail(Since(c)) \in Seq(Validator)
    BY <1>3, <1>6, <1>7, AppendFront
  <2>3. n = 1 => Front(Tail(b)) = Tail(Since(c))
    BY <1>3, <2>2, AppendFront
  <2> QED
    BY <1>7, <1>8, <2>1, <2>2, <2>3
<1>10. DecidedIn(c, n) \in Seq(Validator) /\ DecidedIn(c, n) # <<>>
  <2>1. n \in 1..RoundOf(Len(c) + 1)
    BY <1>6 DEF NextRound, n
  <2> QED
    BY <1>3, <2>1, DecidedType
<1>11. /\ result.forging \in Forging /\ result.forging.round = n /\ result.forging.order # <<>>
       /\ ToSet(result.forging.order) = ToSet(DecidedIn(c, n)) /\ result.rounds = Rows(c, n)
  <2>1. CASE ~IsLastOfRound(Len(chain))
    <3>1. result.forging = round.forging /\ result.rounds = disk.rounds
      BY <1>3, <2>1 DEF RevertRound
    <3>2. Complete(chain, round, disk.rounds)
      BY <1>2, <2>1 DEF Unsaved
    <3>3. round.forging \in Forging
      BY <1>2, RoundRecord
    <3> QED
      BY <1>2, <1>6, <2>1, <3>1, <3>2, <3>3 DEF InForce, Complete
  <2>2. CASE IsLastOfRound(Len(chain))
    <3>1. order = DecidedIn(chain, n)
      <4>1. votes = VotesOf(chain)
        BY <1>2 DEF InForce
      <4>2. blocks = BlocksForRound(chain) \/ (RoundOf(Len(chain)) = 1 /\ blocks = Tail(BlocksForRound(chain)))
        BY <1>6, <1>8 DEF b
      <4>3. RoundValidators(PreviousVotes(blocks)) = DecidedIn(chain, RoundOf(Len(chain)))
        BY <1>2, <2>2, <4>1, <4>2, PreviousVotesAre
      <4> QED
        BY <1>6, <4>3
    <3>2. order = DecidedIn(c, n) /\ order \in Seq(Validator) /\ order # <<>>
      BY <1>6, <1>10, <3>1
    <3>3. round.forging.round = n + 1
      BY <1>2, <1>6, <2>2 DEF InForce
    <3>4. result = [forging |-> Active(round.forging, n, order), rounds |-> DeleteRound(disk.rounds, n + 1)]
      BY <1>3, <1>6, <2>2 DEF RevertRound
    <3>5. Active(round.forging, n, order) = [round |-> n, order |-> order]
      <4>1. round.forging.round # n
        BY <1>6, <3>3
      <4> QED
        BY <3>2, <4>1 DEF Active
    <3>6. disk.rounds = Rows(chain, n + 1) \/ disk.rounds = Rows(chain, n)
      BY <1>2, <1>6, <2>2 DEF Complete, Unsaved
    <3>7. DeleteRound(disk.rounds, n + 1) = Rows(chain, n)
      <4>1. n \in Nat /\ n + 1 \in Nat /\ n <= n /\ n <= n + 1
        BY <1>6
      <4> QED
        BY <3>6, <4>1, RowsDeleted
    <3> HIDE DEF order, result
    <3>8. result.forging = [round |-> n, order |-> order] /\ result.rounds = Rows(c, n)
      BY <1>6, <3>4, <3>5, <3>7
    <3>9. [round |-> n, order |-> order] \in Forging
      BY <1>6, <3>2 DEF Forging
    <3> QED
      BY <3>2, <3>8, <3>9
  <2> QED
    BY <2>1, <2>2
<1> HIDE DEF result
<1>12. disk' = [chain |-> disk.chain, rounds |-> Rows(c, n)]
  <2>1. disk' = [disk EXCEPT !.rounds = Rows(c, n)]
    BY <1>1, <1>11
  <2> QED
    BY <1>2, <2>1, DiskRecord
<1> HIDE DEF c
<1>13. InForce(c, votes', round') /\ Complete(c, round', disk'.rounds)
  BY <1>1, <1>5, <1>9, <1>11, <1>12 DEF InForce, Complete, n
<1>14. round' \in Kept
  BY <1>1, <1>9, <1>11 DEF Kept
<1> QED
  BY <1>1, <1>3, <1>5, <1>12, <1>13, <1>14 DEF c

-----------------------------------------------------------------------------
(* The round of the last block from the database *)

\* The validators read for the last block's round: nobody, if no round is stored.
Read(c, a) ==
  /\ a \in Forging /\ a.round = RoundOf(Len(c))
  /\ \/ a.order # <<>> /\ ToSet(a.order) = ToSet(DecidedIn(c, RoundOf(Len(c))))
     \/ Len(c) = 1 /\ a.order = <<>>

\* With them the round of the next block is restored.
LEMMA RestoredCore ==
  ASSUME RoundStateAssumption, NEW c \in Seq(Validator), Len(c) >= 1, NEW forging, NEW rounds,
         Read(c, Active(forging, RoundOf(Len(c)), <<>>)),
         \/ DeleteRound(rounds, RoundOf(Len(c)) + 1) = Rows(c, RoundOf(Len(c)))
         \/ Len(c) = 1 /\ DeleteRound(rounds, RoundOf(Len(c)) + 1) = {}
  PROVE  /\ Restored(c, VotesOf(c), forging, rounds).round \in Kept
         /\ InForce(c, VotesOf(c), Restored(c, VotesOf(c), forging, rounds).round)
         /\ Complete(c, Restored(c, VotesOf(c), forging, rounds).round, Restored(c, VotesOf(c), forging, rounds).rounds)
<1> DEFINE h == Len(c)
           r == RoundOf(h)
           a == Active(forging, r, <<>>)
           deleted == DeleteRound(rounds, r + 1)
           b == BlocksForRound(c)
           now == [blocks |-> b, forging |-> a]
           order == RoundValidators(VotesOf(c))
           result == Restored(c, VotesOf(c), forging, rounds)
<1>0. h \in Nat \ {0} /\ h + 1 \in Nat \ {0}
  BY LenProperties
<1>1. /\ Since(c) \in Seq(Validator) /\ b \in Seq(Validator)
      /\ (IsLastOfRound(Len(c)) => Since(c) = <<>>)
      /\ (~IsLastOfRound(Len(c)) => Since(c) = b)
  BY SinceNow
<1>2. Read(c, a) /\ (deleted = Rows(c, r) \/ (h = 1 /\ deleted = {}))
  OBVIOUS
<1>3. result = IF Starts(h) THEN StartRound(now, deleted, h, VotesOf(c)) ELSE [round |-> now, rounds |-> deleted]
  BY DEF Restored
<1>4. order \in Seq(Validator) /\ order # <<>>
  BY VotesType, RoundValidatorsType
<1>5. NextRound(c) = RoundOf(h + 1)
  BY DEF NextRound
<1>6. StartRound(now, deleted, h, VotesOf(c)) =
        [round  |-> [forging |-> Active(a, RoundOf(h + 1), order), blocks |-> <<>>],
         rounds |-> SaveRound(deleted, RoundOf(h + 1), order)]
  BY DEF StartRound
<1>7. <<>> \in Seq(Validator)
  OBVIOUS
<1>8. r \in Nat \ {0} /\ RoundOf(h + 1) \in Nat \ {0}
  <2> HIDE DEF h
  <2> QED
    BY <1>0, RoundBounds
<1>9. (h = 1 => RoundOf(h + 1) = 1 /\ r = 1) /\ (~IsLastOfRound(h) => RoundOf(h + 1) = r)
      /\ (IsLastOfRound(h) => RoundOf(h + 1) = r + 1 /\ h # 1 /\ Cut(RoundOf(h + 1)) = h)
  <2>1. RoundOf(1) = 1 /\ ~IsLastOfRound(1)
    BY RoundOfOne
  <2> HIDE DEF h
  <2>2. (~IsLastOfRound(h) => RoundOf(h + 1) = RoundOf(h)) /\ (IsLastOfRound(h) => RoundOf(h + 1) = RoundOf(h) + 1 /\ Cut(RoundOf(h + 1)) = h)
    BY <1>0, RoundSteps
  <2> QED
    BY <2>1, <2>2
<1>10. SubSeq(c, 1, h) = c
  BY SubSeqFull
<1>11. CASE h = 1
  <2>1. DecidedIn(c, 1) = order
    <3>1. Cut(1) = h
      BY <1>11 DEF Cut
    <3> QED
      BY <1>10, <3>1 DEF DecidedIn
  <2>2. Active(a, 1, order) \in Forging /\ Active(a, 1, order).round = 1
        /\ Active(a, 1, order).order # <<>> /\ ToSet(Active(a, 1, order).order) = ToSet(order)
    <3> HIDE DEF a, order
    <3>1. a.round = 1 /\ a \in Forging
      BY <1>2, <1>9, <1>11 DEF Read
    <3>2. CASE a.order # <<>>
      <4>1. Active(a, 1, order) = a
        BY <3>1, <3>2 DEF Active
      <4>2. ToSet(a.order) = ToSet(DecidedIn(c, 1))
        BY <1>2, <1>9, <1>11, <3>2 DEF Read
      <4> QED
        BY <2>1, <3>1, <3>2, <4>1, <4>2
    <3>3. CASE a.order = <<>>
      <4>1. Active(a, 1, order) = [round |-> 1, order |-> order]
        BY <1>4, <3>3 DEF Active
      <4> QED
        BY <1>4, <4>1 DEF Forging
    <3> QED
      BY <3>2, <3>3
  <2>3. SaveRound(deleted, 1, order) = Rows(c, 1)
    <3>1. SaveRound(Rows(c, 0), 0 + 1, DecidedIn(c, 0 + 1)) = Rows(c, 0 + 1)
      BY RowsSaved
    <3>2. SaveRound(Rows(c, 1), 1, order) = Rows(c, 1)
      BY RowsSaved
    <3>3. Rows(c, 0) = {} /\ 0 + 1 = 1
      BY DEF Rows
    <3> HIDE DEF deleted, order
    <3> QED
      BY <1>2, <1>9, <1>11, <2>1, <3>1, <3>2, <3>3
  <2>4. Tail(Since(c)) = <<>>
    <3>1. RoundHeight(h + 1) = 1
      <4> HIDE DEF h
      <4> QED
        BY <1>0, <1>9, <1>11, RoundSteps
    <3>2. Since(c) = c
      BY <1>10, <3>1 DEF Since
    <3>3. Tail(c) \in Seq(Validator) /\ Len(Tail(c)) = Len(c) - 1
      BY <1>0, HeadTailProperties, EmptySeq
    <3>4. Len(Tail(c)) = 0
      BY <1>11, <3>3
    <3> QED
      BY <3>2, <3>3, <3>4, EmptySeq
  <2>5. result.round = [forging |-> Active(a, 1, order), blocks |-> <<>>] /\ result.rounds = Rows(c, 1)
    <3> HIDE DEF a, order, deleted, now, result, b
    <3>1. Starts(h)
      BY <1>11 DEF Starts
    <3>2. result = [round |-> [forging |-> Active(a, 1, order), blocks |-> <<>>], rounds |-> SaveRound(deleted, 1, order)]
      BY <1>3, <1>6, <1>9, <1>11, <3>1
    <3> QED
      BY <2>3, <3>2
  <2>6. NextRound(c) = 1
    BY <1>5, <1>9, <1>11
  <2> HIDE DEF a, order, deleted, now, result, b, h, r
  <2>7. result.round \in Kept
    BY <1>7, <2>2, <2>5 DEF Kept
  <2>8. InForce(c, VotesOf(c), result.round)
    BY <2>1, <2>2, <2>5, <2>6 DEF InForce
  <2>9. Complete(c, result.round, result.rounds)
    BY <2>4, <2>5, <2>6 DEF Complete
  <2> QED
    BY <2>7, <2>8, <2>9 DEF result
<1>12. CASE IsLastOfRound(h)
  <2>1. DecidedIn(c, r + 1) = order
    BY <1>9, <1>10, <1>12 DEF DecidedIn
  <2>2. Active(a, r + 1, order) = [round |-> r + 1, order |-> order]
    <3>1. a.round = r
      BY <1>2 DEF Read
    <3> HIDE DEF a, order, r
    <3> QED
      BY <1>8, <3>1, <1>4 DEF Active
  <2>3. SaveRound(deleted, r + 1, order) = Rows(c, r + 1)
    <3>1. deleted = Rows(c, r) /\ r \in Nat
      BY <1>2, <1>8, <1>9, <1>12
    <3> QED
      BY <2>1, <3>1, RowsSaved
  <2>4. result.round = [forging |-> [round |-> r + 1, order |-> order], blocks |-> <<>>] /\ result.rounds = Rows(c, r + 1)
    <3> HIDE DEF a, order, deleted, now, result, b
    <3>1. Starts(h)
      BY <1>12 DEF Starts
    <3>2. result = [round |-> [forging |-> Active(a, r + 1, order), blocks |-> <<>>], rounds |-> SaveRound(deleted, r + 1, order)]
      BY <1>3, <1>6, <1>9, <1>12, <3>1
    <3> QED
      BY <2>2, <2>3, <3>2
  <2>5. NextRound(c) = r + 1 /\ Since(c) = <<>> /\ r + 1 \in Nat
    BY <1>1, <1>5, <1>8, <1>9, <1>12
  <2> HIDE DEF a, order, deleted, now, result, b, h, r
  <2>6. [round |-> r + 1, order |-> order] \in Forging
    BY <1>4, <2>5 DEF Forging
  <2>7. result.round \in Kept
    BY <1>7, <2>4, <2>6 DEF Kept
  <2>8. InForce(c, VotesOf(c), result.round)
    BY <1>4, <2>1, <2>4, <2>5 DEF InForce
  <2>9. Complete(c, result.round, result.rounds)
    BY <2>4, <2>5 DEF Complete
  <2> QED
    BY <2>7, <2>8, <2>9 DEF result
<1>13. CASE h # 1 /\ ~IsLastOfRound(h)
  <2>1. result.round = now /\ result.rounds = deleted
    <3> HIDE DEF a, order, deleted, now, result, b
    <3> QED
      BY <1>3, <1>13 DEF Starts
  <2>2. deleted = Rows(c, r) /\ NextRound(c) = r /\ Since(c) = b
    BY <1>1, <1>2, <1>5, <1>9, <1>13
  <2>3. a \in Forging /\ a.round = r /\ a.order # <<>> /\ ToSet(a.order) = ToSet(DecidedIn(c, r))
    BY <1>2, <1>13 DEF Read
  <2> HIDE DEF a, order, deleted, result, b, h, r
  <2>4. result.round = [blocks |-> b, forging |-> a]
    BY <2>1
  <2>7. result.round \in Kept
    BY <1>1, <2>3, <2>4 DEF Kept
  <2>8. InForce(c, VotesOf(c), result.round)
    BY <2>2, <2>3, <2>4 DEF InForce
  <2>9. Complete(c, result.round, result.rounds)
    BY <2>1, <2>2, <2>4 DEF Complete
  <2> QED
    BY <2>7, <2>8, <2>9 DEF result
<1> QED
  BY <1>11, <1>12, <1>13

\* Balances accumulated over the genesis block alone are its votes: the fold
\* adds one number to none.
LEMMA RebuiltOne ==
  ASSUME NEW blocks \in Seq(Validator), Len(blocks) = 1
  PROVE  Rebuilt(blocks) = VotesOf(blocks)
<1> DEFINE g(v, h) == VotesOf(SubSeq(blocks, 1, h))[v]
           q == [h \in 1..Len(blocks) |-> h]
           sum(v) == FoldLeft(LAMBDA s, h : s + g(v, h), 0, q)
<1>1. SubSeq(blocks, 1, 1) = blocks
  BY SubSeqFull
<1>2. VotesOf(blocks) \in [Validator -> Nat]
  BY VotesType
<1>3. DOMAIN q = {1} /\ q[1] = 1
  OBVIOUS
<1>4. SUBSET DOMAIN q = {{}, {1}}
  BY <1>3
<1>5. Max({1}) = 1
  BY DEF Max
<1>6. ASSUME NEW v \in Validator PROVE sum(v) = VotesOf(blocks)[v]
  <2> DEFINE body(f) == [s \in SUBSET DOMAIN q |-> IF s = {} THEN 0 ELSE f[s \ {Max(s)}] + g(v, q[Max(s)])]
             iter == CHOOSE f : f = body(f)
             one == [s \in SUBSET DOMAIN q |-> IF s = {} THEN 0 ELSE 0 + g(v, 1)]
  <2>1. sum(v) = iter[DOMAIN q]
    BY DEF FoldLeft, MapThenFoldSet
  <2> HIDE DEF q, g
  <2>2. one = body(one)
    <3>1. one[{}] = 0 /\ one[{1}] = 0 + g(v, 1) /\ {1} \ {1} = {} /\ {1} # {}
      BY <1>4
    <3>2. body(one)[{}] = 0
      BY <1>4
    <3>3. body(one)[{1}] = one[{1} \ {Max({1})}] + g(v, q[Max({1})])
      BY <1>4, <3>1
    <3> HIDE DEF one
    <3>4. body(one)[{1}] = 0 + g(v, 1)
      BY <1>3, <1>5, <3>1, <3>3
    <3>5. body(one) = [s \in SUBSET DOMAIN q |-> body(one)[s]]
      OBVIOUS
    <3>6. one = [s \in SUBSET DOMAIN q |-> one[s]]
      BY DEF one
    <3> HIDE DEF body
    <3> QED
      BY <1>4, <3>1, <3>2, <3>4, <3>5, <3>6
  <2>3. iter = body(iter)
    <3> HIDE DEF body, one
    <3> QED
      BY <2>2
  <2> HIDE DEF iter, sum
  <2>4. iter[{}] = 0
    BY <1>4, <2>3
  <2>5. iter[{1}] = iter[{1} \ {Max({1})}] + g(v, q[Max({1})])
    BY <1>4, <2>3
  <2>6. iter[{1}] = 0 + g(v, 1)
    BY <1>3, <1>5, <2>4, <2>5
  <2>7. g(v, 1) = VotesOf(blocks)[v] /\ VotesOf(blocks)[v] \in Nat
    BY <1>1, <1>2 DEF g
  <2> QED
    BY <1>3, <2>1, <2>6, <2>7
<1>7. Rebuilt(blocks) = IF ~Accumulated THEN VotesOf(blocks) ELSE [v \in Validator |-> sum(v)]
  BY DEF Rebuilt
<1> HIDE DEF sum
<1>8. [v \in Validator |-> sum(v)] = VotesOf(blocks)
  BY <1>2, <1>6
<1> QED
  BY <1>7, <1>8

\* What the job notes of its progress, and nothing else.
LEMMA JobRecord ==
  ASSUME NEW jb \in [phase : Phases, accepted : Nat], NEW x
  PROVE  /\ [jb EXCEPT !.accepted = x] = [phase |-> jb.phase, accepted |-> x]
         /\ [jb EXCEPT !.phase = x] = [phase |-> x, accepted |-> jb.accepted]
         /\ jb.phase \in Phases /\ jb.accepted \in Nat
OBVIOUS

\* While the node is up the invariant says this.
LEMMA WhileUp ==
  ASSUME RoundsInv, job.phase # "down"
  PROVE  /\ chain \in Seq(Validator) /\ Len(chain) >= 1 /\ Len(chain) \in Nat /\ votes \in [Validator -> Nat]
         /\ round \in Kept /\ disk = [chain |-> disk.chain, rounds |-> disk.rounds]
         /\ disk.chain \in Seq(Validator) /\ Len(disk.chain) \in 1..Len(chain)
         /\ \A i \in 1..Len(disk.chain) : disk.chain[i] = chain[i]
         /\ job \in [phase : Phases, accepted : Nat]
         /\ job.phase \in {"apply", "save", "revertAll"} => job.accepted = Len(chain) - Len(disk.chain)
         /\ job.phase = "revertOne" => job.accepted = Len(chain) - 1 - Len(disk.chain)
         /\ InForce(chain, votes, round)
         /\ Complete(chain, round, disk.rounds) \/ (job.phase = "revertOne" /\ Unsaved(chain, round, disk.rounds))
         /\ Accumulated => \E f : budget = [faults |-> f, crashes |-> 0]
<1>1. Len(chain) \in Nat
  BY LenProperties DEF RoundsInv, InvOf, Typed
<1> QED
  BY <1>1 DEF RoundsInv, InvOf, Typed, Saved, Exact

\* While it is up, this is enough for the invariant.
LEMMA StaysUp ==
  ASSUME NEW c \in Seq(Validator), Len(c) >= 1, NEW vs \in [Validator -> Nat], NEW rd \in Kept, NEW dk,
         dk = [chain |-> dk.chain, rounds |-> dk.rounds], dk.chain \in Seq(Validator),
         Len(dk.chain) \in 1..Len(c), \A i \in 1..Len(dk.chain) : dk.chain[i] = c[i],
         NEW jb, NEW phase \in Phases \ {"down"}, NEW n \in Nat, jb = [phase |-> phase, accepted |-> n],
         phase # "revertOne" => n = Len(c) - Len(dk.chain),
         phase = "revertOne" => n = Len(c) - 1 - Len(dk.chain),
         NEW bd, Accumulated => \E f : bd = [faults |-> f, crashes |-> 0],
         InForce(c, vs, rd),
         Complete(c, rd, dk.rounds) \/ (phase = "revertOne" /\ Unsaved(c, rd, dk.rounds))
  PROVE  InvOf(c, vs, rd, dk, jb, bd)
<1>1. jb.phase = phase /\ jb.accepted = n /\ jb \in [phase : Phases, accepted : Nat] /\ phase # "down"
  OBVIOUS
<1>2. Typed(c, vs, rd, dk, jb)
  BY <1>1 DEF Typed
<1>3. Saved(c, dk, jb)
  BY <1>1 DEF Saved
<1>4. Exact(dk, jb, bd)
  BY <1>1 DEF Exact
<1> QED
  BY <1>1, <1>2, <1>3, <1>4 DEF InvOf

-----------------------------------------------------------------------------
(* The actions *)

\* A block is applied, and perhaps refused afterwards.
LEMMA ApplyStep ==
  ASSUME RoundStateAssumption, RoundsInv, NEW v \in Validator, ApplyBlock(v) \/ AfterRoundFails(v) \/ SaveRoundFails(v)
  PROVE  RoundsInv'
<1>1. job.phase = "apply" /\ job.phase # "down"
  BY DEF ApplyBlock, AfterRoundFails, SaveRoundFails, Applied
<1>2. /\ chain \in Seq(Validator) /\ Len(chain) \in Nat /\ disk.chain \in Seq(Validator)
      /\ Len(disk.chain) \in 1..Len(chain) /\ \A i \in 1..Len(disk.chain) : disk.chain[i] = chain[i]
      /\ job \in [phase : Phases, accepted : Nat] /\ job.accepted = Len(chain) - Len(disk.chain)
      /\ (Accumulated => \E f : budget = [faults |-> f, crashes |-> 0])
  BY <1>1, WhileUp
<1>3. Accumulated => \E f : budget' = [faults |-> f, crashes |-> 0]
  <2> SUFFICES ASSUME Accumulated PROVE \E f : budget' = [faults |-> f, crashes |-> 0]
    OBVIOUS
  <2>1. PICK f : budget = [faults |-> f, crashes |-> 0]
    BY <1>2
  <2>2. budget' = budget \/ budget' = [budget EXCEPT !.faults = @ - 1]
    BY DEF ApplyBlock, AfterRoundFails, SaveRoundFails
  <2> QED
    BY <2>1, <2>2
<1>4. \/ job' = [phase |-> "apply", accepted |-> job.accepted + 1] /\ ApplyBlock(v)
      \/ job' = [phase |-> "revertOne", accepted |-> job.accepted] /\ (AfterRoundFails(v) \/ SaveRoundFails(v))
  BY <1>1, <1>2, JobRecord DEF ApplyBlock, AfterRoundFails, SaveRoundFails
<1>5. /\ chain' = Append(chain, v) /\ votes' \in [Validator -> Nat] /\ round' \in Kept
      /\ disk' = [chain |-> disk.chain, rounds |-> disk'.rounds]
      /\ InForce(chain', votes', round')
      /\ Complete(chain', round', disk'.rounds) \/ (SaveRoundFails(v) /\ Unsaved(chain', round', disk'.rounds))
  <2>1. CASE Applied(v)
    BY <2>1, ApplyCore
  <2>2. CASE SaveRoundFails(v)
    <3>1. disk = [chain |-> disk.chain, rounds |-> disk.rounds]
      BY <1>1, WhileUp
    <3> QED
      BY <2>2, <3>1, FailedCore
  <2> QED
    BY <2>1, <2>2 DEF ApplyBlock, AfterRoundFails
<1>6. /\ Append(chain, v) \in Seq(Validator) /\ Len(Append(chain, v)) = Len(chain) + 1
      /\ \A i \in 1..Len(chain) : Append(chain, v)[i] = chain[i]
  BY <1>2, Appended
<1>7. /\ disk'.chain = disk.chain /\ Len(disk'.chain) \in 1..Len(chain') /\ Len(chain') >= 1 /\ chain' \in Seq(Validator)
      /\ \A i \in 1..Len(disk'.chain) : disk'.chain[i] = chain'[i]
      /\ Len(chain') = Len(chain) + 1 /\ disk' = [chain |-> disk'.chain, rounds |-> disk'.rounds]
  <2>1. disk'.chain = disk.chain
    BY <1>5
  <2> QED
    BY <1>2, <1>5, <1>6, <2>1
<1>8. CASE job' = [phase |-> "apply", accepted |-> job.accepted + 1] /\ ApplyBlock(v)
  <2>1. "apply" \in Phases \ {"down"} /\ job.accepted + 1 \in Nat /\ job.accepted + 1 = Len(chain') - Len(disk'.chain)
    BY <1>2, <1>7, JobRecord DEF Phases
  <2>2. Complete(chain', round', disk'.rounds)
    BY <1>1, <1>2, <1>5, <1>8, ApplyCore DEF ApplyBlock
  <2>3. InvOf(chain', votes', round', disk', job', budget')
    BY <1>2, <1>3, <1>5, <1>7, <1>8, <2>1, <2>2, StaysUp
  <2> QED
    BY <2>3, InvPrimed
<1>9. CASE job' = [phase |-> "revertOne", accepted |-> job.accepted]
  <2>1. "revertOne" \in Phases \ {"down"} /\ job.accepted \in Nat /\ job.accepted = Len(chain') - 1 - Len(disk'.chain)
    BY <1>2, <1>7, JobRecord DEF Phases
  <2>2. InvOf(chain', votes', round', disk', job', budget')
    BY <1>2, <1>3, <1>5, <1>7, <1>9, <2>1, StaysUp
  <2> QED
    BY <2>2, InvPrimed
<1> QED
  BY <1>4, <1>8, <1>9

\* A block is reverted: the one that was refused, or one that was accepted.
LEMMA RevertStep ==
  ASSUME RoundStateAssumption, RoundsInv, RevertRefused \/ RevertAccepted
  PROVE  RoundsInv'
<1>1. job.phase \in {"revertOne", "revertAll"} /\ job.phase # "down" /\ RevertBlock /\ budget' = budget
  BY DEF RevertRefused, RevertAccepted
<1>2. /\ Len(chain) \in Nat /\ disk.chain \in Seq(Validator)
      /\ Len(disk.chain) \in 1..Len(chain) /\ \A i \in 1..Len(disk.chain) : disk.chain[i] = chain[i]
      /\ job \in [phase : Phases, accepted : Nat]
      /\ (job.phase = "revertAll" => job.accepted = Len(chain) - Len(disk.chain))
      /\ (job.phase = "revertOne" => job.accepted = Len(chain) - 1 - Len(disk.chain))
      /\ (Accumulated => \E f : budget' = [faults |-> f, crashes |-> 0])
  BY <1>1, WhileUp
<1>3. job.accepted \in Nat
  BY <1>2, JobRecord
<1>4. Len(chain) >= 2 /\ Len(disk.chain) <= Len(chain) - 1
  <2>1. job.phase = "revertOne" \/ (job.phase = "revertAll" /\ job.accepted > 0)
    BY DEF RevertRefused, RevertAccepted
  <2>2. job.accepted = Len(chain) - 1 - Len(disk.chain) \/ (job.accepted > 0 /\ job.accepted = Len(chain) - Len(disk.chain))
    BY <1>2, <2>1
  <2>3. Len(disk.chain) \in Nat /\ Len(disk.chain) >= 1 /\ Len(chain) \in Nat
    BY <1>2
  <2>4. \A l, d, a \in Nat : d >= 1 /\ (a = l - 1 - d \/ (a > 0 /\ a = l - d)) => l >= 2 /\ d <= l - 1
    OBVIOUS
  <2> QED
    BY <1>3, <2>2, <2>3, <2>4
<1>5. /\ chain' \in Seq(Validator) /\ Len(chain') = Len(chain) - 1
      /\ \A i \in 1..(Len(chain) - 1) : chain'[i] = chain[i]
      /\ votes' \in [Validator -> Nat] /\ disk' = [chain |-> disk.chain, rounds |-> disk'.rounds]
      /\ round' \in Kept
      /\ InForce(chain', votes', round') /\ Complete(chain', round', disk'.rounds)
  BY <1>1, <1>4, RevertCore
<1>6. /\ disk'.chain = disk.chain /\ Len(disk'.chain) \in 1..Len(chain') /\ Len(chain') >= 1
      /\ \A i \in 1..Len(disk'.chain) : disk'.chain[i] = chain'[i]
      /\ disk' = [chain |-> disk'.chain, rounds |-> disk'.rounds]
  <2>1. disk'.chain = disk.chain
    BY <1>5
  <2> QED
    BY <1>2, <1>4, <1>5, <2>1
<1>7. CASE RevertRefused
  <2>1. job' = [phase |-> "save", accepted |-> job.accepted] /\ job.accepted = Len(chain') - Len(disk'.chain) /\ "save" \in Phases \ {"down"}
    BY <1>2, <1>5, <1>6, <1>7, JobRecord DEF RevertRefused, Phases
  <2>2. InvOf(chain', votes', round', disk', job', budget')
    BY <1>2, <1>3, <1>5, <1>6, <2>1, StaysUp
  <2> QED
    BY <2>2, InvPrimed
<1>8. CASE RevertAccepted
  <2>1. job' = [phase |-> "revertAll", accepted |-> job.accepted - 1] /\ "revertAll" \in Phases \ {"down"}
    BY <1>2, <1>8, JobRecord DEF RevertAccepted, Phases
  <2>2. job.accepted - 1 \in Nat /\ job.accepted - 1 = Len(chain') - Len(disk'.chain)
    <3>1. job.accepted > 0 /\ job.accepted = Len(chain) - Len(disk.chain)
      BY <1>2, <1>8 DEF RevertAccepted
    <3>2. Len(disk.chain) \in Nat /\ Len(chain) \in Nat /\ Len(chain') = Len(chain) - 1 /\ disk'.chain = disk.chain
      BY <1>2, <1>5, <1>6
    <3> QED
      BY <1>3, <3>1, <3>2
  <2>3. InvOf(chain', votes', round', disk', job', budget')
    BY <1>2, <1>5, <1>6, <2>1, <2>2, StaysUp
  <2> QED
    BY <2>3, InvPrimed
<1> QED
  BY <1>7, <1>8

\* The accepted blocks are saved, or cannot be.
LEMMA SaveStep ==
  ASSUME RoundStateAssumption, RoundsInv, SaveBlocks \/ SaveFails
  PROVE  RoundsInv'
<1>1. job.phase \in {"apply", "save"} /\ job.phase # "down" /\ job.phase # "revertOne"
      /\ chain' = chain /\ votes' = votes /\ round' = round
  BY DEF SaveBlocks, SaveFails
<1>2. /\ chain \in Seq(Validator) /\ Len(chain) >= 1 /\ Len(chain) \in Nat /\ votes \in [Validator -> Nat]
      /\ round \in Kept /\ disk = [chain |-> disk.chain, rounds |-> disk.rounds]
      /\ disk.chain \in Seq(Validator) /\ Len(disk.chain) \in 1..Len(chain)
      /\ \A i \in 1..Len(disk.chain) : disk.chain[i] = chain[i]
      /\ job \in [phase : Phases, accepted : Nat]
      /\ job.accepted = Len(chain) - Len(disk.chain)
      /\ InForce(chain, votes, round) /\ Complete(chain, round, disk.rounds)
      /\ Accumulated => \E f : budget = [faults |-> f, crashes |-> 0]
  BY <1>1, WhileUp
<1>3. CASE SaveBlocks
  <2>1. disk' = [chain |-> chain, rounds |-> disk.rounds] /\ budget' = budget
    BY <1>2, <1>3, DiskRecord DEF SaveBlocks
  <2>2. disk'.chain = chain' /\ disk'.rounds = disk.rounds /\ disk' = [chain |-> disk'.chain, rounds |-> disk'.rounds]
    BY <1>1, <2>1
  <2>3. job' = [phase |-> "apply", accepted |-> 0] /\ "apply" \in Phases \ {"down"} /\ 0 \in Nat /\ 0 = Len(chain') - Len(disk'.chain)
    BY <1>1, <1>2, <1>3, <2>2 DEF SaveBlocks, NoJob, Phases
  <2>4. Len(disk'.chain) \in 1..Len(chain') /\ \A i \in 1..Len(disk'.chain) : disk'.chain[i] = chain'[i]
    BY <1>1, <1>2, <2>2
  <2>5. InForce(chain', votes', round') /\ Complete(chain', round', disk'.rounds)
    BY <1>1, <1>2, <2>2
  <2>6. InvOf(chain', votes', round', disk', job', budget')
    BY <1>1, <1>2, <2>1, <2>2, <2>3, <2>4, <2>5, StaysUp
  <2> QED
    BY <2>6, InvPrimed
<1>4. CASE SaveFails
  <2>1. disk' = disk /\ job' = [phase |-> "revertAll", accepted |-> job.accepted] /\ "revertAll" \in Phases \ {"down"}
        /\ job.accepted \in Nat
    BY <1>2, <1>4, JobRecord DEF SaveFails, Phases
  <2>2. Accumulated => \E f : budget' = [faults |-> f, crashes |-> 0]
    <3> SUFFICES ASSUME Accumulated PROVE \E f : budget' = [faults |-> f, crashes |-> 0]
      OBVIOUS
    <3>1. PICK f : budget = [faults |-> f, crashes |-> 0]
      BY <1>2
    <3>2. budget' = [budget EXCEPT !.faults = @ - 1]
      BY <1>4 DEF SaveFails
    <3> QED
      BY <3>1, <3>2
  <2>5. InForce(chain', votes', round') /\ Complete(chain', round', disk'.rounds)
    BY <1>1, <1>2, <2>1
  <2>6. InvOf(chain', votes', round', disk', job', budget')
    BY <1>1, <1>2, <2>1, <2>2, <2>5, StaysUp
  <2> QED
    BY <2>6, InvPrimed
<1> QED
  BY <1>3, <1>4

\* The round is restored from the database when all accepted blocks are reverted.
LEMMA RestoreStep ==
  ASSUME RoundStateAssumption, RoundsInv, RestoreAfterRevert
  PROVE  RoundsInv'
<1> DEFINE h == Len(chain)
           r == RoundOf(h)
           k == NextRound(chain)
           a == Active(round.forging, r, <<>>)
           result == Restored(chain, votes, round.forging, disk.rounds)
<1>1. /\ job.phase = "revertAll" /\ job.phase # "down" /\ job.phase # "revertOne" /\ job.accepted = 0
      /\ round' = result.round /\ disk' = [disk EXCEPT !.rounds = result.rounds]
      /\ job' = NoJob /\ chain' = chain /\ votes' = votes /\ budget' = budget
  BY DEF RestoreAfterRevert
<1>2. /\ chain \in Seq(Validator) /\ h >= 1 /\ h \in Nat /\ votes \in [Validator -> Nat]
      /\ round \in Kept /\ disk = [chain |-> disk.chain, rounds |-> disk.rounds]
      /\ disk.chain \in Seq(Validator) /\ Len(disk.chain) \in 1..Len(chain)
      /\ \A i \in 1..Len(disk.chain) : disk.chain[i] = chain[i]
      /\ job.accepted = Len(chain) - Len(disk.chain)
      /\ InForce(chain, votes, round) /\ Complete(chain, round, disk.rounds)
      /\ Accumulated => \E f : budget = [faults |-> f, crashes |-> 0]
  BY <1>1, WhileUp
<1>3. votes = VotesOf(chain) /\ round.forging.round = k /\ round.forging.order # <<>>
      /\ ToSet(round.forging.order) = ToSet(DecidedIn(chain, k)) /\ disk.rounds = Rows(chain, k)
      /\ round.forging \in Forging
  BY <1>2, RoundRecord DEF InForce, Complete
<1>4. r \in Nat \ {0} /\ k \in Nat \ {0} /\ r <= k /\ r \in 1..k
  <2>1. h \in Nat \ {0} /\ h + 1 \in Nat \ {0} /\ h <= h + 1
    BY <1>2
  <2> HIDE DEF h
  <2>2. RoundOf(h) \in Nat \ {0} /\ RoundOf(h + 1) \in Nat \ {0} /\ RoundOf(h) <= RoundOf(h + 1)
    BY <2>1, RoundBounds, RoundMonotone
  <2> QED
    BY <2>2 DEF NextRound, h
<1>5. DecidedIn(chain, r) \in Seq(Validator) /\ DecidedIn(chain, r) # <<>>
  <2>1. r \in 1..RoundOf(Len(chain) + 1)
    BY <1>4 DEF NextRound
  <2> HIDE DEF r
  <2> QED
    BY <1>2, <2>1, DecidedType
<1>6. Read(chain, a)
  <2>1. CASE r = k
    <3>1. a = round.forging
      BY <1>3, <2>1 DEF Active
    <3> QED
      BY <1>3, <2>1, <3>1 DEF Read
  <2>2. CASE r # k
    <3>1. /\ StoredOrder(r) \in Seq(Validator) /\ StoredOrder(r) # <<>>
          /\ ToSet(StoredOrder(r)) = ToSet(DecidedIn(chain, r))
      <4> HIDE DEF r, k
      <4> QED
        BY <1>2, <1>3, <1>4, <1>5, StoredOrderOf
    <3>2. a = [round |-> r, order |-> StoredOrder(r)]
      <4> HIDE DEF r, k
      <4> QED
        BY <1>3, <2>2 DEF Active, a
    <3>3. a \in Forging
      <4> HIDE DEF r, k, a
      <4> QED
        BY <1>4, <3>1, <3>2 DEF Forging
    <3> QED
      BY <3>1, <3>2, <3>3 DEF Read
  <2> QED
    BY <2>1, <2>2
<1>7. DeleteRound(disk.rounds, r + 1) = Rows(chain, r)
  <2> HIDE DEF r, k
  <2> QED
    BY <1>3, <1>4, RowsDeleted
<1>8. result.round \in Kept /\ InForce(chain, votes, result.round) /\ Complete(chain, result.round, result.rounds)
  <2>1. result = Restored(chain, VotesOf(chain), round.forging, disk.rounds)
    BY <1>3
  <2>2. Read(chain, Active(round.forging, RoundOf(Len(chain)), <<>>))
    BY <1>6
  <2> HIDE DEF result
  <2> QED
    BY <1>2, <1>3, <1>7, <2>1, <2>2, RestoredCore
<1> HIDE DEF result
<1>9. disk' = [chain |-> disk.chain, rounds |-> result.rounds]
  BY <1>1, <1>2, DiskRecord
<1>10. disk'.chain = disk.chain /\ disk'.rounds = result.rounds /\ disk' = [chain |-> disk'.chain, rounds |-> disk'.rounds]
  BY <1>9
<1>11. job' = [phase |-> "apply", accepted |-> 0] /\ "apply" \in Phases \ {"down"} /\ 0 \in Nat /\ 0 = Len(chain') - Len(disk'.chain)
  BY <1>1, <1>2, <1>10 DEF NoJob, Phases
<1>12. InForce(chain', votes', round') /\ Complete(chain', round', disk'.rounds) /\ round' \in Kept
  BY <1>1, <1>8, <1>10
<1>13. Len(disk'.chain) \in 1..Len(chain') /\ (\A i \in 1..Len(disk'.chain) : disk'.chain[i] = chain'[i])
       /\ Len(chain') >= 1 /\ chain' \in Seq(Validator) /\ disk'.chain \in Seq(Validator) /\ votes' \in [Validator -> Nat]
       /\ (Accumulated => \E f : budget' = [faults |-> f, crashes |-> 0])
  BY <1>1, <1>2, <1>10
<1>14. InvOf(chain', votes', round', disk', job', budget')
  BY <1>10, <1>11, <1>12, <1>13, StaysUp
<1> QED
  BY <1>14, InvPrimed

\* The node stops.
LEMMA CrashStep ==
  ASSUME RoundStateAssumption, RoundsInv, Crash
  PROVE  RoundsInv'
<1>1. /\ job.phase # "down" /\ budget.crashes > 0 /\ job' = [phase |-> "down", accepted |-> 0]
      /\ chain' = chain /\ votes' = votes /\ round' = round /\ disk' = disk
  BY DEF Crash, NoJob
<1>2. /\ chain \in Seq(Validator) /\ Len(chain) >= 1 /\ Len(chain) \in Nat /\ votes \in [Validator -> Nat]
      /\ round \in Kept /\ disk = [chain |-> disk.chain, rounds |-> disk.rounds]
      /\ disk.chain \in Seq(Validator) /\ Len(disk.chain) \in 1..Len(chain)
      /\ \A i \in 1..Len(disk.chain) : disk.chain[i] = chain[i]
      /\ Complete(chain, round, disk.rounds) \/ Unsaved(chain, round, disk.rounds)
      /\ (Accumulated => \E f : budget = [faults |-> f, crashes |-> 0])
  BY <1>1, WhileUp
<1>3. ~Accumulated
  BY <1>1, <1>2
<1>4. Restartable(chain, disk)
  <2> DEFINE g == Len(disk.chain)
             h == Len(chain)
  <2>1. g \in Nat \ {0} /\ h \in Nat \ {0} /\ h + 1 \in Nat \ {0} /\ g <= h /\ h <= h + 1
    BY <1>2
  <2> HIDE DEF g, h
  <2>2. RoundOf(g) \in Nat /\ RoundOf(h) \in Nat /\ RoundOf(h + 1) \in Nat
        /\ RoundOf(g) <= RoundOf(h) /\ RoundOf(h) <= RoundOf(h + 1)
    BY <2>1, RoundBounds, RoundMonotone
  <2>3. RoundOf(h) \in RoundOf(g)..RoundOf(h + 1) /\ RoundOf(h + 1) \in RoundOf(g)..RoundOf(h + 1)
    BY <2>2
  <2>4. disk.rounds = Rows(chain, RoundOf(h)) \/ disk.rounds = Rows(chain, RoundOf(h + 1))
    BY <1>2 DEF Complete, Unsaved, NextRound, h
  <2> QED
    BY <2>3, <2>4 DEF Restartable, NextRound, g, h
<1>5. job' \in [phase : Phases, accepted : Nat] /\ job'.phase = "down"
  BY <1>1 DEF Phases
<1>6. Typed(chain', votes', round', disk', job') /\ Saved(chain', disk', job') /\ Exact(disk', job', budget')
  BY <1>1, <1>2, <1>3, <1>5 DEF Typed, Saved, Exact
<1>7. InvOf(chain', votes', round', disk', job', budget')
  BY <1>1, <1>4, <1>5, <1>6 DEF InvOf
<1> QED
  BY <1>7, InvPrimed

\* It starts again, from the saved blocks.
LEMMA RestartStep ==
  ASSUME RoundStateAssumption, RoundsInv, Restart
  PROVE  RoundsInv'
<1> DEFINE c == disk.chain
           h == Len(c)
           r == RoundOf(h)
           none == [round |-> 0, order |-> <<>>]
           rounds == IF h = 1 THEN {} ELSE disk.rounds
           a == Active(none, r, <<>>)
           result == Restored(c, votes', none, rounds)
<1>1. /\ job.phase = "down" /\ chain' = c /\ votes' = Rebuilt(c) /\ job' = NoJob /\ budget' = budget
      /\ round' = result.round /\ disk' = [disk EXCEPT !.rounds = result.rounds]
  BY DEF Restart
<1>2. /\ chain \in Seq(Validator) /\ c \in Seq(Validator) /\ disk = [chain |-> c, rounds |-> disk.rounds]
      /\ h \in 1..Len(chain) /\ (\A i \in 1..h : c[i] = chain[i])
      /\ Restartable(chain, disk)
      /\ (Accumulated => h = 1 /\ \E f : budget = [faults |-> f, crashes |-> 0])
  BY <1>1 DEF RoundsInv, InvOf, Typed, Saved, Exact
<1>3. Len(chain) \in Nat /\ h \in Nat \ {0} /\ h + 1 \in Nat \ {0} /\ h >= 1
  BY <1>2, LenProperties
<1>4. votes' = VotesOf(c) /\ votes' \in [Validator -> Nat]
  <2>1. CASE Accumulated
    BY <1>1, <1>2, <2>1, RebuiltOne, VotesType
  <2>2. CASE ~Accumulated
    BY <1>1, <1>2, <2>2, VotesType DEF Rebuilt
  <2> QED
    BY <2>1, <2>2
<1>5. r \in Nat \ {0} /\ RoundOf(h + 1) \in Nat \ {0} /\ r <= RoundOf(h + 1)
  <2>1. h <= h + 1
    BY <1>3
  <2> HIDE DEF h
  <2> QED
    BY <1>3, <2>1, RoundBounds, RoundMonotone
<1>6. DecidedIn(c, r) \in Seq(Validator) /\ DecidedIn(c, r) # <<>>
  <2>1. r \in 1..RoundOf(Len(c) + 1)
    BY <1>5
  <2> HIDE DEF r, c
  <2> QED
    BY <1>2, <1>3, <2>1, DecidedType DEF c, h
<1>7. ASSUME disk.rounds = {}, h = 1
      PROVE  Read(c, a) /\ h = 1 /\ DeleteRound(rounds, r + 1) = {}
  <2>1. a = [round |-> r, order |-> <<>>]
    BY <1>7, NothingStored DEF Active
  <2>2. a \in Forging
    <3>1. <<>> \in Seq(Validator)
      OBVIOUS
    <3> HIDE DEF a, r
    <3> QED
      BY <1>5, <2>1, <3>1 DEF Forging
  <2>3. Read(c, a)
    BY <1>7, <2>1, <2>2 DEF Read
  <2>4. h = 1 /\ DeleteRound(rounds, r + 1) = {}
    BY <1>7 DEF DeleteRound
  <2> QED
    BY <2>3, <2>4
<1>8. ASSUME NEW k \in r..NextRound(chain), disk.rounds = Rows(chain, k)
      PROVE  Read(c, a) /\ (DeleteRound(rounds, r + 1) = Rows(c, r) \/ (h = 1 /\ DeleteRound(rounds, r + 1) = {}))
  <2>0. k \in Nat /\ r \in Nat /\ r <= k /\ r \in 1..k /\ r <= RoundOf(h + 1)
    <3>1. NextRound(chain) \in Nat
      BY <1>3, RoundBounds DEF NextRound
    <3> HIDE DEF r
    <3> QED
      BY <1>5, <3>1
  <2> HIDE DEF r
  <2>1. DecidedIn(chain, r) = DecidedIn(c, r) /\ Rows(chain, r) = Rows(c, r)
    <3>1. \A i \in 1..h : chain[i] = c[i]
      BY <1>2
    <3>2. h \in 1..Len(chain) /\ h <= Len(c) /\ r \in 1..r
      BY <1>2, <1>3, <1>5
    <3> QED
      BY <1>2, <2>0, <3>1, <3>2, DecidedSame
  <2>2. /\ StoredOrder(r) \in Seq(Validator) /\ StoredOrder(r) # <<>>
        /\ ToSet(StoredOrder(r)) = ToSet(DecidedIn(c, r))
    BY <1>2, <1>6, <1>8, <2>0, <2>1, StoredOrderOf
  <2>3. a = [round |-> r, order |-> StoredOrder(r)]
    BY DEF Active
  <2>4. Read(c, a)
    <3> HIDE DEF a, c
    <3>1. a \in Forging
      BY <1>5, <2>2, <2>3 DEF Forging
    <3> QED
      BY <2>2, <2>3, <3>1 DEF Read, r, h
  <2>5. DeleteRound(disk.rounds, r + 1) = Rows(c, r)
    BY <1>8, <2>0, <2>1, RowsDeleted
  <2>6. DeleteRound({}, r + 1) = {}
    BY DEF DeleteRound
  <2> QED
    BY <2>4, <2>5, <2>6
<1>9. Read(c, a) /\ (DeleteRound(rounds, r + 1) = Rows(c, r) \/ (h = 1 /\ DeleteRound(rounds, r + 1) = {}))
  <2>1. (disk.rounds = {} /\ h = 1) \/ \E k \in r..NextRound(chain) : disk.rounds = Rows(chain, k)
    BY <1>2 DEF Restartable
  <2> HIDE DEF a, c, h, r, rounds
  <2> QED
    BY <2>1, <1>7, <1>8
<1>10. result.round \in Kept /\ InForce(c, votes', result.round) /\ Complete(c, result.round, result.rounds)
  <2>1. result = Restored(c, VotesOf(c), none, rounds)
    BY <1>4
  <2>2. Read(c, Active(none, RoundOf(Len(c)), <<>>))
    BY <1>9
  <2>3. \/ DeleteRound(rounds, RoundOf(Len(c)) + 1) = Rows(c, RoundOf(Len(c)))
        \/ Len(c) = 1 /\ DeleteRound(rounds, RoundOf(Len(c)) + 1) = {}
    BY <1>9
  <2>4. c \in Seq(Validator) /\ Len(c) >= 1
    BY <1>2, <1>3
  <2> HIDE DEF c, none, rounds, result
  <2> QED
    BY <1>4, <2>1, <2>2, <2>3, <2>4, RestoredCore
<1> HIDE DEF result, c
<1>11. disk' = [chain |-> c, rounds |-> result.rounds]
  <2>1. disk.chain = c
    BY DEF c
  <2> QED
    BY <1>1, <1>2, <2>1, DiskRecord
<1>12. disk'.chain = c /\ disk'.rounds = result.rounds /\ disk' = [chain |-> disk'.chain, rounds |-> disk'.rounds]
  BY <1>11
<1>13. job' = [phase |-> "apply", accepted |-> 0] /\ "apply" \in Phases \ {"down"} /\ 0 \in Nat /\ 0 = Len(chain') - Len(disk'.chain)
  BY <1>1, <1>3, <1>12 DEF NoJob, Phases
<1>14. InForce(chain', votes', round') /\ Complete(chain', round', disk'.rounds) /\ round' \in Kept
  BY <1>1, <1>10, <1>12
<1>15. Len(disk'.chain) \in 1..Len(chain') /\ (\A i \in 1..Len(disk'.chain) : disk'.chain[i] = chain'[i])
       /\ Len(chain') >= 1 /\ chain' \in Seq(Validator) /\ disk'.chain \in Seq(Validator)
  BY <1>1, <1>2, <1>3, <1>12
<1>16. Accumulated => \E f : budget' = [faults |-> f, crashes |-> 0]
  BY <1>1, <1>2
<1>17. InvOf(chain', votes', round', disk', job', budget')
  BY <1>4, <1>12, <1>13, <1>14, <1>15, <1>16, StaysUp
<1> QED
  BY <1>17, InvPrimed

-----------------------------------------------------------------------------
(* The specification *)

\* A database with a genesis block satisfies the invariant: no round is stored.
LEMMA RoundsInit ==
  ASSUME RoundStateAssumption, ~Accumulated \/ MaxCrashes = 0, Init
  PROVE  RoundsInv
<1>1. PICK v \in Validator : chain = <<v>> /\ disk = [chain |-> <<v>>, rounds |-> {}]
  BY DEF Init
<1>2. <<v>> \in Seq(Validator) /\ Len(<<v>>) = 1 /\ <<>> \in Seq(Validator)
  OBVIOUS
<1>3. /\ votes \in [Validator -> Nat] /\ job = [phase |-> "down", accepted |-> 0]
      /\ round = [blocks |-> <<>>, forging |-> [round |-> 0, order |-> <<>>]]
      /\ budget = [faults |-> MaxFaults, crashes |-> MaxCrashes]
  BY DEF Init, NoJob
<1>4. [round |-> 0, order |-> <<>>] \in Forging
  BY <1>2 DEF Forging
<1>5. round \in Kept
  BY <1>2, <1>3, <1>4 DEF Kept
<1>6. job \in [phase : Phases, accepted : Nat] /\ job.phase = "down"
  BY <1>3 DEF Phases
<1>7. disk = [chain |-> disk.chain, rounds |-> disk.rounds] /\ disk.chain = <<v>> /\ disk.rounds = {}
  BY <1>1
<1>8. Typed(chain, votes, round, disk, job)
  BY <1>1, <1>2, <1>3, <1>5, <1>6, <1>7 DEF Typed
<1>9. Saved(chain, disk, job)
  BY <1>1, <1>2, <1>6, <1>7 DEF Saved
<1>10. Exact(disk, job, budget)
  BY <1>2, <1>3, <1>7 DEF Exact
<1>11. Restartable(chain, disk)
  BY <1>2, <1>7 DEF Restartable
<1> QED
  BY <1>6, <1>8, <1>9, <1>10, <1>11 DEF RoundsInv, InvOf

\* Every step keeps it.
LEMMA RoundsNext ==
  ASSUME RoundStateAssumption, RoundsInv, [Next]_vars
  PROVE  RoundsInv'
<1>1. CASE \E v \in Validator : ApplyBlock(v) \/ SaveRoundFails(v) \/ AfterRoundFails(v)
  BY <1>1, ApplyStep
<1>2. CASE RevertRefused \/ RevertAccepted
  BY <1>2, RevertStep
<1>3. CASE SaveBlocks \/ SaveFails
  BY <1>3, SaveStep
<1>4. CASE RestoreAfterRevert
  BY <1>4, RestoreStep
<1>5. CASE Crash
  BY <1>5, CrashStep
<1>6. CASE Restart
  BY <1>6, RestartStep
<1>7. CASE UNCHANGED vars
  <2>1. /\ chain' = chain /\ votes' = votes /\ round' = round /\ disk' = disk /\ job' = job /\ budget' = budget
    BY <1>7 DEF vars
  <2>2. InvOf(chain', votes', round', disk', job', budget')
    BY <2>1 DEF RoundsInv
  <2> QED
    BY <2>2, InvPrimed
<1> QED
  BY <1>1, <1>2, <1>3, <1>4, <1>5, <1>6, <1>7 DEF Next

\* The invariant says what is promised of a settled state.
LEMMA RoundsPromised ==
  ASSUME RoundsInv
  PROVE  ForgingAsDecided /\ RoundsAsDecided /\ BlocksOfRound
<1> SUFFICES ASSUME job.phase \notin {"down", "revertOne"}
             PROVE  ForgingAsDecided /\ RoundsAsDecided /\ BlocksOfRound
  BY DEF ForgingAsDecided, RoundsAsDecided, BlocksOfRound, Settled
<1>1. InForce(chain, votes, round) /\ Complete(chain, round, disk.rounds)
  BY DEF RoundsInv, InvOf
<1>2. \A r : Decided(r) = DecidedIn(chain, r)
  BY DEF Decided, DecidedBy, DecidedIn, Cut
<1>3. RoundOf(Height + 1) = NextRound(chain)
  BY DEF NextRound, Height
<1>4. ForgingAsDecided
  BY <1>1, <1>2, <1>3 DEF ForgingAsDecided, InForce
<1>5. RoundsAsDecided
  BY <1>1, <1>2, <1>3 DEF RoundsAsDecided, Complete, Rows, Row
<1>6. BlocksOfRound
  BY <1>1, <1>3 DEF BlocksOfRound, Complete, Since, Height
<1> QED
  BY <1>4, <1>5, <1>6

\* With balances that are rebuilt exactly, or with no crash, whatever fails: the
\* validators in force and the rounds in the database are those the chain
\* decided, and the blocks of the round are those of the chain.
THEOREM RoundsFollowTheChain ==
  ASSUME RoundStateAssumption, ~Accumulated \/ MaxCrashes = 0
  PROVE  Spec => [](ForgingAsDecided /\ RoundsAsDecided /\ BlocksOfRound)
<1>1. Init => RoundsInv
  BY RoundsInit
<1>2. RoundsInv /\ [Next]_vars => RoundsInv'
  BY RoundsNext
<1>3. RoundsInv => ForgingAsDecided /\ RoundsAsDecided /\ BlocksOfRound
  BY RoundsPromised
<1> QED
  BY <1>1, <1>2, <1>3, PTL DEF Spec
=============================================================================
