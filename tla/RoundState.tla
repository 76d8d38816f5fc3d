----------------------------- MODULE RoundState -----------------------------
(***************************************************************************)
(* Rounds of validators (core-state: round-state.ts and dpos) under the    *)
(* job that applies, reverts and saves blocks, with crashes and restarts.  *)
(* What a block does to the votes is one vote for one validator; the order *)
(* in which a round's validators forge is a fixed shuffle of the order     *)
(* kept here.                                                              *)
(***************************************************************************)
EXTENDS Naturals, FiniteSets, SequencesExt

CONSTANTS
  Validator,     \* the registered validators
  KeyOrder,      \* all of them in the order of their public keys
  PerRound,      \* activeValidators, of every round
  Accumulated,   \* is the vote balance built as StateBuilder does (TRUE), or exactly
  MaxHeight, MaxChunk, MaxFaults, MaxCrashes \* bounds

RoundStateAssumption ==
  /\ IsFiniteSet(Validator) /\ KeyOrder \in Seq(Validator)
  /\ PerRound \in 2..Cardinality(Validator)
  /\ IsInjective(KeyOrder) /\ ToSet(KeyOrder) = Validator

VARIABLES
  chain,  \* the blocks applied to the state, from the genesis block
  votes,  \* validator.voteBalance
  round,  \* blocks: #blocksInCurrentRound; forging: #forgingValidators and their round
  disk,   \* the saved blocks and the saved rounds
  job,    \* accepted blocks that are not saved, and what the job does
  budget  \* faults and crashes left

vars == <<chain, votes, round, disk, job, budget>>

Height == Len(chain)

\* calculateRound and isNewRound, with one number of validators throughout.
RoundOf(h) == (h - 1) \div PerRound + 1
RoundHeight(h) == (RoundOf(h) - 1) * PerRound + 1
IsLastOfRound(h) == h % PerRound = 0

VotesOf(blocks) == [v \in Validator |-> Cardinality({i \in DOMAIN blocks : blocks[i] = v})]

\* buildValidatorRanking: by vote balance, then by public key.
KeyBefore(v, w) == \E i, j \in DOMAIN KeyOrder : i < j /\ KeyOrder[i] = v /\ KeyOrder[j] = w
Better(balance, v, w) == balance[v] > balance[w] \/ (balance[v] = balance[w] /\ KeyBefore(v, w))

\* The elements of S in the order of a relation.
Sorted(S, before) ==
  CHOOSE s \in [1..Cardinality(S) -> S] :
    IsInjective(s) /\ \A i, j \in DOMAIN s : i < j => <<s[i], s[j]>> \in before

Ranking(balance) == Sorted(Validator, {p \in Validator \X Validator : Better(balance, p[1], p[2])})

\* Faulty variant: one too many.
RoundValidatorsAndOne(balance) == SubSeq(Ranking(balance), 1, PerRound + 1)

\* setValidatorsRound: the best ones, as many as forge.
RoundValidators(balance) == SubSeq(Ranking(balance), 1, PerRound)

\* getRound of the database service sorts by balance and then by key, so the
\* key decides.
StoredOrder(r) ==
  Sorted({v \in Validator : \E e \in disk.rounds : e.round = r /\ v \in ToSet(e.validators)},
         {p \in Validator \X Validator : KeyBefore(p[1], p[2])})

\* getActiveValidators: those in force if they are of that round, else those
\* given, else those of the database.
Active(forging, r, given) ==
  IF forging.order # <<>> /\ forging.round = r THEN forging
  ELSE [round |-> r, order |-> IF given # <<>> THEN given ELSE StoredOrder(r)]

\* saveRound keeps a round that is there; deleteRound removes it and all after it.
SaveRound(rounds, r, order) ==
  IF \E e \in rounds : e.round = r THEN rounds ELSE rounds \cup {[round |-> r, validators |-> order]}
DeleteRound(rounds, r) == {e \in rounds : e.round < r}

NoJob == [phase |-> "apply", accepted |-> 0]

-----------------------------------------------------------------------------

\* #applyRound where a round starts: rank, choose, save, and forget the blocks.
StartRound(rs, rounds, h, balance) ==
  LET r == RoundOf(h + 1)
      order == RoundValidators(balance)
  IN  [round  |-> [forging |-> Active(rs.forging, r, order), blocks |-> <<>>],
       rounds |-> SaveRound(rounds, r, order)]

Starts(h) == h = 1 \/ IsLastOfRound(h)

\* databaseInteraction.applyBlock: the block state is changed, then the round.
Applied(v) ==
  /\ job.phase = "apply" /\ job.accepted < MaxChunk /\ Height < MaxHeight
  /\ chain' = Append(chain, v)
  /\ votes' = [votes EXCEPT ![v] = @ + 1]
  /\ LET pushed == [round EXCEPT !.blocks = Append(@, v)]
         result == IF Starts(Height + 1) THEN StartRound(pushed, disk.rounds, Height + 1, votes')
                   ELSE [round |-> pushed, rounds |-> disk.rounds]
     IN  round' = result.round /\ disk' = [disk EXCEPT !.rounds = result.rounds]

ApplyBlock(v) ==
  /\ Applied(v)
  /\ job' = [job EXCEPT !.accepted = @ + 1]
  /\ UNCHANGED budget

\* The new round cannot be saved: its validators are in force already, the
\* blocks are not forgotten, and the handler reverts the block.
SaveRoundFails(v) ==
  /\ job.phase = "apply" /\ job.accepted < MaxChunk /\ Height < MaxHeight
  /\ Starts(Height + 1) /\ budget.faults > 0
  /\ budget' = [budget EXCEPT !.faults = @ - 1]
  /\ chain' = Append(chain, v)
  /\ votes' = [votes EXCEPT ![v] = @ + 1]
  /\ round' = [blocks  |-> Append(round.blocks, v),
               forging |-> Active(round.forging, RoundOf(Height + 2), RoundValidators(votes'))]
  /\ job' = [job EXCEPT !.phase = "revertOne"]
  /\ UNCHANGED disk

\* What follows the round (an event, the pool) fails: the block is reverted.
AfterRoundFails(v) ==
  /\ budget.faults > 0
  /\ Applied(v)
  /\ budget' = [budget EXCEPT !.faults = @ - 1]
  /\ job' = [job EXCEPT !.phase = "revertOne"]

-----------------------------------------------------------------------------
\* #getBlocksForRound: the blocks of the last block's round, from memory and,
\* for those that memory no longer has, from the database.
BlocksForRound(blocks) == SubSeq(blocks, RoundHeight(Len(blocks)), Len(blocks))

\* calcPreviousActiveValidators: the blocks of the round, without the genesis
\* block, are taken back on a clone of the wallets, and the clone is ranked.
PreviousVotes(blocks) ==
  LET taken == IF RoundOf(Height) = 1 /\ Len(blocks) = Height THEN Tail(blocks) ELSE blocks
  IN  [v \in Validator |-> votes[v] - VotesOf(taken)[v]]

\* Faulty variant: the round that was begun stays in the database.
RevertRoundKeepRow(blocks) ==
  [forging |-> Active(round.forging, RoundOf(Height), RoundValidators(PreviousVotes(blocks))),
   rounds  |-> disk.rounds]

\* #revertRound: a block that ended a round gives the round back its validators.
RevertRound(blocks) ==
  IF ~IsLastOfRound(Height) THEN [forging |-> round.forging, rounds |-> disk.rounds]
  ELSE [forging |-> Active(round.forging, RoundOf(Height), RoundValidators(PreviousVotes(blocks))),
        rounds  |-> DeleteRound(disk.rounds, RoundOf(Height) + 1)]

\* RevertBlockHandler: the round, then the block state, then the last block.
RevertBlock ==
  LET blocks == IF round.blocks = <<>> THEN BlocksForRound(chain) ELSE round.blocks
      result == RevertRound(blocks)
  IN  /\ round' = [blocks |-> Front(blocks), forging |-> result.forging]
      /\ disk' = [disk EXCEPT !.rounds = result.rounds]
      /\ votes' = [votes EXCEPT ![Last(chain)] = @ - 1]
      /\ chain' = Front(chain)

\* A refused block is reverted; the chunk ends with those accepted before.
RevertRefused ==
  /\ job.phase = "revertOne"
  /\ RevertBlock
  /\ job' = [job EXCEPT !.phase = "save"]
  /\ UNCHANGED budget

SaveBlocks ==
  /\ job.phase \in {"apply", "save"} /\ (job.accepted > 0 \/ job.phase = "save")
  /\ disk' = [disk EXCEPT !.chain = chain]
  /\ job' = NoJob
  /\ UNCHANGED <<chain, votes, round, budget>>

SaveFails ==
  /\ job.phase \in {"apply", "save"} /\ job.accepted > 0 /\ budget.faults > 0
  /\ budget' = [budget EXCEPT !.faults = @ - 1]
  /\ job' = [job EXCEPT !.phase = "revertAll"]
  /\ UNCHANGED <<chain, votes, round, disk>>

RevertAccepted ==
  /\ job.phase = "revertAll" /\ job.accepted > 0
  /\ RevertBlock
  /\ job' = [job EXCEPT !.accepted = @ - 1]
  /\ UNCHANGED budget

\* restore: the round of the last block from the database, later rounds
\* deleted, and the next round begun if the last block ends one.
Restored(blocks, balance, forging, rounds) ==
  LET h       == Len(blocks)
      deleted == DeleteRound(rounds, RoundOf(h) + 1)
      now     == [blocks |-> BlocksForRound(blocks), forging |-> Active(forging, RoundOf(h), <<>>)]
  IN  IF Starts(h) THEN StartRound(now, deleted, h, balance)
      ELSE [round |-> now, rounds |-> deleted]

\* After all are reverted: restoreCurrentRound.  (The rounds deleted before it
\* are among those it deletes.)
RestoreAfterRevert ==
  /\ job.phase = "revertAll" /\ job.accepted = 0
  /\ LET result == Restored(chain, votes, round.forging, disk.rounds)
     IN  round' = result.round /\ disk' = [disk EXCEPT !.rounds = result.rounds]
  /\ job' = NoJob
  /\ UNCHANGED <<chain, votes, budget>>

-----------------------------------------------------------------------------
Crash ==
  /\ job.phase # "down" /\ budget.crashes > 0
  /\ budget' = [budget EXCEPT !.crashes = @ - 1]
  /\ job' = [NoJob EXCEPT !.phase = "down"]
  /\ UNCHANGED <<chain, votes, round, disk>>

\* StateBuilder: after each block of the database, buildVoteBalances adds every
\* voter's balance to the vote balance.
Rebuilt(blocks) ==
  IF ~Accumulated THEN VotesOf(blocks)
  ELSE [v \in Validator |-> FoldLeft(LAMBDA sum, h : sum + VotesOf(SubSeq(blocks, 1, h))[v],
                                     0, [h \in 1..Len(blocks) |-> h])]

\* Initialize: the wallets are rebuilt from the saved blocks and the round is
\* restored; a chain of the genesis block alone deletes round 1 too.
Restart ==
  /\ job.phase = "down"
  /\ chain' = disk.chain
  /\ votes' = Rebuilt(disk.chain)
  /\ LET rounds == IF Len(disk.chain) = 1 THEN {} ELSE disk.rounds
         result == Restored(disk.chain, votes', [round |-> 0, order |-> <<>>], rounds)
     IN  round' = result.round /\ disk' = [disk EXCEPT !.rounds = result.rounds]
  /\ job' = NoJob
  /\ UNCHANGED budget

\* A database with a genesis block, before the process starts.
Init ==
  /\ \E v \in Validator : chain = <<v>> /\ disk = [chain |-> <<v>>, rounds |-> {}]
  /\ votes = [v \in Validator |-> 0]
  /\ round = [blocks |-> <<>>, forging |-> [round |-> 0, order |-> <<>>]]
  /\ job = [NoJob EXCEPT !.phase = "down"]
  /\ budget = [faults |-> MaxFaults, crashes |-> MaxCrashes]

Next ==
  \/ \E v \in Validator : ApplyBlock(v) \/ SaveRoundFails(v) \/ AfterRoundFails(v)
  \/ RevertRefused \/ SaveBlocks \/ SaveFails \/ RevertAccepted \/ RestoreAfterRevert
  \/ Crash \/ Restart

Spec == Init /\ [][Next]_vars

-----------------------------------------------------------------------------
\* Properties.  Those about the state hold when no block is half applied or
\* half reverted.

Settled == job.phase \notin {"down", "revertOne"}

\* The balance that decided a round of this chain: at the end of the round before.
DecidedBy(r) == VotesOf(SubSeq(chain, 1, IF r = 1 THEN 1 ELSE (r - 1) * PerRound))
Decided(r) == RoundValidators(DecidedBy(r))

\* Votes are numbers; a round is stored once, with its number of validators.
TypeOK ==
  /\ votes \in [Validator -> Nat] /\ Height \in 1..MaxHeight
  /\ \A e \in disk.rounds : Len(e.validators) = PerRound
  /\ \A e, f \in disk.rounds : e.round = f.round => e = f

\* The validators in force are those of the next block's round, as the chain
\* decided them, after any sequence of blocks, failures, reverts and restarts.
ForgingAsDecided ==
  Settled =>
    /\ round.forging.round = RoundOf(Height + 1)
    /\ ToSet(round.forging.order) = ToSet(Decided(RoundOf(Height + 1)))

\* The database holds every round up to the next block's, as decided, and no
\* later one: a round of blocks that were reverted would be used when the chain
\* comes there again, because a stored round is never overwritten.
RoundsAsDecided ==
  Settled =>
    disk.rounds = {[round |-> r, validators |-> Decided(r)] : r \in 1..RoundOf(Height + 1)}

\* The blocks of the round are those of the chain since the round began (the
\* genesis block is there only after a restart).
BlocksOfRound ==
  Settled =>
    LET since == SubSeq(chain, RoundHeight(Height + 1), Height)
    IN  round.blocks = since \/ (RoundOf(Height + 1) = 1 /\ round.blocks = Tail(since))

\* Does not hold (README, section 5):
\* A node that restarts forges in the same order as one that goes on: says
\* round-state.ts, "we already know the validators, so we don't have to query
\* the database".
OrderAsDecided ==
  Settled => round.forging.order = Decided(RoundOf(Height + 1))
=============================================================================
