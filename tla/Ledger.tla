------------------------------- MODULE Ledger -------------------------------
(* What a node keeps of its own chain: the stored blocks (Database), which it   *)
(* serves to a peer (Server), and, beside them and with no variable in common, *)
(* the rounds of validators (RoundState).                                      *)
EXTENDS Server

CONSTANTS Validator, KeyOrder, PerRound, Accumulated, MaxApplied, RoundChunk, RoundFaults, RoundCrashes \* of RoundState

VARIABLES chain, votes, round, roundsDisk, roundsJob, roundsBudget

Rounds == INSTANCE RoundState WITH
  MaxHeight <- MaxApplied, MaxChunk <- RoundChunk, MaxFaults <- RoundFaults, MaxCrashes <- RoundCrashes,
  disk <- roundsDisk, job <- roundsJob, budget <- roundsBudget

LedgerAssumption == ServerAssumption /\ Rounds!RoundStateAssumption

-----------------------------------------------------------------------------
\* After applied, failed and reverted blocks and restarts, the forging
\* validators, the stored rounds and the blocks of the round are those that the
\* chain decides (RoundState.applyBlock, revertBlock and restore).
RoundsAsDecided ==
  /\ Rounds!ForgingAsDecided
  /\ Rounds!RoundsAsDecided
  /\ Rounds!BlocksOfRound
=============================================================================
