---------------------------- MODULE MCBlockchain ----------------------------
(***************************************************************************)
(* A small network for TLC: a chain of two blocks above the genesis block  *)
(* and a block that competes with the first of them.                       *)
(***************************************************************************)
EXTENDS Blockchain

MCBlock == {"g", "a1", "a2", "b1"}

MCParent == [g |-> "g", a1 |-> "g", a2 |-> "a1", b1 |-> "g"]

MCHeight == [g |-> 1, a1 |-> 2, a2 |-> 3, b1 |-> 2]

\* The same network without the second block of the chain.
MCShortBlock == MCBlock \ {"a2"}

MCShortParent == [b \in MCShortBlock |-> MCParent[b]]

MCShortHeight == [b \in MCShortBlock |-> MCHeight[b]]
=============================================================================
