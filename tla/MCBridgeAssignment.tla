------------------------- MODULE MCBridgeAssignment -------------------------
(* Instances of BridgeAssignment for TLC. *)
EXTENDS BridgeAssignment, TLC

Symmetry == Permutations(Incarnations) \cup Permutations(Assignments)
=============================================================================
