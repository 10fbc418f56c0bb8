-------------------------- MODULE MCWorkspaceSlots --------------------------
(* Instances of WorkspaceSlots for TLC: one checkout and two of its lanes. *)
EXTENDS WorkspaceSlots, TLC

(* The requests a and b are for either lane, c is for the checkout.        *)
CONSTANTS a, b, c, root, lane1, lane2

MCKeys == [r \in Requests |-> IF r = c THEN {root} ELSE {lane1, lane2}]
MCParent == [k \in {root, lane1, lane2} |-> IF k = root THEN None ELSE root]

(* The lanes, the requests for them, and the worker processes are          *)
(* interchangeable.                                                        *)
Symmetry == Permutations(Requests \ {c}) \cup Permutations({lane1, lane2})
              \cup Permutations(Incarnations)
=============================================================================
