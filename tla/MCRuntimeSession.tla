-------------------------- MODULE MCRuntimeSession --------------------------
(* Instances of RuntimeSession for TLC.                                    *)
EXTENDS RuntimeSession, TLC

Symmetry == Permutations(Attempts)
=============================================================================
