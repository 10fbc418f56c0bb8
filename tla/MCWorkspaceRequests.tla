------------------------ MODULE MCWorkspaceRequests ------------------------
(* Instances of WorkspaceRequests for TLC.                                 *)
EXTENDS WorkspaceRequests, TLC

Symmetry == Permutations(Attempts)
=============================================================================
