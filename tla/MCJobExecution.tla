--------------------------- MODULE MCJobExecution ---------------------------
EXTENDS JobExecution, TLC

Symmetry == Permutations(Attempts)
=============================================================================
