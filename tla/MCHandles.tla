------------------------------ MODULE MCHandles ------------------------------
\* Handles with symmetric library threads.
EXTENDS Handles, TLC

Symmetry == Permutations(Libs)
=============================================================================
