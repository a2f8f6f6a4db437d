--------------------------- MODULE MCThreadStart ---------------------------
\* ThreadStart with two starts that ask for the same alias.
EXTENDS ThreadStart, TLC
CONSTANTS o1, o2
Symmetry == Permutations(Starts)
================================================================================
