-------------------------- MODULE MCDevicePairing --------------------------
\* DevicePairing with one code or a wrong guess, two browsers and two claims and two bootstraps.
EXTENDS DevicePairing, TLC
CONSTANTS k1, b1, b2, r1, r2, q1, q2
Symmetry == Permutations(Claims) \cup Permutations(Browsers) \cup Permutations(Boots)
================================================================================
