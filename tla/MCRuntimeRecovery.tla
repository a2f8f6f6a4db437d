------------------------- MODULE MCRuntimeRecovery -------------------------
\* RuntimeRecovery with one adopted and one started session.
EXTENDS RuntimeRecovery
CONSTANTS s1, s2
================================================================================
