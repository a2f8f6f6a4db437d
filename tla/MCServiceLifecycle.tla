------------------------- MODULE MCServiceLifecycle -------------------------
\* ServiceLifecycle with a few releases.  They are ordered, so no symmetry.
EXTENDS ServiceLifecycle
================================================================================
