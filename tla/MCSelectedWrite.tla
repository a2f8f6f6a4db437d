--------------------------- MODULE MCSelectedWrite ---------------------------
\* SelectedWrite with one operation asked for twice.  Liveness is checked, for
\* which symmetry of the requests is not sound.
EXTENDS SelectedWrite
================================================================================
