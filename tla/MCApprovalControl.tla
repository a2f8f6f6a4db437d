-------------------------- MODULE MCApprovalControl --------------------------
\* ApprovalControl with small sets of request ids and users.  Users are
\* interchangeable, but liveness is checked, for which symmetry is not sound.
EXTENDS ApprovalControl
================================================================================
