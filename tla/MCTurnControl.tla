--------------------------- MODULE MCTurnControl ---------------------------
\* TurnControl as it is: its constants are numbers.
EXTENDS TurnControl
================================================================================
