SPECIFICATION FairSpec
CONSTANTS
  MaxTurns = 2
  MaxPrompts = 2
  MaxInterrupts = 1
  MaxLosses = 1
  MaxOthers = 1
INVARIANTS
  VerdictTrue
PROPERTIES
  OwnTurnKept
  EndOfTurnSettles
CHECK_DEADLOCK FALSE
