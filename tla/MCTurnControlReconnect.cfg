SPECIFICATION Spec
CONSTANTS
  MaxTurns = 2
  MaxPrompts = 2
  MaxInterrupts = 1
  MaxLosses = 1
  MaxOthers = 1
INVARIANT
  ReconciledThreadFree
CHECK_DEADLOCK FALSE
