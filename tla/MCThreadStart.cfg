SPECIFICATION Spec
CONSTANTS
  o1 = o1
  o2 = o2
  Starts = {o1, o2}
  MaxFaults = 4
  MaxCrashes = 3
SYMMETRY Symmetry
INVARIANTS
  OneThreadPerStart
  ThreadIsTraceable
  AliasHasOneOwner
  ArchivedIsArchived
CHECK_DEADLOCK FALSE
