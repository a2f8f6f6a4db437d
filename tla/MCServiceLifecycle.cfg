SPECIFICATION FairSpec
CONSTANTS
  MaxRelease = 2
  MaxKills = 2
  MaxFailures = 2
  MaxReboots = 1
CHECK_DEADLOCK FALSE
INVARIANTS
  AllOrNothing
  SameRelease
PROPERTIES
  RollbackTrue
  JournalResolves
