SPECIFICATION FairSpec
CONSTANTS
  Ids = {i1}
  Users = {u1, u2}
  Capacity = 1
  Others = 1
  MaxGen = 2
  MaxTail = 1
CHECK_DEADLOCK FALSE
INVARIANTS
  OneResponse
  DecisionKept
  ResolutionIsReal
PROPERTY
  DueExpires
