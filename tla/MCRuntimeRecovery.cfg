SPECIFICATION FairSpec
CONSTANTS
  s1 = s1
  s2 = s2
  Sessions = {s1, s2}
  Adopted = {s1}
  Limit = 1
  MaxLosses = 1
  MaxEvents = 2
  MaxFaults = 1
INVARIANTS
  CurrentIsConnected
  BoundarySeparates
  AdmittedIsReconciled
  NoneSkipped
PROPERTIES
  LossIsAnswered
CHECK_DEADLOCK FALSE
