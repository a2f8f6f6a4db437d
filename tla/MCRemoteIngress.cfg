SPECIFICATION Spec
CONSTANTS
  o1 = o1
  o2 = o2
  o3 = o3
  s1 = s1
  Ops = {o1, o2, o3}
  Streams = {s1}
  Interval = 2
  MaxFaults = 2
  MaxDrifts = 2
INVARIANTS
  AdmissionEarned
  MappingRemembered
PROPERTIES
  StreamsEnd
CHECK_DEADLOCK FALSE
