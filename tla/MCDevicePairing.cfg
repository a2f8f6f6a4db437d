SPECIFICATION Spec
CONSTANTS
  k1 = k1
  b1 = b1
  b2 = b2
  r1 = r1
  r2 = r2
  q1 = q1
  q2 = q2
  Codes = {k1}
  Browsers = {b1, b2}
  Claims = {r1, r2}
  Boots = {q1, q2}
  Window = 2
  CodeLife = 3
  StateTtl = 3
  DeviceLife = 3
  MaxPerSource = 1
  MaxGlobal = 1
  MaxTracked = 1
  InFlightPerSource = 1
  InFlight = 1
  MaxTime = 3
  MaxFaults = 1
SYMMETRY Symmetry
INVARIANTS
  CodeSpentOnce
  GuessesBounded
  TrailsTrue
PROPERTIES
  NoStaleAnswer
CHECK_DEADLOCK FALSE
