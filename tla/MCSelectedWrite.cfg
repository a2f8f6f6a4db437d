SPECIFICATION FairSpec
CONSTANTS
  Ops = {o1}
  Actors = {a1}
  Targets = {t1, t2}
  Requests = {r1, r2}
  PerActor = 2
  PerTarget = 1
  MaxOwners = 2
  MaxKeys = 2
  MaxRate = 2
  MaxFaults = 2
INVARIANTS
  AtMostOnce
  RepliesTrue
  TrailTrue
  ReadyMeansClosed
PROPERTIES
  DispatchStillAuthorised
  EveryRequestAnswered
