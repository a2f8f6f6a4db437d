SPECIFICATION FairDeliverySpec
CONSTANTS
  Clients = {c1, c2}
  MaxStreams = 1
  QueueMax = 2
  ReplayMax = 2
  PageSize = 1
  MaxAttempts = 2
  MaxRetries = 1
  Window = 1
  EventLimit = 2
  MaxEvents = 5
  MaxFaults = 1
CHECK_DEADLOCK FALSE
INVARIANTS
  PlacesMatchStreams
PROPERTIES
  ImplementsFeed
  EveryBrowserCatchesUp
