SPECIFICATION FairSpec
CONSTANTS
  c1 = c1  c2 = c2  c3 = c3
  Client = {c1, c2, c3}
  MaxSubscribers = 2
  Capacity = 2
  MaxEvents = 4
INVARIANTS CapHolds GapsAreTold
PROPERTIES FeedSpec ShutdownDrains CatchesUp
CHECK_DEADLOCK FALSE
