\* Nothing need happen once the events are handled.
SPECIFICATION FairSpec
CHECK_DEADLOCK FALSE
CONSTANTS
  Ids = {1, 2}
  NoId = 0
  Events <- SomeEvents
  Teams <- SomeTeams
  KnownKeys = {"warmth"}
  EventCacheMax = 1
  BroadcastCapacity = 1
  Permits = 1
  MaxEvents = 3
INVARIANTS
  OncePerWindow
  MarkedCounts
PROPERTIES
  EvaluationsEnd
