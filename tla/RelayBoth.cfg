\* Nothing is left to do once the processes are gone, no message comes, or a
\* connection that nobody reads is clogged.
SPECIFICATION BoundedSpec
CHECK_DEADLOCK FALSE
CONSTANTS
  c1 = c1
  c2 = c2
  Conns = {c1, c2}
  PlatformOf <- OwnPlatforms
  Messages = {1, 2, 3, 4, 5}
  ConnOf <- OneAndMany
  Reads = {c1}
  Pings = {c1}
  ChannelCapacity = 1
  SocketCapacity = 1
  BroadcastCapacity = 1
INVARIANTS
  TypeOK
  FramesWhole
PROPERTIES
  ImplementsService
  IngestsReachAgent
  AnswersReachUsers
