\* Nothing is left to do once the processes are gone or no message comes.
SPECIFICATION FairSpec
CHECK_DEADLOCK FALSE
CONSTANTS
  c1 = c1
  c2 = c2
  Conns = {c1, c2}
  PlatformOf <- SamePlatform
  Messages = {1, 2}
  ConnOf <- TwoOnFirst
  Reads = {c2}
  Pings = {}
  ChannelCapacity = 1
  SocketCapacity = 1
  BroadcastCapacity = 4
PROPERTY
  AnswersReachUsers
