\* Nothing need happen once the mentions and the time are used up.
SPECIFICATION FairSpec
CHECK_DEADLOCK FALSE
CONSTANTS
  dm = dm
  Mentions = {1, 2}
  Convs = {dm}
  ConvOf <- OneChat
  BaseTimeout = 0
  PerMessage = 1
  MaxTimeout = 2
  MinIngest = 2
  Permits = 1
  LoadLimit = 3
  QueueCapacity = 1
  BroadcastCapacity = 2
  MaxTime = 5
  MaxRestarts = 1
INVARIANTS
  TypeOK
  IngestsConversationsOnce
PROPERTIES
  EndsAreHanded
  SessionsEnd
  HistoriesAreRead
