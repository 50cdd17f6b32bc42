SPECIFICATION FairSpec
CONSTANTS
  QueueCapacity = 2
  BatchSize = 2
  MaxMessages = 6
  MaxCrashes = 1
INVARIANTS
  TypeOK
  InOrder
  Accounted
  SignalledSafe
PROPERTIES
  ImplementsLog
  Settles
  Stops
