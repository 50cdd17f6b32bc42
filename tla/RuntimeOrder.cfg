\* The process really ends: main returns after Ctrl+C.
SPECIFICATION FairSpec
CHECK_DEADLOCK FALSE
CONSTANTS
  relay = relay
  dialogue = dialogue
  Registered <- RelayAndDialogue
  Relay <- relay
  Dialogue <- dialogue
  MailboxCapacity = 2
  BroadcastCapacity = 2
  MaxRaw = 2
  Mentions <- TwoMentions
  MaxLines = 1
INVARIANTS
  TypeOK
  TurnsInOrder
PROPERTIES
  MailIsBroadcast
  MentionsAreTaken
  ShutdownEnds
