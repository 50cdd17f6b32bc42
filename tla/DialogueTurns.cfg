SPECIFICATION FairSpec
CONSTANTS
  Ids = {"m", "n"}
  Askers <- OneTurn
  ContextTTL = 1
  ContextCacheMax = 1
  Setups <- ManySetups
  Replies <- ManyReplies
  MaxCalls = 2
  MaxCandidates = 2
  MaxTime = 1
INVARIANTS
  SameContext
  PromptWellFormed
PROPERTY
  AskersAreAnswered
\* Every asker is answered and every turn ends: nothing more happens.
CHECK_DEADLOCK FALSE
