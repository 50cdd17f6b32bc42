SPECIFICATION FairSpec
CONSTANTS
  u = u
  v = v
  uv = uv
  Names = {u, v}
  Keys = {uv}
  KeyOf <- OneKey
  Queries = {"caller"}
  Hints = {10}
  ToolInputs <- Strict
  AffectLimit = 1
  DialogueLimit = 2
  Updates <- OneUpdate
  Stored <- Before
  Breaks = {2, 12}
  Day = 2
  Decay <- Daily
  MaxTime = 2
INVARIANTS
  TypeOK
  FreshIsRecent
  PathsAgree
PROPERTIES
  QueriesAreAnswered
