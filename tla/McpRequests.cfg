SPECIFICATION FairSpec
CONSTANTS
  Posts = {"p1", "p2"}
  Calls <- ManyCalls
  Lines <- ManyLines
  Tools = {"social", "web_fetch", "run_shell"}
  Urls = {"a", "local"}
  Public = {"a"}
  MaxRedirects = 2
  MaxBytes = 1
  MaxLines = 4
INVARIANT
  FetchIsBounded
PROPERTY
  RequestsAnswered
\* A disabled server does nothing, and a client need not go on.
CHECK_DEADLOCK FALSE
