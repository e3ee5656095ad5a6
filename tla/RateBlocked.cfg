\* Two requests under way at a time.
CONSTANTS
  Identifiers = {i1}
  Requests = {r1, r2}
  None = None
  RateLimit = 2
SPECIFICATION FairSpec
PROPERTY BlockedIsLetIn
CHECK_DEADLOCK FALSE
