\* Three requests under way at a time.
CONSTANTS
  Identifiers = {i1}
  Requests = {r1, r2, r3}
  None = None
  RateLimit = 3
SPECIFICATION Spec
INVARIANTS TypeOK RateBounded
CHECK_DEADLOCK FALSE
