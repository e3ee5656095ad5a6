\* Both settings; two chunks, each sent once or twice, two handlers at a time.
\* The process of the node may crash, and the bound on sends is reached.
SPECIFICATION FairSpec
CONSTANTS
  Chunks = {c1, c2}
  MAX_RETRIES = 1
  None = None
  Handlers = {h1, h2}
  MaxSends = 2
INVARIANTS TypeOK CompletesOnce RetriesBounded
PROPERTIES SettledStaysSettled StoredStaysCompleted PendingSettles AllInCompletes
CHECK_DEADLOCK FALSE
