\* The receiver's socket may close while its session still lists the file.
CONSTANTS
  Chunks = {c1, c2}
  MAX_RETRIES = 1
  None = None
  Handlers = {h1, h2}
  MaxSends = 1
SYMMETRY Symmetry
SPECIFICATION Spec
INVARIANT AcknowledgedIsReceived
CHECK_DEADLOCK FALSE
