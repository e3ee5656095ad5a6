\* The retry promise, with and without Redis.
CONSTANTS
  Chunks = {c1, c2}
  MAX_RETRIES = 1
  None = None
  Handlers = {h1, h2}
  MaxSends = 1
SPECIFICATION FairSpec
PROPERTY NoChunkForgotten
CHECK_DEADLOCK FALSE
