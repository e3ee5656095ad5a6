CONSTANTS
  Nodes = {n1, n2}
  Clients = {c1}
  Sockets = {s1, s2}
  Messages = {m1}
  None = None
  Faults = {"crash", "stepDown", "redisError", "dbError", "expiry", "publishError", "loss"}
  MaxDisruptions = 1
SYMMETRY Symmetry
SPECIFICATION Spec
INVARIANTS TypeOK AtMostOnce SettledIsReached RowsMatchSockets
CHECK_DEADLOCK FALSE
