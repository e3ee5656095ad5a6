\* Two nodes, a timer that may stall for longer than the key lives, and
\* every kind of fault but those of the database.
CONSTANTS
  Nodes = {n1, n2}
  NoNode = NoNode
  ELECTION_INTERVAL = 2
  MASTER_TTL = 4
  MaxLate = 3
  RoundTime = 1
  StopTime = 1
  Faults = {"redisError", "quickRestart"}
  MaxDisruptions = 2
SPECIFICATION FairSpec
INVARIANT RoleSettles
PROPERTIES Failover StaleMasterYields
