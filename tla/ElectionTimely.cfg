\* Three nodes, rounds that keep their times, and a database that may fail.
CONSTANTS
  Nodes = {n1, n2, n3}
  NoNode = NoNode
  ELECTION_INTERVAL = 2
  MASTER_TTL = 6
  MaxLate = 1
  RoundTime = 1
  StopTime = 1
  Faults = {"dbError"}
  MaxDisruptions = 2
SYMMETRY NodeSymmetry
SPECIFICATION Spec
INVARIANTS TypeOK MasterHoldsKey OneRouter
PROPERTIES RenewsOwnKey KeepsPromise
