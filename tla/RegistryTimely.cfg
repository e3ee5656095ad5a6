\* A heartbeat comes once a tick, and may be one late: three of these periods
\* make the limit, with two disruptions of any kind.
CONSTANTS
  Nodes = {n1, n2}
  Sockets = {s1}
  None = None
  HEARTBEAT_INTERVAL = 1
  DEAD_AFTER = 6
  MaxLate = 1
  Faults = {"dbError"}
  MaxDisruptions = 2
SPECIFICATION FairSpec
INVARIANTS TypeOK RunningIsActive OpenIsActive
PROPERTY CrashIsNoticed
