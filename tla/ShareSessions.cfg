\* Two handlers that may overlap, one of which may fail.
CONSTANTS
  Clients = {c1, c2}
  Shares = {s1}
  None = None
  Handlers = {h1, h2}
  MaxSockets = 2
  MaxFailures = 1
SYMMETRY Symmetry
SPECIFICATION Spec
INVARIANTS TypeOK ShareHoldsTwo JoinedIsMember ClientLocated GoneIsMarked
