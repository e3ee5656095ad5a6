\* Two uploads of one client that start together, no failures.
CONSTANTS
  c1 = c1
  c2 = c2
  Clients = {c1, c2}
  Partner <- MCPartner
  Files = {f1, f2}
  Handlers = {h1, h2}
  None = None
  MaxUploads = 2
  MaxDownloads = 2
  MaxTransfers = 3
  MaxFailures = 0
SYMMETRY Symmetry
SPECIFICATION Spec
INVARIANT AcceptedIsDownloading
CHECK_DEADLOCK FALSE
