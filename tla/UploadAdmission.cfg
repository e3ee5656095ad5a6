\* Two handlers under way at a time, one call that fails.
CONSTANTS
  c1 = c1
  c2 = c2
  Clients = {c1, c2}
  Partner <- MCPartner
  Files = {f1, f2, f3}
  Handlers = {h1, h2}
  None = None
  MaxUploads = 1
  MaxDownloads = 2
  MaxTransfers = 2
  MaxFailures = 1
SYMMETRY Symmetry
SPECIFICATION Spec
INVARIANTS TypeOK UploadsBounded DownloadsBounded TransfersBounded 
CHECK_DEADLOCK FALSE
