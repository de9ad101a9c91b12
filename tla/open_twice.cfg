SPECIFICATION Spec
CONSTANTS
  Workers = {w1, w2}
  Requests <- UploadRequests
  Listing <- EntriesOf
  Selections <- UploadSelections
  Preexisting <- Nothing
  Policies = {"ask"}
  MaxParallel = 2
  Controls = {}
  BrowserOps = {"upload"}
  MaxBatches = 2
  MaxConnections = 1
  MaxBrowser = 1
SYMMETRY WorkerSymmetry
INVARIANTS NeverOpenTwice
CHECK_DEADLOCK FALSE
