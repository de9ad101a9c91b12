SPECIFICATION Spec
CONSTANTS
  Workers = {w1, w2}
  Requests <- UploadRequests
  Listing <- EntriesOf
  Selections <- UploadSelections
  Preexisting <- Nothing
  Policies = {"ask"}
  MaxParallel = 2
  Controls = {"close", "switch"}
  BrowserOps = {"upload"}
  MaxBatches = 3
  MaxConnections = 2
  MaxBrowser = 1
SYMMETRY WorkerSymmetry
INVARIANTS OneConflictPerBatch OneDialog
CHECK_DEADLOCK FALSE
