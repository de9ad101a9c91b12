SPECIFICATION Spec
CONSTANTS
  Workers = {w1, w2, w3}
  Requests <- BatchRequests
  Listing <- EntriesOf
  Selections <- BatchSelections
  Preexisting <- Nothing
  Policies = {"ask"}
  MaxParallel = 2
  Controls = {"cancel"}
  BrowserOps = {}
  MaxBatches = 3
  MaxConnections = 1
  MaxBrowser = 1
SYMMETRY WorkerSymmetry
INVARIANTS TypeOK DistinctBusyKeys ParallelLimit QueueSound
PROPERTIES CancelledStartsNothing NoSilentOverwrite
CHECK_DEADLOCK FALSE
