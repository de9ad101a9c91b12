SPECIFICATION FairSpec
CONSTANTS
  Workers = {w1, w2}
  Requests <- DownloadRequests
  Listing <- EntriesOf
  Selections <- DownloadSelections
  Preexisting <- Nothing
  Policies = {"ask"}
  MaxParallel = 2
  Controls = {"cancel", "pause"}
  BrowserOps = {}
  MaxBatches = 2
  MaxConnections = 1
  MaxBrowser = 1
PROPERTIES KeepsPromise BatchEnds
CHECK_DEADLOCK FALSE
