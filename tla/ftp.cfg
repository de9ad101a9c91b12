SPECIFICATION FairSpec
CONSTANTS
  Kinds = {"list", "get", "put", "putDir", "remove", "rename"}
  FolderSteps <- OneFolder
  Chunks = 2
  Owners = {TRUE, FALSE}
  Controls = {"cancel", "pause"}
  Faults = {"refuse", "deny", "abort", "break"}
  MaxOps = 3
  MaxAfter = 1
  MaxConnects = 2
INVARIANTS ClientSound ReportedOnce NothingInClear ConfirmedComplete
PROPERTIES Answered
CHECK_DEADLOCK FALSE
