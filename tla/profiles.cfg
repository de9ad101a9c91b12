SPECIFICATION Spec
CONSTANTS
  Fields = {"own", "jump", "socks"}
  Ids = {0, 1, 2, 3}
  SavedBefore <- TargetSaved
  MasterPasswords = {"m1"}
  MaxSalts = 2
  EarlierVersions = {TRUE}
  MaxFaults = 1
  Hosts = {"h1", "h2"}
  SavedSessions <- BastionAndTarget
  Imports <- OneImported
  MaxSessions = 3
  MaxCommands = 2
  Forms <- TypedForms
INVARIANTS StoreSound
PROPERTIES NeverPlain NothingLost LinkedRouteIsCurrent
CHECK_DEADLOCK FALSE
