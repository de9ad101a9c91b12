SPECIFICATION Spec
CONSTANTS
  t1 = t1
  t2 = t2
  t3 = t3
  Tabs <- ThreeTabs
  GroupNames = {"g", "h"}
  FirstPanes = 2
  MaxPanes = 3
  MaxGroups = 3
  MaxCommands = 8
INVARIANTS PanesSound
PROPERTIES SessionsKept
SYMMETRY Alike
CHECK_DEADLOCK FALSE
