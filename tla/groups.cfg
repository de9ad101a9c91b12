SPECIFICATION Spec
CONSTANTS
  Names = {"a", "b"}
  OddTexts <- ThreeOddTexts
  MaxDepth = 2
  MaxGroups = 4
  MaxCommands = 3
  SavedList <- TwoSessions
INVARIANTS TreeSound
PROPERTIES NoMerge
CHECK_DEADLOCK FALSE
