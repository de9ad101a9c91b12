SPECIFICATION Spec
CONSTANTS
  Sizes <- MCSizes
  FirstSize <- MCFirstSize
  ScrollbackMax = 3
  Items <- MCItems
  Needle <- MCNeedle
  MaxItems = 2
  MaxEvents = 2
INVARIANTS ScreenSound ChunksDoNotMatter
PROPERTIES OnlyFontsBreakPainting ViewHolds SearchWorks
CHECK_DEADLOCK FALSE
