SPECIFICATION FairSpec
CONSTANTS
  MaxTabs = 3
  MaxEvents = 3
  AutoReconnect = TRUE
  Failures = {"tcp", "auth", "shell"}
  Prompts = {"hostkey", "kbd"}
INVARIANTS TabsSound SidebarFollows
PROPERTIES GuiResponds StoppedReconnects
CHECK_DEADLOCK FALSE
