SPECIFICATION FairSpec
CONSTANTS
  Settings <- AllSettings
  Dirs = {home, work, locked, odd}
  Forbidden = {locked}
  Untypable = {odd}
  Home = home
  MaxTyped = 2
  MaxPosted = 3
  MaxAttempts = 2
  MaxRetries = 3
  MaxBridges = 1
  Scripts <- Greetings
INVARIANTS TunnelsSound FollowingSound
PROPERTIES ReleasedAfterEnd SamplesKeepComing NothingStays
CHECK_DEADLOCK FALSE
