CONSTANTS
  Plugins = {weather, pricing}
  Heeds = {weather}
  MaxAsks = 1
  MaxForks = 3
  MaxPolls = 2
SPECIFICATION FairSpec
INVARIANT AllChildrenWaited
CHECK_DEADLOCK FALSE
