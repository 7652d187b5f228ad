CONSTANTS
  Plugins = {weather, pricing}
  Heeds = {weather}
  MaxAsks = 2
  MaxForks = 2
  MaxPolls = 2
SPECIFICATION FairSpec
INVARIANTS TypeOK PidIsOwnChild OneProcess ApartAllWaited
PROPERTIES StopIsHonoured CrashIsRepaired ShutdownEnds
CHECK_DEADLOCK FALSE
