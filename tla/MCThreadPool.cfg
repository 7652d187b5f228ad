CONSTANTS
  Workers = {w1, w2, w3}
  Tasks = {t1, t2, t3, t4}
  NoTask = NoTask
SPECIFICATION FairSpec
INVARIANTS InOrder NoSleepOnWork FreedIsQuiet PoolInv
PROPERTIES DestroyReturns ImplementsService
CHECK_DEADLOCK FALSE
