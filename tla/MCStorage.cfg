CONSTANTS
  Reports <- MCReports
  NoReport = NoReport
  Configured <- MCConfigured
  MaxReports = 2
  MaxBoots = 2
  MaxTime = 2
  Types <- MCTypes
  Known <- MCKnown
  Times <- MCTimes
  Vals <- MCVals
  NoVal = NoVal
  Decimals <- MCDecimals
  Digits <- MCDigits
  Local <- MCLocal
  Backup <- MCBackup
  Interval = 1
SPECIFICATION Spec
INVARIANTS TypeOK ConfirmedIsStored LatestIsNewest UsedWhileAlive CellsWereReported
PROPERTIES ReplayRestores ImplementsSeries
CHECK_DEADLOCK FALSE
