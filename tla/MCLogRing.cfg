CONSTANTS
  Threads = {main, worker, http}
  NoThread = NoThread
  Entries = {a, b}
  NoEntry = NoEntry
  capacity = 3
  Asked = {1, 2, 3, 4}
  MaxPushed = 6
SPECIFICATION Spec
INVARIANTS TypeOK KeepsLast ReturnsLast
