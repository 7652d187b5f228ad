CONSTANTS
  Conns = {c1, c2}
  MaxId = 2
  NoConn = NoConn
  MaxPending = 2
  MaxReplies = 1
  Pieces = 2
  Fits = {TRUE}
SPECIFICATION Spec
INVARIANTS TypeOK RefsCoverHolders PendingIsOwn RightClient
CHECK_DEADLOCK FALSE
