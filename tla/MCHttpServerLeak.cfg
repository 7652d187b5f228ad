CONSTANTS
  Conns = {c1}
  MaxId = 2
  NoConn = NoConn
  MaxPending = 2
  MaxReplies = 1
  Pieces = 1
  Fits = {TRUE}
SPECIFICATION Spec
PROPERTY RefusedOnlyWhenFull
CHECK_DEADLOCK FALSE
