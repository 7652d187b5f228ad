CONSTANTS
  Conns = {c1}
  MaxId = 2
  NoConn = NoConn
  MaxPending = 1
  MaxReplies = 2
  Pieces = 3
  Fits = {TRUE}
SPECIFICATION FairSpec
PROPERTIES AnswerDelivered ResetIsNoticed
CHECK_DEADLOCK FALSE
