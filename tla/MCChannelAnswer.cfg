CONSTANTS
  MaxLines = 4
  MaxPushes = 0
  Lengths = {1, 2, 3}
  Room = 3
  Space = 3
  Short = 2
SPECIFICATION Spec
INVARIANTS AnswerIsOwn
CHECK_DEADLOCK FALSE
