CONSTANTS
  MaxLines = 4
  MaxPushes = 1
  Lengths = {1, 2, 3}
  Room = 3
  Space = 3
  Short = 2
SPECIFICATION Spec
INVARIANTS TypeOK WaitsForAReason
PROPERTIES CarriesUp CarriesDown 
CHECK_DEADLOCK FALSE
