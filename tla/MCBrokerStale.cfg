CONSTANTS
  solver = solver
  weather = weather
  plan = plan
  price = price
  Procs <- MCProcs
  Endpoints <- MCEndpoints
  MaxConns = 2
  MaxEntries = 3
  MaxLines <- MCMaxLines
  Overlap = FALSE
SYMMETRY MCSymmetry
SPECIFICATION Spec
INVARIANT TargetIsAlive
CHECK_DEADLOCK FALSE
