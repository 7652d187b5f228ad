CONSTANTS
  solver = solver
  weather = weather
  plan = plan
  price = price
  Procs <- MCProcs
  Endpoints <- MCEndpoints
  MaxConns = 2
  MaxEntries = 2
  MaxLines <- MCMaxLines
  Overlap = FALSE
SYMMETRY MCSymmetry
SPECIFICATION Spec
INVARIANTS TypeOK EntriesAreConnected StaysRegistered ListedOnce TargetRegistered
CHECK_DEADLOCK FALSE
