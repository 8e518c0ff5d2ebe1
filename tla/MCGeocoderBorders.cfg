CONSTANTS
  a = a
  b = b
  nul = nul
  err = err
  notFound = notFound
  none = none
  Empty <- MCEmpty
  NodeSize = 0
  BufLen = 2
  Nul = nul
  Err = err
  Tolerance = 2
  NotFound = notFound
  N = 3
  Chars = {a, b}
  Inputs <- MCInputs
  Places <- MCPlaces
  Radius = 2
  None = none
SPECIFICATION Spec
INVARIANTS BorderFoundIffContains
CHECK_DEADLOCK FALSE
