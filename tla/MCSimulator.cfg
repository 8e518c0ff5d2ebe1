CONSTANTS
  p1 = p1
  p2 = p2
  p3 = p3
  info1 = info1
  info2 = info2
  bad = bad
  noInfo = noInfo
  none = none
  lost = lost
  garbled = garbled
  c1 = c1
  c2 = c2
  Servers <- MCServers
  Rust = {"B"}
  Requests <- MCRequests
  Home <- MCHome
  Body <- MCBody
  Bad = bad
  PointsPerThread = 2
  Find <- MCFind
  NoInfo = noInfo
  None = none
  Procs = {1, 2, 4}
  Items = 3
  Clients = {c1, c2}
  Order <- MCOrder
  Commands = {"bench", "compare"}
  RequestOf <- MCRequestOf
  MaxFaults = 1
  Lost = lost
  Garbled = garbled
SPECIFICATION Spec
INVARIANTS RepliesRight PointsNotShared ItemsCounted ComparisonExact
PROPERTIES EverythingEnds
CHECK_DEADLOCK FALSE
