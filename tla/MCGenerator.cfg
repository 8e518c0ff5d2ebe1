CONSTANTS
  n1 = n1
  w1 = w1
  r1 = r1
  r2 = r2
  g1 = g1
  g2 = g2
  none = none
  err = err
  Nodes <- MCNodes
  Ways <- MCWays
  Relations <- MCRelations
  Sources <- MCSources
  Input <- MCInput
  RelationSource = "relations"
  PointsOf <- MCPointsOf
  MembersOf <- MCMembersOf
  ZoneOf <- MCZoneOf
  Workers <- MCWorkers
  PointCap = 1
  None = none
  Err = err
  N = 2
SPECIFICATION Spec
INVARIANTS TypeOK WaysOnce CacheBeforePoints OutputsAgree SavedIsComplete
CHECK_DEADLOCK FALSE
PROPERTY Terminates
