CONSTANTS
  N = 5
  NodeSize = 0
  SampleAbove = 3
  PointSets <- MCPointSets
  Queries <- MCQueries
  NoQuery = NoQuery
  OnDisk = TRUE
SPECIFICATION Spec
INVARIANTS
  TypeOK
  ScansStop
  TreeStands
  NothingSkipped
  ReportedOnce
  AnswerIsExact
PROPERTY Ends
CHECK_DEADLOCK FALSE
