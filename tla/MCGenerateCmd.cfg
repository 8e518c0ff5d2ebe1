CONSTANTS
  none = none
  None = none
  Heaps = {1, 2}
  MaxSamples = 2
  Flags <- MCFlags
SPECIFICATION Spec
INVARIANTS SuccessMeansWhole ReleasedThenReported ReportComplete
PROPERTIES OldCacheSurvives CommandEnds
CHECK_DEADLOCK FALSE
