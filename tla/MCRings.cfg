CONSTANTS
  noWay = noWay
  noNode = noNode
  NoWay = noWay
  NoNode = noNode
  Inputs <- MCInputs
SPECIFICATION Spec
INVARIANTS EdgesKept SectionsClose RingsRecovered OuterRingsWhole
CHECK_DEADLOCK FALSE
