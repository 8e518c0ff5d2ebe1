\* Keys below the largest value of the key type.
CONSTANTS
  v1 = v1
  v2 = v2
  none = none
  MinKey <- MCMinKey
  MaxKey <- MCMaxKey
  Keys <- MCKeys
  Values <- MCValues
  Absent = none
SPECIFICATION Spec
INVARIANTS TypeOK SegmentsApart Coalesced
PROPERTY ImplementsKeyMap
