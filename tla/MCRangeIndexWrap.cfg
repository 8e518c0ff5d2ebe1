\* All the values of the key type, the largest included.
CONSTANTS
  v1 = v1
  v2 = v2
  none = none
  MinKey <- MCMinKey
  MaxKey <- MCMaxKey
  Keys <- MCAllKeys
  Values <- MCOneValue
  Absent = none
SPECIFICATION Spec
PROPERTY SetIfAbsentSets
