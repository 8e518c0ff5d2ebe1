CONSTANTS
  empty = empty
  s1 = s1
  s2 = s2
  s3 = s3
  err = err
  BlobSize = 2
  Empty = empty
  InputPoints <- MCPoints
  InputZones <- MCZones
  Damages <- MCDamages
  ChunkCap = 1
  BlobCap = 1
  OutCap = 2
  Err = err
SPECIFICATION Spec
INVARIANTS DeliveredInOrder LoadIsExact ZonesAfterPoints
PROPERTY LoadEnds
CHECK_DEADLOCK FALSE
