------------------------------ MODULE MCV1Load ------------------------------
(***************************************************************************)
(* Five points in blobs of two, three zones in two blobs; a region's name  *)
(* is also the city of a point, and the channels hold one or two items.    *)
(***************************************************************************)
EXTENDS V1Load

CONSTANTS empty, s1, s2, s3, err

Point(at, street, city, region) ==
  [at |-> at, street |-> street, city |-> city, region |-> region]
Zone(type, name, area) == [type |-> type, name |-> name, area |-> area]

MCPoints == <<Point(1, s1, empty, s2), Point(2, empty, s2, empty), Point(3, s1, s1, s3),
              Point(4, s2, s3, s1), Point(5, s3, s1, s2)>>
MCZones == <<Zone("country", s3, 6), Zone("region", s2, 7), Zone("region", empty, 8)>>
MCDamages == {{}} \union {{s} : s \in {2, 4, 5, 6, 7, 8, 9}} \union {{5, 7}}
=============================================================================
