------------------------------- MODULE V1File -------------------------------
(***************************************************************************)
(* The first cache file format: what savev1.Save makes of the points and   *)
(* zones, and how savev1.Load turns an element of a blob back.  Strings    *)
(* are replaced by their numbers in tables, one for the streets, one for   *)
(* the cities and one for the names of regions and zones.                  *)
(*                                                                         *)
(* A point is a record: "at" stands for the fields stored as they are      *)
(* (coordinates, name, house number, weight).  A zone has a type, a name   *)
(* and an area.                                                            *)
(***************************************************************************)
EXTENDS StringTable

CONSTANT BlobSize   \* blobChunkSize: the elements of a blob (100)

-----------------------------------------------------------------------------
Column(items, field) == [i \in DOMAIN items |-> items[i][field]]

Blobs(items) ==
  [k \in 1..(Len(items) + BlobSize - 1) \div BlobSize |->
     SubSeq(items, (k - 1) * BlobSize + 1, Min({k * BlobSize, Len(items)}))]

Names(points, zones) == UniqueMap(Column(points, "region") \o Column(zones, "name"))

OfType(zones, type) ==
  FoldLeft(LAMBDA taken, z : IF z.type = type THEN Append(taken, z) ELSE taken, <<>>, zones)

ProtoZones(zones, names) ==
  [i \in DOMAIN zones |-> [name |-> names[zones[i].name], area |-> zones[i].area]]

ZoneBlobs(zones, type, names) ==
  LET blobs == Blobs(ProtoZones(OfType(zones, type), names))
  IN  [k \in DOMAIN blobs |-> [type |-> type, zones |-> blobs[k]]]

\* The blobs and the tables that Save writes, after the header that gives the
\* blobs' sizes and the metadata.
SavedFile(points, zones) ==
  LET streets == UniqueMap(Column(points, "street"))
      cities  == UniqueMap(Column(points, "city"))
      names   == Names(points, zones)
  IN  [streets |-> Slice(streets),
       cities  |-> Slice(cities),
       regions |-> Slice(names),
       points  |-> Blobs([i \in DOMAIN points |->
                            [points[i] EXCEPT !.street = streets[@],
                                              !.city   = cities[@],
                                              !.region = names[@]]]),
       zones   |-> ZoneBlobs(zones, "region", names)
                     \o ZoneBlobs(zones, "country", names)]

-----------------------------------------------------------------------------
\* Mutant: the region is looked up among the cities.
MapPointCity(p, file) ==
  [p EXCEPT !.street = file.streets[@ + 1],
            !.city   = file.cities[@ + 1],
            !.region = file.cities[(@ % Len(file.cities)) + 1]]

MapPoint(p, file) ==
  [p EXCEPT !.street = file.streets[@ + 1],
            !.city   = file.cities[@ + 1],
            !.region = file.regions[@ + 1]]

MapPoints(blob, file) == [i \in DOMAIN blob |-> MapPoint(blob[i], file)]

MapZone(type, z, file) ==
  [type |-> type, name |-> file.regions[z.name + 1], area |-> z.area]

MapZones(blob, file) ==
  [i \in DOMAIN blob.zones |-> MapZone(blob.type, blob.zones[i], file)]
=============================================================================
