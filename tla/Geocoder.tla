------------------------------ MODULE Geocoder ------------------------------
(***************************************************************************)
(* The three geocoders: RGeoCoder, with its points in memory,              *)
(* RGeoCoderDisk on a mapped file of the second format, and the Geocoder   *)
(* of the Rust server on the same file.  Each answers FindInRadius with a  *)
(* walk of the KD-tree that shows every point in the radius to a handler,  *)
(* which keeps one, and with the borders that hold the place asked for.    *)
(*                                                                         *)
(* The file is written in place, so a process that ends while it saves     *)
(* leaves a part of it.  The geocoders are asked one after the other: they *)
(* share nothing that a query writes.                                      *)
(***************************************************************************)
EXTENDS V2File, Borders

CONSTANTS
  N,          \* the number of points
  Chars,      \* the characters of a name
  Inputs,     \* what may be saved: records of points and zones
  Places,     \* the coordinates that are asked for, x and y
  Radius,     \* the search radius
  None

Geocoders == {"memory", "disk", "rust"}

Coordinates == [0..1 -> Int]

Point == [c: Coordinates, name: Seq(Chars), region: Seq(Chars), weight: Int]

\* A relation without a name makes no zone (parseRelationRegion).
Zone == [type: {"region", "country"}, name: Seq(Chars) \ {Empty},
         rect: [min: Coordinates, max: Coordinates]]

\* A point as the file has it, with numbers for its strings.
PointData == [name: Nat, region: Nat, weight: Int]

Bush == [numPoints: Nat, nodeSize: Nat, idxs: Nat, coords: Nat, dataOffsets: Nat, dataBlobs: Nat]

Handle == [stringsIndex: Seq(Nat), stringsData: Nat, zones: Seq(Zone), bush: Bush]

DiskHeader == [magic: {"KDBH"}, nodeSize: Nat, numPoints: Nat]

Kept == [found: {FALSE}] \cup [found: {TRUE}, data: Point \cup PointData, dist: Int]

InfoModel == [name: Seq(Chars), region: Seq(Chars), country: Seq(Chars), weight: Int]

\* A string holds no Nul, as its end mark in the file is one; what stands for no
\* value, a failed read or nothing found is none of the values themselves.
ASSUME GeocoderAssumption ==
  /\ N \in Nat /\ NodeSize \in Nat /\ BufLen \in Nat /\ Radius \in Nat
  /\ Empty = <<>> /\ Nul \notin Chars
  /\ Inputs \subseteq [points: {points \in Seq(Point) : Len(points) = N}, zones: Seq(Zone)]
  /\ Places \subseteq Coordinates
  /\ None # Err /\ None # NotFound /\ Err # NotFound
  /\ \A v \in {None, Err, NotFound} :
       /\ v \notin Geocoders \cup Nat /\ v \notin Seq(Chars) /\ v \notin Seq(Point)
       /\ v \notin Seq(Int) /\ v \notin Coordinates \cup DiskHeader
       /\ v \notin Point \cup PointData \cup Bush \cup Handle
       /\ v \notin Kept \cup InfoModel

VARIABLES
  input,      \* the points and the zones
  idxs,       \* the order sort has put the points in
  file,       \* the cells on disk
  complete,   \* the save came to its end (history)
  handle,     \* the opened file, Err, or None
  streamed,   \* the points loaded from the file as a stream, Err, or None
  place,      \* what is asked, or None
  asked,      \* which geocoder is walking
  stack,      \* the ranges it has still to visit
  best,       \* the point it keeps
  answers     \* the geocoders' answers

vars == <<input, idxs, file, complete, handle, streamed, place, asked, stack, best, answers>>

Tree == INSTANCE KdTree WITH
          coords <- [i \in 0..N-1 |-> input.points[idxs[i] + 1].c], tree <- {}

\* The ranges that sort splits, by depth.
Splits[depth \in 0..N] ==
  IF depth = 0 THEN {Tree!Root}
  ELSE UNION {{Tree!LeftHalf(range), Tree!RightHalf(range)} :
                range \in {r \in Splits[depth - 1] : ~Tree!IsLeaf(r)}}

\* What sort guarantees (KdSort).
Sorted ==
  \A depth \in 0..N : \A range \in Splits[depth] : Tree!IsLeaf(range) \/ Tree!Split(range)

Permutations0 == {f \in [0..N-1 -> 0..N-1] : \A i, j \in 0..N-1 : f[i] = f[j] => i = j}

-----------------------------------------------------------------------------
Init ==
  /\ input \in Inputs
  /\ idxs \in Permutations0 /\ Sorted
  /\ file = <<>>
  /\ complete = FALSE
  /\ handle = None
  /\ streamed = None
  /\ place = None
  /\ asked = None
  /\ stack = <<>>
  /\ best = None
  /\ answers = [g \in Geocoders |-> None]

(* SaveV2; the process may end at any cell.                                *)
Save ==
  /\ file = <<>>
  /\ LET cells == SavedV2(input.points, input.zones, idxs)
     IN  \E end \in 1..Len(cells) :
           file' = SubSeq(cells, 1, end) /\ complete' = (end = Len(cells))
  /\ UNCHANGED <<input, idxs, handle, streamed, place, asked, stack, best, answers>>

Open ==
  /\ file # <<>> /\ handle = None
  /\ handle' = LoadMmap(file)
  /\ streamed' = LoadStream(file)
  /\ UNCHANGED <<input, idxs, file, complete, place, asked, stack, best, answers>>

-----------------------------------------------------------------------------
(* The walk.                                                               *)

\* FindInRadius of a geocoder at the place; the file is used if it opened.
Ask(geocoder, at) ==
  /\ handle # None
  /\ answers[geocoder] = None /\ asked = None
  /\ place \in {None, at}
  /\ geocoder # "memory" => handle # Err
  /\ place' = at
  /\ asked' = geocoder
  /\ stack' = <<Tree!Root>>
  /\ best' = [found |-> FALSE]
  /\ UNCHANGED <<input, idxs, file, complete, handle, streamed, answers>>

\* Of the point at a position: its coordinates, and the data the handler gets.
Coord(i) ==
  IF asked = "memory" THEN input.points[idxs[i] + 1].c ELSE ReadCoord(file, handle, i)

Idx(i) == IF asked = "memory" THEN idxs[i] ELSE ReadIdx(file, handle, i)

Data(i) ==
  IF asked = "memory" THEN input.points[idxs[i] + 1]
  ELSE IF Idx(i) = Err THEN Err ELSE ReadPointData(file, handle, Idx(i))

DistanceSquared(a, b) ==
  (a[0] - b[0]) * (a[0] - b[0]) + (a[1] - b[1]) * (a[1] - b[1])

InRadius(c) == DistanceSquared(c, place) <= Radius * Radius

\* Mutant: a point as heavy as the one kept replaces it.
KeepLast(kept, data, dist) ==
  IF ~kept.found \/ dist < kept.dist \/ data.weight >= kept.data.weight
  THEN [found |-> TRUE, data |-> data, dist |-> dist]
  ELSE kept

\* The handler: a nearer point is kept, and a heavier one.
Keep(kept, data, dist) ==
  IF ~kept.found \/ dist < kept.dist \/ data.weight > kept.data.weight
  THEN [found |-> TRUE, data |-> data, dist |-> dist]
  ELSE kept

\* The points at some positions are shown to the handler in turn.
Shown(positions) ==
  FoldLeft(LAMBDA kept, i :
             IF kept = Err \/ Coord(i) = Err THEN Err
             ELSE IF ~InRadius(Coord(i)) THEN kept
             ELSE IF Data(i) = Err THEN Err
             ELSE Keep(kept, Data(i), DistanceSquared(Coord(i), place)),
           best, positions)

\* The halves of a range that may hold a point in the radius, the right one first.
Meets(range) ==
  LET x == Coord(Tree!Mid(range))[range.axis]
  IN  (IF place[range.axis] + Radius >= x THEN <<Tree!RightHalf(range)>> ELSE <<>>)
        \o (IF place[range.axis] - Radius <= x THEN <<Tree!LeftHalf(range)>> ELSE <<>>)

\* A leaf is read in two reads, of its indexes and its coordinates.
Unreadable(range) ==
  IF Tree!IsLeaf(range)
  THEN \E i \in range.left..range.right : Idx(i) = Err \/ Coord(i) = Err
  ELSE Coord(Tree!Mid(range)) = Err

Within ==
  /\ asked # None /\ stack # <<>> /\ best # Err
  /\ LET range     == Head(stack)
         positions == [k \in 1..range.right - range.left + 1 |-> range.left + k - 1]
     IN  IF Unreadable(range)
         THEN best' = Err /\ stack' = <<>>
         ELSE IF Tree!IsLeaf(range)
         THEN best' = Shown(positions) /\ stack' = Tail(stack)
         ELSE /\ best' = Shown(<<Tree!Mid(range)>>)
              /\ stack' = Meets(range) \o Tail(stack)
  /\ UNCHANGED <<input, idxs, file, complete, handle, streamed, place, asked, answers>>

-----------------------------------------------------------------------------
(* The answer.                                                             *)

BorderTree(type, zones) ==
  FoldLeft(LAMBDA bt, z : IF z.type = type THEN InsertBorder(bt, z.name, z.rect) ELSE bt,
           <<>>, zones)

Zones == IF asked = "memory" THEN input.zones ELSE handle.zones

Found(type) ==
  IF asked = "rust" THEN QueryPointRust(BorderTree(type, Zones), place)
  ELSE QueryPoint(BorderTree(type, Zones), place)

OrEmpty(name) == IF name = NotFound THEN Empty ELSE name

Resolve(data) ==
  LET string(id) == CASE asked = "memory" -> id
                      [] asked = "disk"   -> ReadStr(file, handle, id)
                      [] asked = "rust"   -> ReadString(file, handle, id)
  IN  [name |-> string(data.name), region |-> string(data.region), weight |-> data.weight]

Answer(name, region, country, weight) ==
  [name |-> name, region |-> region, country |-> country, weight |-> weight]

\* A point was kept: its own region comes before that of the borders.
Happy(region, country) ==
  LET info == Resolve(best.data)
  IN  Answer(info.name, IF info.region = Empty THEN OrEmpty(region) ELSE info.region,
             OrEmpty(country), info.weight)

\* Mutant: the borders are asked only when a point was kept.
UnhappyNever(region, country) == NotFound

\* No point: the place may lie inside a border.
Unhappy(region, country) ==
  IF OrEmpty(region) = Empty /\ OrEmpty(country) = Empty /\ asked # "rust" THEN NotFound
  ELSE IF region = NotFound /\ country = NotFound THEN NotFound
  ELSE Answer(Empty, OrEmpty(region), OrEmpty(country), 0)

\* RGeoCoderDisk logs a failed read and finds nothing; the Rust server panics.
Return ==
  /\ asked # None
  /\ stack = <<>> \/ best = Err
  /\ \E region \in Found("region"), country \in Found("country") :
       answers' = [answers EXCEPT ![asked] =
                     CASE best = Err /\ asked = "disk" -> NotFound
                       [] best = Err /\ asked = "rust" -> Err
                       [] best # Err /\ best.found     -> Happy(region, country)
                       [] best # Err /\ ~best.found    -> Unhappy(region, country)]
  /\ asked' = None
  /\ best' = None
  /\ stack' = <<>>
  /\ UNCHANGED <<input, idxs, file, complete, handle, streamed, place>>

Next ==
  \/ Save
  \/ Open
  \/ \E geocoder \in Geocoders, at \in Places : Ask(geocoder, at)
  \/ Within
  \/ Return

Spec == Init /\ [][Next]_vars

-----------------------------------------------------------------------------
(* Properties.                                                             *)

Answered(geocoders) == \A g \in geocoders : answers[g] # None

Near == {p \in Range(input.points) : InRadius(p.c)}

ZonesOf(type) == {z \in Range(input.zones) : z.type = type}

\* Where the two border trees are meant to differ: they simplify, or not, count
\* the edge in, or not, and take any one of several borders.
BordersPlain ==
  \A type \in {"region", "country"} :
    /\ Cardinality({z \in ZonesOf(type) : InRect(place, z.rect)}) <= 1
    /\ \A z \in ZonesOf(type) : InRect(place, z.rect) =>
         Simplify(z.rect) = "rectangle" /\ Inside(place, z.rect)

StringsFit == \A p \in Range(input.points) : Len(p.name) <= BufLen /\ Len(p.region) <= BufLen

(* The geocoder in memory, the one on a mapped file and the one in Rust    *)
(* give the same answer from the same points and zones: through the order  *)
(* sort gives them, the offsets of seven sections, the numbers of strings  *)
(* and the fallback on borders (locator.go:56-112, locator_disk.go:35-90, *)
(* geocoder.rs:54-180).                                                    *)
AnswersAgree ==
  complete /\ Answered(Geocoders) /\ BordersPlain /\ StringsFit =>
    \A g \in Geocoders : answers[g] = answers["memory"]

(* A query finds something exactly if a point lies in the radius or a      *)
(* border holds the place (locator.go:73-111, locator_disk.go:54-89).      *)
FoundIffThere ==
  \A g \in {"memory", "disk"} :
    answers[g] # None /\ (g = "memory" \/ complete) /\ BordersPlain =>
      (answers[g] # NotFound <=> \/ Near # {}
                                \/ \E z \in Range(input.zones) : InRect(place, z.rect))

Nearest(points) ==
  {p \in points : \A q \in points : DistanceSquared(p.c, place) <= DistanceSquared(q.c, place)}

(* When the points in the radius are equally heavy the nearest is the      *)
(* answer, in whatever order the walk meets them (locator.go:61).          *)
NearestOfEquals ==
  answers["memory"] # None /\ Near # {} /\ (\A p, q \in Near : p.weight = q.weight) =>
    answers["memory"].name \in {p.name : p \in Nearest(Near)}

(* A file whose saving was cut short misleads nobody: it is refused when   *)
(* it is loaded as a stream, and mapped it is refused or answers like the  *)
(* whole file, or not at all (locator_disk.go:49-52, load.go:158-244,      *)
(* kdbush_disk.go:206-246 and 484-527).                                    *)
TornFileNeverMisleads ==
  /\ streamed # None => IF complete
       THEN streamed = [i \in 1..N |-> [input.points[i] EXCEPT !.c = [axis \in 0..1 |-> 0]]]
       ELSE streamed = Err
  /\ answers["memory"] # None /\ BordersPlain /\ StringsFit =>
       /\ answers["disk"] \in {None, NotFound, answers["memory"]}
       /\ answers["rust"] \in {None, Err, answers["memory"]}

(* "Find returns the closest address for the given coordinates"            *)
(* (locator_disk.go:29).                                                   *)
FindReturnsClosest ==
  complete /\ answers["disk"] # None /\ Near # {} =>
    answers["disk"].name \in {p.name : p \in Nearest(Near)}

(* A border tree of one border finds it exactly when the polygon contains  *)
(* the point (bordertree_test.go:52-60).                                   *)
BorderFoundIffContains ==
  answers["memory"] # None /\ Cardinality(ZonesOf("country")) = 1 =>
    \A z \in ZonesOf("country") :
      InRect(place, z.rect) <=> answers["memory"] # NotFound /\ answers["memory"].country = z.name
=============================================================================
