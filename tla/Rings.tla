------------------------------- MODULE Rings --------------------------------
(***************************************************************************)
(* How a relation's ways become a multipolygon (geoparser/geommaker.go):   *)
(* the outer and the inner ways are joined end to end into sections, a     *)
(* step of the loop at a time; sections that close are the rings; an inner *)
(* ring goes to the first outer ring that contains it.                     *)
(*                                                                         *)
(* A line is a sequence of points.  Coordinates are integers, and relation *)
(* members have no orientation hint, as the input format does not give it. *)
(***************************************************************************)
EXTENDS Integers, Sequences, SequencesExt, FiniteSets, FiniteSetsExt

CONSTANTS
  Inputs,    \* the relations: sequences of members [role, nodes]
  NoWay,     \* the nodes of a way that is not in the extract
  NoNode     \* a node that is not, or has no coordinates

ASSUME RingsAssumption ==
  \A ms \in Inputs :
    /\ ms \in Seq(Range(ms))
    /\ \A m \in Range(ms) : m.nodes = NoWay \/ m.nodes \in Seq(Range(m.nodes))

VARIABLES
  members,   \* the relation
  stage,     \* "outer", "inner": join runs; "attach"; "built", "failed",
             \* "panicked"
  inner,     \* the inner lines, until it is their turn
  segments,  \* join: what is not used yet
  current,   \* join: the section being built, a sequence of lines
  sections,  \* join: the sections built
  polygons   \* the multipolygon: sequences of rings, the outer one first

vars == <<members, stage, inner, segments, current, sections, polygons>>

CCW == 1
CW == -1

-----------------------------------------------------------------------------
\* The elements of a list that are in a set, in their order.
Kept(list, set) ==
  LET kept[n \in 0..Len(list)] ==
        IF n = 0 THEN <<>>
        ELSE kept[n - 1] \o (IF list[n] \in set THEN <<list[n]>> ELSE <<>>)
  IN  kept[Len(list)]

\* makeLineString
Line(nodes) == Kept(nodes, Range(nodes) \ {NoNode})

Known(m) == m.nodes # NoWay /\ m.nodes # <<>>
Lines(ms, role) ==
  LET known == Kept(ms, {m \in Range(ms) : m.role = role /\ Known(m)})
  IN  [i \in DOMAIN known |-> Line(known[i].nodes)]

Compact(lines) == Kept(lines, {l \in Range(lines) : Len(l) > 1})

Closed(line) == line[1] = line[Len(line)]

\* The sign of the area that a ring encloses; orb.Ring.Orientation.
Cross(o, p, q) == (p[1] - o[1]) * (q[2] - o[2]) - (q[1] - o[1]) * (p[2] - o[2])
Area(ring) == FoldLeftDomain(LAMBDA sum, i :
                IF i = Len(ring) THEN sum ELSE sum + Cross(ring[1], ring[i], ring[i + 1]),
                0, ring)
Orientation(ring) == IF Area(ring) > 0 THEN CCW ELSE IF Area(ring) < 0 THEN CW ELSE 0

\* Mutant: a section without the orientation asked for is not turned.
RingAsJoined(section, o) == FlattenSeq(section)

\* multiSegment.Ring
Ring(section, o) ==
  LET line == FlattenSeq(section)
  IN  IF Orientation(line) = o THEN line ELSE Reverse(line)

LongRing(ring) == Len(ring) >= 4    \* Mutant: an open section is a ring
ValidRing(ring) == Len(ring) >= 4 /\ Closed(ring)

\* The edge from q to r crosses the ray that leaves p to the right.
Crosses(p, q, r) ==
  /\ (q[2] > p[2]) # (r[2] > p[2])
  /\ LET left == (p[1] - q[1]) * (r[2] - q[2])
         right == (r[1] - q[1]) * (p[2] - q[2])
     IN  IF r[2] > q[2] THEN left < right ELSE left > right

\* polygonContains: some point of the ring is inside.
PolygonContains(outer, ring) ==
  \E k \in DOMAIN ring :
    Cardinality({i \in DOMAIN outer :
      Crosses(ring[k], outer[i], outer[IF i = 1 THEN Len(outer) ELSE i - 1])}) % 2 = 1

\* addToMultiPolygon
AddTo(mp, ring) ==
  LET holders == {i \in DOMAIN mp : PolygonContains(mp[i][1], ring)}
      bare == {i \in DOMAIN mp : mp[i][1] = <<>>}
      first(S) == CHOOSE i \in S : \A j \in S : i <= j
      add(i) == [mp EXCEPT ![i] = Append(@, ring)]
  IN  IF holders # {} THEN add(first(holders))
      ELSE IF mp # <<>> /\ mp[1][1] # <<>> /\ ~Closed(mp[1][1]) THEN add(1)
      ELSE IF bare # {} THEN add(first(bare))
      ELSE Append(mp, <<<<>>, ring>>)

-----------------------------------------------------------------------------
\* buildPolygon up to its first join.  A relation with one outer way is of
\* the old style: that way is the ring.
Outer == Lines(members, "outer")
OldStyle == /\ Len(Outer) = 1
            /\ Cardinality({i \in DOMAIN members : members[i].role = "outer"}) = 1

Init ==
  /\ members \in Inputs
  /\ stage = "collect"
  /\ inner = <<>> /\ segments = <<>> /\ current = <<>> /\ sections = <<>>
  /\ polygons = <<>>

\* A lone outer way none of whose nodes has coordinates makes an empty line,
\* whose orientation is asked all the same: Go panics at its first point.
Collect ==
  /\ stage = "collect"
  /\ inner' = Lines(members, "inner")
  /\ IF OldStyle
       THEN LET ring == Ring(Outer, CCW)
            IN  IF Len(ring) > 0 /\ ValidRing(ring)
                  THEN /\ stage' = "inner" /\ polygons' = <<<<ring>>>>
                       /\ segments' = Compact(inner')
                  ELSE /\ stage' = IF ring = <<>> THEN "panicked" ELSE "failed"
                       /\ UNCHANGED <<polygons, segments>>
       ELSE /\ stage' = "outer" /\ segments' = Compact(Outer)
            /\ UNCHANGED polygons
  /\ UNCHANGED <<members, current, sections>>

Joining == stage \in {"outer", "inner"}

First == Head(Head(current))
Last1 == Last(Last(current))

\* join takes the last line to start a section.
StartSection ==
  /\ Joining
  /\ current = <<>> /\ segments # <<>>
  /\ current' = <<Last(segments)>>
  /\ segments' = Front(segments)
  /\ UNCHANGED <<members, stage, inner, sections, polygons>>

\* Mutant: a line whose direction is against the section does not fit.
FitsForward(line) == Last1 = Head(line) \/ First = Last(line)

Fits(line) == {First, Last1} \cap {Head(line), Last(line)} # {}
Fitting == {i \in DOMAIN segments : Fits(segments[i])}
Extensible == First # Last1 /\ Fitting # {}

\* Mutant: a reversed line loses the wrong end.
JoinedWrongEnd(line) ==
  IF Last1 = Head(line) THEN Append(current, Tail(line))
  ELSE IF Last1 = Last(line) THEN Append(current, Reverse(Tail(line)))
  ELSE IF First = Last(line) THEN <<Front(line)>> \o current
  ELSE <<Reverse(Front(line))>> \o current

\* The section with a line joined to it, without the point they share.
Joined(line) ==
  IF Last1 = Head(line) THEN Append(current, Tail(line))
  ELSE IF Last1 = Last(line) THEN Append(current, Tail(Reverse(line)))
  ELSE IF First = Last(line) THEN <<Front(line)>> \o current
  ELSE <<Front(Reverse(line))>> \o current

\* The first line that fits is joined and removed.
Extend ==
  /\ Joining
  /\ current # <<>> /\ Extensible
  /\ LET i == CHOOSE i \in Fitting : \A j \in Fitting : i <= j
     IN  /\ current' = Joined(segments[i])
         /\ segments' = RemoveAt(segments, i)
  /\ UNCHANGED <<members, stage, inner, sections, polygons>>

\* The section is a ring, or nothing fits.
EndSection ==
  /\ Joining
  /\ current # <<>> /\ ~Extensible
  /\ sections' = Append(sections, current)
  /\ current' = <<>>
  /\ UNCHANGED <<members, stage, inner, segments, polygons>>

JoinEnds == current = <<>> /\ segments = <<>>

OuterJoined ==
  /\ stage = "outer"
  /\ JoinEnds
  /\ LET joined == [i \in DOMAIN sections |-> Ring(sections[i], CCW)]
         rings  == Kept(joined, {ring \in Range(joined) : ValidRing(ring)})
     IN  /\ polygons' = [i \in DOMAIN rings |-> <<rings[i]>>]
         /\ stage' = IF rings = <<>> THEN "failed" ELSE "inner"
  /\ segments' = Compact(inner)
  /\ sections' = <<>>
  /\ UNCHANGED <<members, inner, current>>

InnerJoined ==
  /\ stage = "inner"
  /\ JoinEnds
  /\ stage' = "attach"
  /\ UNCHANGED <<members, inner, segments, current, sections, polygons>>

\* The inner rings, one after the other.  With one outer way they are its.
Attach ==
  /\ stage = "attach"
  /\ sections # <<>>
  /\ LET ring == Ring(Head(sections), CW)
     IN  polygons' = IF OldStyle THEN <<Append(polygons[1], ring)>>
                                 ELSE AddTo(polygons, ring)
  /\ sections' = Tail(sections)
  /\ UNCHANGED <<members, stage, inner, segments, current>>

Build ==
  /\ stage = "attach"
  /\ sections = <<>>
  /\ stage' = "built"
  /\ UNCHANGED <<members, inner, segments, current, sections, polygons>>

Next == \/ Collect \/ StartSection \/ Extend \/ EndSection
        \/ OuterJoined \/ InnerJoined \/ Attach \/ Build
Spec == Init /\ [][Next]_vars

-----------------------------------------------------------------------------
\* The edges of some lines, each with its number of occurrences.
Edges(line) == [k \in 1..Len(line) - 1 |-> {line[k], line[k + 1]}]
AllEdges(lines) == FlattenSeq([i \in DOMAIN lines |-> Edges(lines[i])])
EdgeBag(lines) ==
  LET edges == AllEdges(lines)
  IN  [e \in Range(edges) |-> Cardinality({k \in DOMAIN edges : edges[k] = e})]

Given(role) == Compact(Lines(members, role))
Flat(secs) == [i \in DOMAIN secs |-> FlattenSeq(secs[i])]

\* How many lines end at p.
Ends(lines, p) == Cardinality({i \in DOMAIN lines : Head(lines[i]) = p})
                  + Cardinality({i \in DOMAIN lines : Last(lines[i]) = p})
EndPoints(lines) == {Head(lines[i]) : i \in DOMAIN lines} \cup {Last(lines[i]) : i \in DOMAIN lines}

Complete == \A i \in DOMAIN members :
              members[i].nodes # NoWay /\ NoNode \notin Range(members[i].nodes)
\* The ways of a role are rings cut into pieces, touching nowhere at their ends.
CutRings(role) == LET lines == Given(role)
                  IN  \A p \in EndPoints(lines) : Ends(lines, p) = 2

Simple(ring) == Cardinality(Range(ring)) = Len(ring) - 1
InBox(ring, outer) == \A p \in Range(ring) : \A d \in 1..2 :
  /\ \E q \in Range(outer) : q[d] < p[d]
  /\ \E q \in Range(outer) : p[d] < q[d]

\* join loses no edge of a way, takes none twice and makes none up, whatever
\* is reversed, prepended and shifted (geommaker.go:208-284).
EdgesKept ==
  Joining => EdgeBag(segments \o Flat(sections) \o <<FlattenSeq(current)>>)
               = EdgeBag(Given(stage))

\* When the ends of the ways match up, greedy joining never strands a piece:
\* every section closes (geommaker.go:260: "dangling way, unclosed ring").
SectionsClose ==
  Joining /\ JoinEnds /\ (\A p \in EndPoints(Given(stage)) : Ends(Given(stage), p) % 2 = 0)
    => \A i \in DOMAIN sections : Closed(FlattenSeq(sections[i]))

\* From rings cut into ways, in any order and direction, buildPolygon makes
\* those rings, counterclockwise outside, and clockwise inside an outer one.
RingsRecovered ==
  stage = "built" /\ Complete /\ CutRings("outer") /\ CutRings("inner") =>
    /\ EdgeBag([i \in DOMAIN polygons |-> polygons[i][1]]) = EdgeBag(Given("outer"))
    /\ EdgeBag(FlattenSeq([i \in DOMAIN polygons |-> Tail(polygons[i])]))
         = EdgeBag(Given("inner"))
    /\ \A i \in DOMAIN polygons : LET p == polygons[i] IN
         /\ Orientation(p[1]) = CCW
         /\ \A k \in DOMAIN p : Closed(p[k]) /\ Simple(p[k])
         /\ \A k \in 2..Len(p) : Orientation(p[k]) = CW /\ InBox(p[k], p[1])

\* Whatever ways or nodes are missing, there is no half a ring among the outer
\* ones, and a polygon without one only takes inner rings that no outer ring
\* contains (geommaker.go:88, 110, 137-167).
OuterRingsWhole ==
  stage = "built" => \A i \in DOMAIN polygons : LET p == polygons[i] IN
    \/ Len(p[1]) >= 4 /\ Head(p[1]) = Last(p[1])
    \/ /\ p[1] = <<>>
       /\ \A k \in 2..Len(p), j \in DOMAIN polygons : ~PolygonContains(polygons[j][1], p[k])
=============================================================================
