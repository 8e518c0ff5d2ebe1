------------------------------- MODULE V2File -------------------------------
(***************************************************************************)
(* The second cache file format: a file that is mapped into memory and     *)
(* read where it stands (savev2.Save, kdbush.BuildDisk), the two ways to   *)
(* load it (savev2.LoadMmap with kdbush.OpenDisk, savev2.Load) and the     *)
(* reads of a query.                                                       *)
(*                                                                         *)
(* A file is a sequence of cells: a cell is a header, a section of zones,  *)
(* a number, a character or a pair of coordinates.  Cells have offsets     *)
(* from 0, as bytes do: the writer only concatenates and the readers only  *)
(* compute offsets, so a reader that is off by one reads another section.  *)
(* A string is a sequence of characters; of the five strings of a point    *)
(* the name and the region stand for all.                                  *)
(***************************************************************************)
EXTENDS StringTable

CONSTANTS
  NodeSize,
  BufLen,     \* the buffer a string is read into (512)
  Nul,        \* the character that ends a string
  Err         \* a read that fails

-----------------------------------------------------------------------------
(* Writing.                                                                *)

\* Strings by number, each ended by Nul, and where each begins.
StringsData(strings) ==
  FlattenSeq([i \in DOMAIN strings |-> strings[i] \o <<Nul>>])

\* Mutant: the end marks are not counted.
StringsIndexShort(strings) ==
  [i \in DOMAIN strings |-> Len(FlattenSeq(SubSeq(strings, 1, i - 1)))]

StringsIndex(strings) ==
  [i \in DOMAIN strings |-> Len(StringsData(SubSeq(strings, 1, i - 1)))]

PointDataSize == 3

MarshalBinary(data) == <<data.name, data.region, data.weight>>

\* idxs is the order sort has put the points in, position -> original index.
BuildDisk(points, datas, idxs) ==
  LET n == Len(points)
  IN  <<[magic |-> "KDBH", nodeSize |-> NodeSize, numPoints |-> n]>>
        \o [i \in 1..n |-> idxs[i - 1]]
        \o [i \in 1..n |-> points[idxs[i - 1] + 1].c]
        \o [i \in 1..n + 1 |-> (i - 1) * PointDataSize]
        \o FlattenSeq([i \in 1..n |-> MarshalBinary(datas[i])])

OfType(zones, type) ==
  FoldLeft(LAMBDA list, z : IF z.type = type THEN Append(list, z) ELSE list, <<>>, zones)

ZonesSection(zones) == OfType(zones, "region") \o OfType(zones, "country")

SavedV2(points, zones, idxs) ==
  LET ids     == UniqueMap(FlattenSeq([i \in DOMAIN points |->
                                         <<points[i].name, points[i].region>>]))
      strings == Slice(ids)
      datas   == [i \in DOMAIN points |-> [name   |-> ids[points[i].name],
                                           region |-> ids[points[i].region],
                                           weight |-> points[i].weight]]
      header  == [metadata     |-> 1,
                  stringsIndex |-> Len(strings),
                  stringsData  |-> Len(StringsData(strings)),
                  zones        |-> 1]
  IN  <<"RGEO", 2, 1, header, "metadata">> \o StringsIndex(strings)
        \o StringsData(strings) \o <<ZonesSection(zones)>>
        \o BuildDisk(points, datas, idxs)

-----------------------------------------------------------------------------
(* Opening.                                                                *)

\* mmap.ReaderAt.ReadAt of n cells: an error if the file ends before.
ReadAt(file, offset, n) ==
  IF offset + n > Len(file) THEN Err ELSE SubSeq(file, offset + 1, offset + n)

Cell(file, offset) ==
  IF offset >= Len(file) THEN Err ELSE file[offset + 1]

HeaderOffset == 3    \* behind magic, compatibility level and header size

OpenDisk(file, offset) ==
  LET header == Cell(file, offset)
      idxs   == offset + 1
      coords == idxs + header.numPoints
  IN  IF header = Err THEN Err
      ELSE [numPoints |-> header.numPoints, nodeSize |-> header.nodeSize,
            idxs |-> idxs, coords |-> coords,
            dataOffsets |-> coords + header.numPoints,
            dataBlobs   |-> coords + header.numPoints + header.numPoints + 1]

\* LoadGeoCoderFromFileDisk and CacheFile::open.  The sections follow each other
\* and the block of points comes last: a file that ends before its header is
\* refused, and nothing behind that header is looked at.
LoadMmap(file) ==
  IF Len(file) <= HeaderOffset \/ file[1] # "RGEO" \/ file[2] # 2 THEN Err
  ELSE LET header == file[HeaderOffset + 1]
           index  == HeaderOffset + 1 + header.metadata
           data   == index + header.stringsIndex
           zones  == data + header.stringsData
           bush   == OpenDisk(file, zones + header.zones)
       IN  IF bush = Err THEN Err
           ELSE [stringsIndex |-> ReadAt(file, index, header.stringsIndex),
                 stringsData  |-> data,
                 zones        |-> Cell(file, zones),
                 bush         |-> bush]

-----------------------------------------------------------------------------
(* The reads of a query, on a file h opened by LoadMmap.                   *)

ReadIdx(file, h, i)   == Cell(file, h.bush.idxs + i)
ReadCoord(file, h, i) == Cell(file, h.bush.coords + i)

UnmarshalBinary(cells) ==
  [name |-> cells[1], region |-> cells[2], weight |-> cells[3]]

\* Mutant: a blob that cannot be read is taken for an empty one.
ReadPointDataLax(file, h, origIdx) ==
  LET offsets == ReadAt(file, h.bush.dataOffsets + origIdx, 2)
      blob    == ReadAt(file, h.bush.dataBlobs + offsets[1], offsets[2] - offsets[1])
  IN  IF offsets = Err \/ blob = Err THEN [name |-> 0, region |-> 0, weight |-> 0]
      ELSE UnmarshalBinary(blob)

\* One read for the pair of offsets and one for the blob between them.
ReadPointData(file, h, origIdx) ==
  LET offsets == ReadAt(file, h.bush.dataOffsets + origIdx, 2)
      blob    == ReadAt(file, h.bush.dataBlobs + offsets[1], offsets[2] - offsets[1])
  IN  IF offsets = Err \/ blob = Err THEN Err ELSE UnmarshalBinary(blob)

CutAtNul(cells) ==
  LET end == SelectInSeq(cells, LAMBDA c : c = Nul)
  IN  IF end = 0 THEN cells ELSE SubSeq(cells, 1, end - 1)

\* RGeoCoderDisk.readStr: whatever the buffer holds of the string.
ReadStr(file, h, id) ==
  IF id = 0 THEN Empty
  ELSE LET start == h.stringsData + h.stringsIndex[id + 1]
       IN  CutAtNul(SubSeq(file, start + 1, Min({start + BufLen, Len(file)})))

\* CacheFile::read_string looks for Nul up to the end of the file.
ReadString(file, h, id) ==
  IF id = 0 THEN Empty
  ELSE CutAtNul(SubSeq(file, h.stringsData + h.stringsIndex[id + 1] + 1, Len(file)))

-----------------------------------------------------------------------------
(* Loading as a stream (savev2.Load): the same sections are read one after *)
(* the other, the tree is skipped, the table of offsets is read whole, and *)
(* the points come in their original order without their coordinates;      *)
(* loadV2Cache gives up at an error.                                       *)

ReadStrByID(index, dataBlock, id) ==
  IF id = 0 THEN Empty
  ELSE CutAtNul(SubSeq(dataBlock, index[id + 1] + 1, Len(dataBlock)))

ResolvePoint(index, dataBlock, data) ==
  [name   |-> ReadStrByID(index, dataBlock, data.name),
   region |-> ReadStrByID(index, dataBlock, data.region),
   weight |-> data.weight,
   c      |-> [axis \in 0..1 |-> 0]]

LoadStream(file) ==
  LET h      == LoadMmap(file)
      header == file[HeaderOffset + 1]
      block  == ReadAt(file, h.stringsData, header.stringsData)
      data(i) == ReadPointData(file, h, i)
  IN  IF h = Err THEN Err
      ELSE IF ReadAt(file, h.bush.dataOffsets, h.bush.numPoints + 1) = Err THEN Err
      ELSE IF \E i \in 0..h.bush.numPoints - 1 : data(i) = Err THEN Err
      ELSE [i \in 1..h.bush.numPoints |-> ResolvePoint(h.stringsIndex, block, data(i - 1))]
=============================================================================
