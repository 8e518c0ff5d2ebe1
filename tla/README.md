# Verification of rgeocache

rgeocache turns OpenStreetMap extracts into a cache file of addresses and serves reverse geocoding from
it. This directory models its Go code, and the parts of the Rust server that must agree with it, in TLA+,
checks the models with TLC on small instances and proves the most important properties with TLAPS for
every instance. Paths below are those of the repository.

## The system

| Component | State | Operations | What makes it hard |
|---|---|---|---|
| `internal/rangeindex` | a B-tree of segments `[Lo, Hi)` under a mutex | Set, SetIfAbsent, Delete, Clear, Get | splits and merges over long call sequences, key+1 at the largest key |
| generator, `geoparser` | relation cache, dedup indexes, zone lists, two channels | ParseOSMData: fill the cache, parse objects in a pool, save to every output | pools, channels, close order, errors half-way |
| `geoparser/geommaker.go` | lines being joined | join, buildPolygon | ways in any order and direction, missing ways |
| `geoparser.Tee`, save workers | a bounded channel per output | duplicate the points and the zones | a slow or failed output blocks the others |
| `kdbush` (memory, disk) | arrays of indexes and coordinates; a mapped file | sort; Range; Within | unbounded scans, ties at the median, early stop, failing reads |
| `internal/bordertree` | polygons and a tree of their bounds | InsertBorder, QueryPoint | simplification, edges |
| `geocoder` | a kdbush and two border trees | Find, FindInRadius, load | which of the reported points is kept, fallbacks, three implementations |
| `cachesaver` v1, v2 | files | Save, Load, LoadMmap | the v1 loader's three goroutines and its early stop; v2 offsets; torn files |
| `server` | a pool of slices, the geocoder | single and multiple addresses, Run | a worker pool per request, pooled memory |
| `internal/stats` | samples | Start, Stop | start and stop protocol |
| `internal/telemetry` | providers | Setup, Shutdown | |
| `cmd` | flags | generate, serve, analyze | one of many steps failing, deferred calls, `log.Fatal` |
| `cmd/simulate` | counters shared by workers | bench, compare | timeouts while the server goes on |
| `server_rs` | a second server, in Rust, over v2 files | | must give the answers the Go server gives |

They interact as follows. `generate` opens the inputs and outputs, starts the collector and calls the
generator. The generator reads an OSM database (external), fills its cache of relations (place and region
borders go to `bordertree`, translated names to a map), then parses nodes, ways and relations with as many
goroutines as configured; `geommaker` makes polygons of relations, `rangeindex` filters what was already
parsed. Points go through one channel and two `Tee`s to the savers, which write v1 or v2 files; a v2 file
embeds a kdbush. Either server loads a file, builds (v1) or maps (v2) the kdbush and answers requests by
`Within` and the border trees. The simulator posts the same points to one server or to two.

For each component the properties that make it correct are: the index is a map and stays minimal; the
generator parses each way once, never before the cache is complete, loses nothing, gives all outputs the
same data, and ends; joining neither loses nor invents an edge and recovers the rings; a kdbush query
returns exactly the points that match, each once; the geocoders agree with each other, also on a file that
was cut off; a file that is loaded gives what was saved, or an error; every request gets one answer per
point, in order; the simulator loses no item, and counts each once if it can read the answers; a command
that succeeds has written whole files, and one that fails closes them; the collector reports every sample,
the last one after all the work, and stops.

## Modules

| Module | Models | State and actions |
|---|---|---|
| `KeyMap` | what `rangeindex` promises: a map from single keys to values | abstract |
| `RangeIndex` | `internal/rangeindex/index.go` | `tree` is the B-tree as a set of segments; one action per public operation, each of which holds the mutex throughout |
| `OsmParse` | the producing goroutine of `ParseOSMData`, its two pools and `iterConcurrently` | `stage` is where that goroutine is, `job[w]` what a goroutine of the parsing pool is doing, `points` the channel |
| `Tee` | `geoparser.Tee` for any source | the item in flight, one bounded channel per consumer |
| `SaveWorker` | `saveWorker`, and `SaveV1`/`SaveV2` as consumers of two `Tee`s | `saver[o]` is where the goroutine of output `o` is |
| `Generator` | `ParseOSMData`: `OsmParse` and `SaveWorker` side by side | they share the points channel, the zone lists and `parsingDone` |
| `Rings` | `geommaker.go` from the members of a relation to its multipolygon | `segments`, `current`, `sections` are the variables of `join`; a step is one turn of its loop, or one inner ring given to a polygon |
| `KdTree` | the implicit KD-tree: ranges of positions, medians, halves | `coords`; `tree` is a history variable with the ranges split so far |
| `KdSort` | `sort` and `sselect` | the recursion is a stack `todo` of ranges, and `calls` for `sselect`, which calls itself on a sample; a step is one swap and the scans after it |
| `KdQuery` | `Range` and `Within` in memory and on disk | `stack` is the stack of the walk; a step is one iteration of its loop |
| `KdBush` | build, then a query | |
| `StringTable` | `uniqueMap` of v1, `dedupMap` of v2 | operators |
| `V1File` | what `savev1.Save` writes, and how `Load` maps an element back | operators |
| `V1Load` | a save that may stop half-way, then `savev1.Load` with `loadV1Cache` as its consumer | `reader`, `decoder`, `mapper` are the three goroutines, `chunkChan`, `blobChan`, `outChan` their channels, `pos` the position of the one reader that they and the consumer share, `stopped` the early stop |
| `V2File` | the cells of a v2 file by offset: `savev2.Save`, `BuildDisk`, `OpenDisk`, `LoadMmap`, `Load`, the readers of strings, points and coordinates in Go and in Rust | operators |
| `Borders` | `bordertree` in Go and in Rust, on rectangles | operators |
| `Geocoder` | the geocoder in memory, the one on a mapped file and the Rust one, on one saved file | `file` is the file, cut anywhere; `handle` what opening it gave; `asked` who is asked, `stack` the walk, `best` the point the handler keeps, `answers` what each answered |
| `Server` | the multi-address handler: the pool of slices, the feeder, the workers | a variable per thing a request owns, indexed by the request; `pool` and `mem` are what requests share |
| `Simulator` | the workers of `bench` and `compare`, on top of `Server` | `client[c]` is where a worker is; the counters are the code's atomics; `recounted` is a history variable |
| `Collector` | `internal/stats/collector.go` | `collect` is its goroutine, `stop` the call of `Stop` |
| `GenerateCmd` | `generate` in `cmd/main.go`, on top of `Collector` | `step` goes through `Steps` in the code's order; `defers` is the stack of deferred calls, `held` what has been acquired and not given back, with or without a deferred call; `files` what the outputs hold |
| `RangeIndexProofs`, `KdBushProofs`, `GeneratorProofs`, `RingsProofs`, `SimulatorProofs`, `GenerateCmdProofs`, `V1LoadProofs`, `GeocoderProofs` | theorems about the module they are named after; `KdBushProofs` also about `KdQuery` alone, `SimulatorProofs` about `Server` alone | |
| `MC...` | instances for TLC | |

`Generator` composes `OsmParse`, `SaveWorker` and two `Tee`s; `KdBush` composes `KdSort` and `KdQuery`;
`V1Load` and `V2File` use `StringTable`, and `Geocoder` composes `V2File` and `Borders`; `Simulator`
composes `Server` with its clients; `GenerateCmd` composes `Collector` with the command.

### Abstractions

* A key of `RangeIndex` is an integer of the width `MinKey..MaxKey`, and `Succ` wraps as Go's integers do.
  The B-tree (google/btree, external) is a set ordered by `Lo`. `op` records the last call and its result.
* An OSM object is an identifier. What its tags and geometry make of it is given by constants: the points
  it makes (`PointsOf`), the ways a highway relation parses (`MembersOf`), the zone it becomes (`ZoneOf`).
  A failure to build a geometry is an object that makes no point.
* The dedup and the append to a zone list of one relation are one step: nothing reads the lists before
  the pool has been waited for.
* A source yields its error once and ends. A saver has two moments at which a write may fail: the magic
  bytes, before it takes anything, and the body, when it has taken everything. Both formats are alike in
  this.
* Coordinates are integers everywhere. The formula of `sselect` for the bounds of its sample is replaced
  by any bounds that contain `k` and are shorter than the range. Range and Within are one walk: they
  differ in the test and in the handler. In `Rings` the members of a relation have no orientation hint,
  as the input format gives none, so `reorient` is never called by the code either.
* A v1 file is a sequence of sections, and a section is whole, missing or does not decode; a blob read at
  another section's place is not one. The shape of a border is opaque there.
* A v2 file is a sequence of cells. A number, a coordinate or a letter takes one cell, so that every
  offset the code computes is computed, and a read past the end fails. The four names of a point that are
  handled alike are one (`name`); the buffer of 512 bytes is `BufLen`.
* A border is a rectangle: its simplification keeps it, or makes a line or a point of it, as
  Douglas-Peucker does for sides within the tolerance. The R-tree is the set of borders whose bounds hold
  the point. Borders are inserted while loading, so no insert runs beside a query.
* A slice is the array behind it and its capacity. What the geocoder knows of a point is the constant
  `Find` in `Server`: `Geocoder` is about that. The Rust handler is one step, since rayon keeps the order
  of the points and nothing is shared. `multithreadedFind` is in `Server` to the last goroutine, those
  that outlive the reply included.
* An item of the simulator is a number; the points it draws are the constant `Body`. A post goes wrong in
  two ways (`Fault`). `Lost` is an error: the response comes too late, or not at all. `Garbled` is a
  response of status 200 that is no list of answers; the two servers never send one, but something on the
  way to them may.
* `ParseOSMData` is two steps in `GenerateCmd`, between which outputs are partly written; `Generator` is
  about what happens in between. The sizes of the heap stand for all the numbers of a sample.
* What `generate` acquires is held until something gives it back, which is not the same as its deferred call
  having run. The file of the CPU profile has no such call (`main.go:237`), and `telemetry.Shutdown` has one
  that gives nothing back (`setup.go:59`). A step that fails may leave such a thing behind as well
  (`LeftBy`). The pprof server is left out: it lives as long as the process.

Mutants of the definitions (comment "Mutant:") are there to show that a property can fail; no
specification uses them.

## Runs

| Run | Instance | Shows |
|---|---|---|
| `rangeindex` | key type 0..4, keys 0..3, two values: all sequences of calls | `SegmentsApart`, `Coalesced`, and that the index implements `KeyMap` |
| `rangeindex_wrap` | all keys of the type | a violation: see Findings |
| `generator` | one node, a way that is in two extracts and twice a member of a relation, a region; two parsing goroutines; two outputs; channel of one | `WaysOnce`, `CacheBeforePoints`, `OutputsAgree`, `SavedIsComplete`, `Terminates`, with read errors and write errors at every point |
| `generator_error` | the same | a violation: see Findings |
| `rings` | eleven relations: two squares apart and one inside, whole or cut into up to four ways, in every order and direction; a way or a node missing, an outer way with no known node, a way twice, squares that touch | `EdgesKept`, `SectionsClose`, `RingsRecovered`, `OuterRingsWhole` |
| `kdbush` | every slice of five points of a grid of four, so with ties; samples above length 3; leaves of one point; two boxes and two disks that touch the points' edge | `ScansStop`, `TreeStands`, `NothingSkipped`, `ReportedOnce`, `AnswerIsExact`, `Ends` |
| `v1load` | five points in blobs of two, three zones in two blobs; channels of one, one and two; a save that stops after any section, and a damaged section, or two | `DeliveredInOrder`, `LoadIsExact`, `ZonesAfterPoints`, `LoadEnds` |
| `geocoder` | three points in four arrangements, with all weights and names listed; no zone, a thin one, or a country, a region and a thin one; every prefix of the file; four places | `AnswersAgree`, `FoundIffThere`, `NearestOfEquals`, `TornFileNeverMisleads` |
| `geocoder_closest`, `geocoder_borders` | the same | violations: see Findings |
| `server` | three items (three points, one point, a body that does not decode), two workers of the simulator, a Go server A with GOMAXPROCS 1, 2 or 4, a Rust server B; two points per thread; one request that fails or one that is garbled (`MaxFaults`); bench and compare | `RepliesRight`, `PointsNotShared`, `ItemsCounted`, `ComparisonExact`, `EverythingEnds` |
| `generate_cmd` | every combination of flags, an output that is the empty string included, one or two inputs, the two outputs at two paths or at one; every step that can fail does; a kill at any moment | `SuccessMeansWhole`, `ReleasedThenReported`, `ReportComplete`, `OldCacheSurvives`, `CommandEnds` |

The bounds are enough for what they are about.

* Four keys and two values give a segment two neighbours, a split and a merge on both sides at once.
* Two goroutines and a way with three ways in give every race of two parsings of one way; a channel of
  one is full whenever it can be (the code's is ten: a longer one only blocks later).
* Five points give a root with two halves that are split again on the other axis, and with samples above
  three the inner call of `sselect` happens. 600 and 64 are the code's numbers.
* Four pieces of a ring are enough for a line to be appended, prepended, and either of them reversed, and
  for a section to be begun in the middle. One hole decides which polygon an inner ring goes to.
* In `v1load` there are more blobs than a channel holds, the last blob is shorter than the others, and
  each of the three goroutines is at some time blocked on a full channel when the consumer gives up.
* In `geocoder` the leaf size is zero, so three points make a tree with inner nodes. There are points
  inside the radius, on it and outside, nearer and heavier ones in either order, strings as long as the
  buffer and longer, and places inside and outside the borders. Cells being single, a cut falls between
  any two fields.
* GOMAXPROCS 1, 2 and 4 give no worker, one and two. Three points are one more than two workers take at
  once. Two workers of the simulator give two requests in the server at the same time, and a third when a
  client has given up on one. One fault is enough to have an item counted twice, or one request outlive
  its client beside the others.
* One tick between the first sample and the last (`MaxSamples`) and none are the cases of `Tick`; two
  inputs are enough for the second to fail when the first is open.

Most runs are without deadlock checking because the program they model ends; `rangeindex` checks it.

### Fairness

* `Generator` assumes only that some goroutine runs while any can, and never that a fault occurs; the Go
  scheduler promises more. `KdBush` assumes that the calling thread goes on with its loop.
* `V1Load` assumes of each goroutine that it goes on while it can, and that a save ends or stops. A
  consumer that stops early leaves goroutines blocked for ever on full channels; `LoadEnds` is about what
  the caller sees.
* `Simulator` assumes that its workers and the servers go on; no request is obliged to time out.
* `GenerateCmd` assumes that the command and the collector go on, that `ParseOSMData` returns (`Generator`
  says when it does) and that the `select` of the collector does not choose its tick for ever
  (`MaxSamples`). A kill is possible and never obliged.
* `Rings` and `Geocoder` state no fairness, and no liveness is claimed of them.

### What the properties leave out

Some properties hold only under a condition. Each is stated in the property and is about the code:

* `AnswersAgree` speaks of places at which the border trees are meant to agree (`BordersPlain`): the Go
  tree simplifies polygons and the Rust tree does not, they treat a point on an edge differently, and with
  overlapping borders either takes any. It speaks of strings that fit the buffer (`StringsFit`); the
  code cuts longer ones (`locator_disk.go:112`).
* `RepliesRight` has a branch for a server with GOMAXPROCS 1 (`server.go:156`): the number of threads is
  then zero and every answer to a request of two or more points is the empty one. `EverythingEnds` leaves
  out the feeder of such a request, which is blocked for ever.
* `SuccessMeansWhole` has a branch for two outputs with one path, which the flags allow
  (`main.go:299`, `315`): both savers write over each other.
* `ItemsCounted` allows what `compare` does with a response of 200 that does not unmarshal: it has counted
  the success before it looks (`compare.go:126`) and counts a failure as well (131, 138). The history
  variable `recounted` says how many items that happened to. It must be zero under `bench`, which reads no
  body, and without a fault, and the two counters exceed the items taken by it and no more.
* `ReleasedThenReported` leaves out what the code never gives back (`Leaked`): the open file of the CPU
  profile and the telemetry. Of the rest it says when it is released: before `Stop` is called, so that the
  last sample is taken behind all of the work whichever step failed; a collector that was started only
  when the inputs are open would be stopped before they are closed. It is about commands that return. A
  heap profile that cannot be created ends the process by `log.Fatal`, and no deferred call runs.
* `TornFileNeverMisleads` allows a mapped file that was cut behind the header of its point block to be
  opened: queries then find nothing (Go, which logs the failure) or panic (Rust); they never give a wrong
  answer. Loaded as a stream such a file is an error. The stream loader of v2 gives every point the
  coordinates 0, 0, as its comment says (`load.go:261`).

Some things seen on the way contradict nothing the repository says, and are not findings:

* The slice that a handler gives back to the pool is the empty one it took, because a deferred call
  evaluates its argument at once (`server.go:137`); the pool therefore never reuses memory, and this is why
  `PointsNotShared` holds: `SimulatorProofs` proves it as part of the invariant.
* `telemetry.Shutdown` only looks at providers that are nil (`setup.go:60`), so that it shuts down nothing
  and exports nothing.
* `profile.cpu.pprof` is never closed, also not when the profile cannot be started (`main.go:237`,
  `241`-`244`); the end of the process does it.
* An output flag that is set to the empty string passes the check at `main.go:171`. If there is no other,
  the command reads its inputs and returns without an error and without an output (`main.go:329`).
* `compare` may print more successes and failures than requests, as said above.
* An old-style outer way of which no node is known is an empty line, and asking for its orientation panics
  (`geommaker.go:87`, `361`). In `Rings` this is the stage `panicked`.

## Findings

* `SetIfAbsent` at the largest key of the type returns true, but the segment it stores covers nothing
  (`index.go:263`, against the comment at 251). The identifiers of OSM objects are far below that key.
* When reading the input fails, `ParseOSMData` does not return: its error path closes neither channel
  (`geogen.go:93`, `98`), so `saveWorker` waits for ever and `cmd/main.go:336` never reports the error.
* `Find` need not return the closest address (`locator_disk.go:42`, against the comment at 29): the
  handler keeps a point that is nearer or heavier than the one it has, so a farther and heavier point
  wins, and with three points the winner depends on the order of the walk. `NearestOfEquals` states what
  does hold.
* A border no larger than the tolerance is simplified to a line or a point when it is inserted
  (`bordertree.go:38`), and is not found for points inside it; `bordertree_test.go:59` requires of every
  point that the tree finds a border exactly if it contains the point.

## Proofs

`RangeIndexProofs` proves, for every integer range, set of keys below `MaxKey` (the assumption
`BelowMax`) and set of values:

* `TypeCorrect`, `SegmentsAlwaysApart`, `AlwaysCoalesced`: the invariants the run checks. They are proved
  together as `IInv`: that segments are apart is needed to know that the segments overlapping one key are
  at most one, and that nothing unmerged touches the new segment is needed for the merge to be complete.
  Each helper of the code (`FindOverlapping`, the trims, `MergeLeft`, `MergeRight`) has a lemma that says
  what tree it returns in terms of the keys it covers.
* `IndexIsAMap`: the refinement of `KeyMap`, from lemmas that give `Lookup` after each operation.

`KdBushProofs` proves of `KdQuery`, for every number of points, every leaf size, every arrangement of points
in which `Built` holds (each range longer than a leaf is split at its median) and every box or disk:

* `WalkSkipsNothing`, `WalkReportsOnce`, `WalkIsExact`: a walk reports the points that match its query,
  all of them if it comes to its end, and each once. The inductive invariant `IInv` adds to the two
  properties that the ranges on the stack are leaves or nodes of the tree, disjoint from each other and
  from what has been reported. Without the first a step could not use that a range is split; without
  the second the count of reports says nothing. The one fact about geometry is `MatchInBox`: a point within
  the radius lies in the box by which `Within` walks. It needs a radius that is not negative
  (`QueryAssumption`).

Then it discharges `Built`: it starts at `NewBush` and proves, for every slice of points, leaf
size, sampling threshold (`SortAssumption`) and query, `TypesHold`, `ScansStayInside`,
`SortedTreeStands`, `BushSkipsNothing`, `BushReportsOnce` and `BushAnswersExactly`. The invariant
`SortInv` of the sorting phase says

* that `idxs` is a permutation of the points and the coordinates follow it, without which a walk that is
  right about positions says nothing about the caller's points (`AnswerIsExact`);
* that the frames of `sselect` are nested in the range that `sort` is splitting, and of each frame what
  its two scans have established so far. The scans test no bound: it is the element on the far side of
  the pivot, put there at the start of a pass and kept there by every swap, that stops them
  (`ScansStop`);
* that the ranges still to be sorted are disjoint from each other and each is on one side of the median
  of every range that has been split. A swap then stays inside what it rearranges, and rearranging all of
  one side leaves the order between the sides as it was (`OrderKept`);
* that every range `sort` owes the root is a leaf, split or still to do, so that when nothing is to do
  the tree is built.

During the query nothing is swapped, and the lemmas of the walk apply.

`GeneratorProofs` proves, for every input, number of parsing goroutines and outputs and every capacity of
the points channel, and with read and write errors at every point: `GeneratorTypes`,
`CacheAlwaysBeforePoints`, `OutputsAlwaysAgree`, `WaysAlwaysOnce` and `SavedAlwaysComplete`. It assumes
that the extracts are finite lists of objects and one of them is read for relations (`InputAssumption`),
that the identifiers of nodes, ways and relations differ, as an `osm.ObjectID` carries its type
(`ObjectAssumption`), and that two makings of a point are told apart when one is by a way
(`PointAssumption`): points stand for where they come from, otherwise "the same point twice" could not be
said. Its invariant `IInv` has these parts:

* `StageInv`: what the generating goroutine has waited for at each of its stages. The points channel is
  closed, and the zones are read, only when no object is in the queue or with a goroutine.
* `CacheInv`: what has been read while the cache is filled is cached or about to be; leaving that stage
  leaves nothing about to be.
* `SameLog`: what an output has been given, what waits in its channel, what the Tee holds for it and what
  is in the points channel are, in this order, one list, the same for every output. Every step of the
  Tee moves a point along that list, and only `Sends` makes it longer.
* `WaysInv`: a point of a way is in that list or with one goroutine, once, and nowhere before the dedup
  index has the way. The set-if-absent of the index is what a second goroutine fails.
* `ReadInv`: what has been read is in the queue, with a goroutine or handled, unless a read error is in
  the queue or has ended the parsing. A way counts as handled once it is in the index, although the
  goroutine that put it there may still have its points to send; they are sent before the stage ends,
  because the stage ends only when no goroutine holds an object.
* `SaveInv`: a saver leaves a phase only when the channel of that phase has been closed and drained.

When an output is saved the points channel and its Tee are empty and no goroutine has a point left, so
what is handled has been given to it.

`RingsProofs` proves `EdgesAlwaysKept` and `SectionsAlwaysClose` for any relations whatever: ways missing,
closed, crossing themselves, given twice, meeting three at a point. `RingsAssumption` only says that members
and nodes are sequences. Both are a matter of counting in lists: the number of times an edge occurs in lists
put together, and the number of lines that end at a point, are sums (`TimesConcat`, `EndsConcat`).
The invariant `IInv` says, while `join` runs, that

* every edge occurs in the unused lines, the sections and the section at hand as often as in what was given
  (`EdgeInv`). Of joining a line in either direction at either end it needs `Both`: the longer line has the
  edges of the two; dropping the point they share loses none.
* the number of line ends at a point is even or odd as it was (`EndInv`): two ends that meet both go.
* if every number of ends given is even then all sections are closed (`CloseInv`). A section is given up as
  dangling when nothing fits; then no unused line ends where it starts, the closed sections have an
  even number of ends there and it has one, which is an odd number in all.

It also proves `OuterRingsAlwaysWhole`. `PolyInv` says of the multipolygon in every state that an outer
ring is missing or closed and of at least four points, and that where it is missing no outer ring contains
one of the inner rings (`Whole`). Adding an inner ring (`AddToWhole`) keeps this because outer rings never
change and a missing one contains nothing (`NothingContains`), so nothing about the geometry of
`polygonContains` is used. It follows that the branch of `addToMultiPolygon` for a first outer ring that
is open (`geommaker.go:150`) is never taken.

That the first fitting line is taken is not used: any choice would do. `FlattenSeq` and `Kept` are
recursions over a list, so the module starts with induction over sets of numbers (`Induction`, from
`NatLessThanWellFounded`) and shows that a list put together from left to right is well defined and
unique (`GrowsExists`, `GrownSame`).

`SimulatorProofs` first proves of `Server` alone, for any servers, requests, points, thread counts and
answers of the geocoder (`ServerAssumption`):

* `ServerTypes`, `RepliesAlwaysRight`, `NeverShared`. The inductive invariant is the types, that every
  pooled slice is an empty one, and `RequestInv` for each request: its points are in an array of its own,
  and either its workers have not been started or every index its feeder has sent is accounted for, in
  the channel, with a worker or in the results with the right answer. When all workers are done and there
  is at least one, the channel is closed and empty, so the results are complete.

Then it proves that the composition uses the server as its specification asks:
`SimulatorUsesServer` (`Spec => ServerSpec`), from which `SimulatedRepliesRight` and
`SimulatedNeverShared` follow without looking at the clients again. What has to be
shown is that what a worker posts is a request (`ClientInv`: it has an item, and a server left to post it
to) and that every other step of a client leaves the server alone.

It also proves `ItemsAlwaysCounted` and `ComparisonAlwaysExact`, for any number of workers, items and points,
from `ClientAssumption`: there are workers (`compare.go:42` refuses to run without), compare has two
servers and posts one body to both, and neither the error of a post nor a garbled response is one of the
servers' answers. `SimInv` says that each worker that is busy holds an item of its own (`HeldInv`), that
the items taken are counted or held (`CountInv`), and, under compare with servers that have workers, that
what a worker has got is lost, garbled or the reply that is right, and that as long as there was no fault
`matched` is the sum over the items that have been judged (`RightInv`). Without a fault no worker has
anything but replies, and no item is in both counters (`FaultInv`).

These are sums over sets of any size, and need an induction over data. The library's induction theorems
take an operator and cannot be used, so the module proves induction over the natural numbers as a
statement about a set (`Induction`), from the pigeonhole principle for finite sets: if `m` were missing from
a set that has 0 and with each `n` its successor, the successor would map the members below `m` one to one
to fewer. With it `SumFunction` is shown to be well defined (`SumExists`) and to change by as much as one of
its terms (`SumChange`).

`GenerateCmdProofs` proves, for any command lines (`FlagsAssumption`), heap sizes (`CollectorAssumption`)
and number of samples:

* `CommandImplementsCollector`: the command implements `CollectorSpec`, that is, it calls `Start` and
  `Stop` once each and in that order, as the collector's protocol asks; `ReportAlwaysComplete` of the
  collector alone then gives `CommandReportComplete`.
* `SuccessAlwaysWhole`, `AlwaysReleasedThenReported`, `OldCacheAlwaysSurvives`, `CommandTypes`. The invariant
  `CmdInv` ties the resources held to the stack of deferred calls (what is held has a deferred release or is
  among what is leaked, and a collector that has not reported is held), and the state of the outputs to the
  step that is next. That all but the telemetry is released when `Stop` is called rests on the order of the
  stack: below the collector's call there is only that of the telemetry (`BelowStats`), because the steps
  before the collector's defer nothing else.

`V1LoadProofs` proves `ZonesAlwaysAfterPoints`, `AlwaysDeliveredInOrder` and `LoadIsAlwaysExact` for every
input, blob size (`V1LoadAssumption`), channel capacities and damage. `RecordAssumption` says that points
and zones are records with the fields of the Go structs, and that an error in a channel is not equal to a
point, a section number or a blob: `error` and the payload are different fields of what the channels carry.

For the first theorem: the consumer and the reading goroutine share a reader without a lock, and nothing
but the closing of channels keeps them apart. The invariant `Inv` says of each stage that has ended that
the one before it has ended and left nothing in its channel, or that the stage has passed on an error which
nothing overtakes, so that the consumer meets it before it can come to the zones.

The other two need what is in the channels. The lemmas say first what Save and Load do with the data:

* A table of strings gives every string it has met a number of its own (`UniqueMapTable`), so the slice that
  is written turns each number back (`LookUp`). The tables and the lists of zones of one type are folds; that
  a fold is well defined and goes from left to right (`FoldExists`, `FoldSteps`) is shown once, by the same
  induction over sets as in `SimulatorProofs`.
* A blob is the next piece of what is cut up, and mapping it back gives the next piece of the input
  (`PointBlobBack`, `ZonesBack`); `Cut` and `ZoneCut` say how far the first blobs reach.

`PathInv` then follows the points from the consumer up to the reader. `Flow` says that what is on its way
out of the mapper goes on `InputPoints` from where the consumer is, up to the first error. If there is
none, `BlobFlow` says the same of the blobs behind it, `ChunkFlow` of the section numbers behind those,
and `ReaderFlow` that the reader is at the section that is next. When the stages have ended without an
error the chain closes: the consumer has all points and the reader is at the first zone (`AllArrived`).
`Clean` is the other half of `LoadIsExact`: while the file is whole no error is anywhere, so nothing can
fail.

`GeocoderProofs` proves `AnswersAgreeAlways`, `TornFileNeverMisleadsAlways`, `FoundIffThereAlways` and
`NearestOfEqualsAlways`, for any number of points, names, weights, zones, leaf size, buffer, radius, places
asked for and every order of the points that `sort` may leave. `GeocoderAssumption` gives the constants their
types. It also says what Go's types and the format give for nothing: no name holds the Nul that ends it in the
file, a zone has a name (`parseRelationRegion` drops a relation without one), and the values that stand for a
failure, for "nothing found" and for "not asked" are none of the values themselves.

The inductive invariant `GeocoderInv` has four parts.

* `InputInv`: the points, and an order of them in which the tree is built.
* `FileInv`: what is on disk is a prefix of the one file that Save writes, the whole of it exactly if the
  save came to its end, and what is opened is of that file. What follows from it is in lemmas, one for
  each section of the file and one for each read. They say at which cells the section lies, so that an
  offset that a reader computes meets the cells Save put there, and that the read gives what was saved, or
  an error if the prefix ends before. The number of a string, turned into the place where its letters
  begin and read up to its Nul, gives the string back.
* `AskedInv`: the geocoder that is asked has come to a stack and a kept point of the *walk* (`Walked`),
  which is a sequence of stacks and kept points that depends on the order of the points and the place alone
  (`Walk`). A mapped geocoder departs from it only by a read that fails, in a file that is torn.
* `AnswersInv`: an answer that has been given is that of such a failure, or the one that follows from the
  end of the walk and from the borders that hold the place.

There is one walk from a place (`KeepsSame`), and a lemma of its own says what it finds (`WalkCovers`): every
point in the radius is in a range on the stack, or one as good is kept.

Two geocoders that have made the same walk keep the same point, which gives `AnswersAgree`; where
`BordersPlain` holds there is at most one border to choose, and where `StringsFit` holds the buffer cuts
nothing. A torn file either makes the walk fail or does not touch it, which gives `TornFileNeverMisleads`.
That no point in the radius is left out of a walk is `KdQuery`'s argument again, in the terms of this
module. Here the stack is a sequence and the halves are visited in its order, because the handler's choice
depends on it.

`SetIfAbsentSets`, `ReadErrorIsReturned`, `FindReturnsClosest` and `BorderFoundIffContains` are refuted, so
nothing is proved about them.

Only model-checked are: liveness (`Terminates`, `Ends`, `LoadEnds`, `EverythingEnds`, `CommandEnds`),
which the prover does not handle; and `RingsRecovered` of `Rings`. That one is about the geometry of the
relations checked and does not hold of all relations whose ways are rings cut into pieces: two rings that
cross, a ring that encloses no area, or an inner ring outside every outer one are counterexamples. What
holds of all is `EdgesKept`, `SectionsClose` and `OuterRingsWhole`. Proved of `KdBush` but not carried
over to `Geocoder` is that `sort` builds the tree: `Geocoder` starts from every order that satisfies
`Sorted`, which is what `SortedTreeStands` gives.

## Not modelled

* Float geometry: areas, centroids, representative points (`calc.go`, `polylabel.go`), sampling, and
  containment and simplification of polygons other than rectangles. TLC has no floats, and the properties
  would be numeric ones.
* `localize.go`, which picks a translated name from tags, and the contents of the localization cache: two
  relations with one official name race for its entry, and either is as good.
* The generator's return for an output of an unsupported format (`save.go:84`): `cmd/main.go` never
  asks for one. Nodes of overlapping extracts, which are not deduplicated (`parser.go:61`), are data.
* The exporters of telemetry (third-party) and the metrics of the Rust server.
* The life of the server's `Run`: nothing in the program cancels its context. The single-address handler
  keeps no state.
* The dispatch of `serve` and `analyze`, `detectV2Cache`, the choice of a loader in `load.go` and the
  legacy format: switches without state. `LoadFromPointsFile`, `NewGeoCoderFromPoints` and `Close` of the
  geocoder.
* The points the simulator draws and the report it prints; the formatting of `SaveToFile`.
* Generated code (`*.pb.go`) and records without behaviour.

