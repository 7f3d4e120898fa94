# OrcMaps in TLA+

A verification project for OrcMaps, an offline vector-map engine for small
boards: TLA+ modules translated from the C++ and Python sources, TLC
configurations that check them on small instances, and TLAPS proofs of what
matters most for every instance. Paths below are paths of the repository.

## 1. The system

```
 PC  provision_pack.py / build_regional_pack.py --files--> work dir / SD card
                                                             |
 device   boot: DiscoverPacks -> PackCatalog -> ResolvePack -+-> archive
          frame: Viewport -> tiles -> PmTilesReader -> InflatingByteStream
                 -> StreamMvtTile -> sink (renderer / benchmark)
```

| Component | State | Operations | Talks to | What is hard | What makes it correct |
|---|---|---|---|---|---|
| PmTilesReader (`src/tiles/pmtiles_reader.cpp`) | `open_`, header, parsed root, one or two leaf cache slots, a cursor | Open, TileExists, GetTile, StreamTile, GetTileInflated, ReadMetadata | ByteSource reads that come back short; allocations that throw and are caught by the caller | partial fills of the cache, stale slots, leaf cycles | the cache is invisible; a refusal without a failure means absence |
| StreamMvtTile (`src/tiles/mvt_stream.cpp`) | a scratch reused over tiles: layer tables, feature, byte buffers, inflater | StreamMvtTile, ReserveMvtStreamScratch | InflatingByteStream; `include_layer` and `feature_sink` callbacks | two passes that must agree; exits everywhere, exceptions included; memory kept between tiles | the sink sees a prefix of the tile, each feature with its own layer's tables; nothing large is retained |
| InflatingByteStream, DecompressPayload (`src/tiles/compression.cpp`) | window, counts, CRC | Begin, Read, Skip, ReadVarint, AtEnd | miniz, reader callback | the end of the data against a failure | never a short read |
| MVT decoder (`src/tiles/mvt_decoder.cpp`, `mvt_translate.cpp`) | none (buffers of the caller) | DecodeMvtTile, DecodeFeatureAsFeature | | packed and unpacked geometry in any mix, ring reuse | both paths decode alike, whatever was in the buffers |
| PackCatalog, ResolvePack (`src/core/pack.cpp`) | the packs | Add, ResolvePack | | antimeridian, ties | the pack drawn covers the request; order is irrelevant |
| DiscoverPacks (`src/core/pack_discovery.cpp`) | none (fills the catalogue) | DiscoverPacks | filesystem of the board | what a card may hold after failures on the PC | only whole packs; one bad manifest hides no other |
| Builders (`tools/pack-builder/*.py`) | files | provision, regional build, stage, sidecars, world overview | go-pmtiles, filesystem | failures and kills between files, `--force`, stems | a success is usable; what worked is not lost |
| Viewport, geo (`src/core/viewport.cpp`) | center, zoom, size | pan, zoom, fit, fill, enumerate tiles | | wrap-around, rounding | the tiles enumerated cover the screen |
| Location picker (`src/core/location_picker.cpp`) | viewport, zoom range, pick | Begin, drag, recenter, zoom, reset | Viewport | clamping order | the view stays in its range |
| Frame pipeline (`examples/hardware-benchmark/bench.cpp`) | counters, stats | RenderMeasuredFrame | reader, stream, renderer | failures in the middle of a frame | the counters add up |
| Demo applications (`examples/m5stack-tab5`, `esp32-cyd-35`, `lilygo-tdisplay-s3`) | viewport, active source, floor | taps, sweep, redraw | all of the above | stale source or floor | the source drawn covers the view |
| Renderer, strokes (`src/render/*.cpp`, `stroke.hpp`) | none | RenderFeatureTileAt, RasterizeCenteredStroke | Viewport, RenderTarget | clipping, merged runs | the pixels are the brush along the line |
| Manifest parser (`src/core/pack_json.cpp`) | none | ParsePackManifestJson | | torn files, nesting, types | what was cut short is refused |
| Classifier, adapters, tools, miniz | little or none | | | | see section 7 |

The engine is single-threaded: nothing in it starts a thread or takes a lock,
and no callback re-enters it. What interleaves is the engine and its
environment: a medium whose every read may fail, an allocator that may throw
anywhere, a caller that catches this and goes on, and a PC whose run may stop
between any two files.

## 2. Modules

| Module | Models | State and actions |
|---|---|---|
| `TileDirectory` | `ReadDirectory`, `FindEntry`, `FindEntryInSerialized` | none: operators on the four columns of a directory |
| `TileId` | `ZxyToTileId` | none: the Hilbert id, a recursive function over the rounds of its loop, its rotation in 32-bit (scaled) arithmetic |
| `TileIndex` | the promise of `pmtiles.hpp` | abstract specification: a question is asked, an exact answer comes, or a refusal that needs absence or a failure during that very question |
| `PmTilesReader` | `PmTilesReader` | `Open`, `Locate` (up to the loop of LocateTile), one action per outcome of a turn of the loop (`TooManyHops`, `LeafHit`, `LeafMiss`, which share the test `HopsSpent`), `NotFound`, `Deliver` |
| `CommonLemmas` | | facts about numbers, finite sets, recursive functions and folds that several proofs need |
| `PmTilesReaderProofs` | | theorems about `PmTilesReader` |
| `ByteStream` | the promise of `compression.hpp` | abstract specification: the bytes passed are a prefix of the payload, and the end comes only behind the last |
| `Inflate` | `DecompressPayload`, `DecompressStreaming`, `InflatingByteStream` | the fields of the stream, its ring and the caller's call; one action per call of tinfl, of the reader and of memcpy |
| `MvtStream` | `StreamMvtTile` over `InflatingByteStream` | a token per protobuf field; one action per field read and per end of a layer or pass; `Refuse` for what is wrong with the payload, `Abort` for failing reads and allocations; `Exit` is the destructor `TrimOnExit` |
| `MvtStreamProofs` | | theorems about `MvtStream` |
| `MvtDecoder` | `DecodeMvtTile`, `DecodeFeatureAsFeature`, `TranslateMvtToFeatureTile` | none: operators from fields and old buffers to features |
| `PackJson` | `ParsePackManifestJson` | none: an automaton over tokens with the stack of open values, then the typed fields |
| `PackCatalog` | `PackCatalog::Add`, `ResolvePack` | the packs; `Add` |
| `PackDiscovery` | `DiscoverPacks` | none: operators on a directory of files |
| `PackCard` | the three builders, staging and the boot of a device | one action per file written (`Extract`, `Replace`, `WriteManifest`, `WriteChecksum`, `StageArchive`, ...), `Fail`, `Crash`, `Boot` |
| `PackCardProofs` | | theorems about `PackCard` |
| `MapView` | `viewport.cpp`, `geo.cpp` | none: one operator per function, on a view record |
| `LocationPicker` | `LocationPicker` over `MapView` | the picker; one action per method |
| `Renderer`, `Stroke` | `RenderFeatureTileAt`, styles; `RasterizeCenteredStroke` with its clipping | none: operators that give the calls on a render target |
| `MapDemo` | the Tab5 and CYD applications over `MapView` and `PackCatalog` | camera, active source, floor, canvas, panel, finger; one action per tap, per move of the finger and per measured frame |
| `MapDemoProofs` | | theorems about `MapDemo`, about `MapView`'s cameras and about `LocationPicker` |
| `PartProofs` | | theorems about `Inflate` (it implements `ByteStream`), `MvtDecoder`, `Stroke` and `TileId` |
| `LibraryProofs` | | theorems about `PackCatalog`, `TileDirectory`, `PackJson` and `Renderer`, and every invariant of the run `library` |
| `MeasuredFrame` | `RenderMeasuredFrame`, `CheckFrame` of embedded-world-check, the LilyGO's frame | counts, what was sent and drawn, the sweep's totals; one action per lookup, feature and end of a tile |
| `MeasuredFrameProofs` | | theorems about `MeasuredFrame` |

`MC*` modules give the constants of each their small values. `MCLibrary` puts the
parts that share nothing into one run: a variable `topic` chooses one, its input is
chosen in the initial state, and only the catalogue, the picker and the inflating
stream go on from there. It takes the modules it runs through the modules that prove
about them (`PartProofs`, `MapDemoProofs`), so that `LibraryProofs` can take what is
proved in general to the run; the variables of the applications are constants there,
since no application is run. An operator marked *Mutant* in a module is the form a bug
would give to the definition after it; none is used by the specification.

Who composes whom: `PackDiscovery` in `PackCard` (a card is written, then booted
from); `TileDirectory` in `PmTilesReader`, which implements `TileIndex`; `Inflate`
implements `ByteStream`, whose failures are the ones `MvtStream` meets; `MapView` in
`LocationPicker`, `Renderer` and `MapDemo`, the last with `PackCatalog` as well.
`MeasuredFrame` takes of the reader and of the stream what their specifications
leave open: absence or failure, a prefix of the features, a tile that ends short.

### Abstractions

* **PmTilesReader.** A directory is its four columns of numbers; Z/X/Y is
  already a tile id. A payload is its place: where it lies and how long it is.
  Two read failures are told apart, the silent one (return false) and the throw,
  only where they leave different state; after a failed fill the slot's bytes are
  cleared or zero-filled, and both read as a directory without entries.
* **Inflate.** A byte is its payload and its place in it. tinfl is external: how
  many bytes each prefix of the compressed units decodes to is part of the payload,
  and what it writes is garbage unless the ring still holds the bytes before.
* **MvtStream.** A payload is a sequence of tokens, and a token is consumed
  whole. A read that stops inside a field is `Abort`. A vector's capacity is the
  largest size it ever held; sizes are small numbers in the units of the limits.
  Decoding a feature is one step that may refuse or throw with its rings grown or
  not. The only cut that is not a failure is one exactly where a top-level field
  ends and where inflate has also handed out its last complete run: `RunEnds`.
  Of the scratch's buffers the rings and the feature's bytes are modelled, which are
  the ones the trim is about.
* **MvtDecoder.** A message is the sequence of its fields, a varint its number;
  values have no types, and unknown fields, which are skipped, do not occur. What a
  tile gives is the translated features of the layers its caller got: those of whole
  layers, and with a sink also those of the layer at fault that were sent before.
* **PackJson.** A document is a sequence of tokens; escapes, digits and the
  fourteen required strings, which are read alike, are not told apart.
* **PackCatalog.** Degrees are whole units; identities are numbers for their
  string order. The required-field and identity checks are the flag `sound`.
* **PackDiscovery, PackCard.** A file stem is the sequence of its dot-separated
  parts, because `with_suffix` is about those. An archive is its content and its
  size; one whose writing was interrupted has size 0, a size no whole archive has.
  A manifest's hash is the content of the archive hashed. Options that do not
  touch files (priority, display name, dates) are left out, and the area, zoom
  range and snapshot are one value. What a scan adds and rejects are sets: only a
  duplicate depends on the scan's order, which `SortedStems` keeps, and resolution
  does not depend on it (`OrderDoesNotMatter`).
* **MapView.** The world is a grid; a unit is half a pixel at the deepest zoom, so
  that every half screen is whole, and latitudes are already projected. Rounding
  errors of doubles are thereby out of sight. Only where the code averages two
  latitudes in degrees does the projection matter: `MeanLat` stands for it and is
  given values that lie off the projected middle, as the real ones do.
* **Stroke.** Pixels are pixels; the clip's parameters are exact fractions.
* **MapDemo.** What a frame shows is the view, style, pack and message it was drawn
  from. A measured frame is one step and need not succeed to move the camera.
  Zooms, screens and packs are scaled; the code's tests on them are not. Only the
  Tab5 has a flag for partial coverage; on the CYD it stays false and tells nothing.
  What a sweep has to put back is `saved`, camera and active source; other actions that
  move the camera or draw a frame set it too, so that it is always what was there last.
* **MeasuredFrame.** A byte count is a count of the features walked over; times are
  left out.

## 3. Runs

| Run | Shows |
|---|---|
| `library` | **Catalogue**: whatever was added in whatever order, the pack resolved covers the request (`ResolvedCovers`) and does not depend on the order (`ResolvedWhateverTheOrder`). **Picker**: its zoom stays in the range that fills the screen and nothing but the user moves the selection (`SelectionIsDeliberate`). **Stream**: it passes the bytes inflating whole gives (`ImplementsStream`) and every call returns (`CallsReturn`). **Directories**: the two searches agree (`SearchesAgree`) and find the one entry that claims the id (`FindsTheClaimant`). **Ids**: each level is numbered along a curve, its ids are exactly those between the levels around it and no two tiles share one (`LevelsAreCurves`). **Views**: placements paint every pixel of the map once, at the right copy (`PlacementsPaintTheScreen`); the fill zoom is the first that leaves no margin (`FillLeavesNoMargin`); zooming at a point keeps it (`AnchorStays`). **Decoding**: geometry is that of the fields' concatenation, however they are split and packed as long as no unpacked word follows a packed run (`GeometryIsTheConcatenation`); decoding a tile whole and feature by feature agree on whether it is sound and on its features, whatever the buffers held, and of a tile that is not sound on all before the layer at fault (`DecodersAgree`). **Drawing**: the rectangles of a stroke are its brush along the line (`RunsPaintTheBrush`); a tile is drawn as its features one by one (`TileIsItsFeatures`). **Manifests**: one that was cut short is refused as malformed or as too deep (`CutManifestIsRefused`) |
| `reader` | with two slots, two levels of leaves, two hops allowed, an empty tile and a leaf cycle, and failing or throwing reads: `LeafCacheCoherent`, `NoLeafHeldTwice`, `OpenHasRoot`, `CallOnTrack`; the reader implements `TileIndex` (`ImplementsIndex`); every call returns (`CallsReturn`) |
| `reader_exists` | *violation*: `TileExists` cannot tell absence from a failed leaf read |
| `stream` | `SinkSeesAPrefix`, `OwnLayerTables`, `AcceptedUpToTheEnd`, `RetainedGeometryBounded`, and every tile ends (`TilesEnd`) |
| `stream_cut` | *violation*: a tile cut between layers is accepted |
| `stream_bytes` | *violation*: the byte buffer of a large last feature is retained |
| `card` | three runs of the builders with failures and kills, then boots: `BootedPacksAreWhole`, `SuccessIsOffered`, `UnforcedInPlaceKeepsOffered` |
| `card_staged` | *violation*: staging overwrites without `--force` |
| `card_dotted` | *violation*: a name with a period gets its manifest under another stem |
| `app` | both demos through any sequence of taps, drags, benchmarks and sweeps on six cards, any archive unreadable: the panel shows what the camera sees (`PanelShowsTheCamera`), frames say what they cover (`FramesTellCoverage`), the zoom floor is tight (`FloorIsTight`), a release does not make the map jump (`NothingJumps`), and measurements end, on the Tab5 with the camera and the active source they began with (`MeasurementsEnd`) |
| `app_opens` | *violation*: a regional pack alone, too small for the screen at its own zooms, opens on a blank frame |
| `frame` | frames of the three pipelines with tiles absent, empty, repeated, undecodable, cut or too large for memory: `EveryTileAccountedOnce`, `HonestPass` |

### Bounds

* `library`: directories of three entries let a run, a leaf pointer and a gap follow
  each other in every order; deltas and runs up to 2 reach each boundary and one
  beyond. Run lengths stay below 2^32, scaled: the parsed form truncates a run to 32
  bits, the serialized one does not, and only a run that covers a whole zoom level 16
  would tell them apart. Levels up to 3 hold each rotation inside each other one.
  The world is 16 units and three zooms, with screens narrower than a tile and wider
  than the world and every centre. Lines begin and end in and around a screen of
  3 by 3 pixels, with brushes of one to three. Geometries are ten sequences of
  commands, whole and wrong, cut into three fields in every way; layers any three of
  ten fields. Documents are a whole manifest, each of its fields missing or of
  another type, and nests as deep as allowed and one deeper, cut at every token. The catalogue
  takes eight manifests in any order, over longitudes -3..3 and latitudes -1..1. The
  ring of the stream is 4 bytes, so that payloads up to 7 wrap it, and pieces are 2.
* `reader`: `MaxLeafHops` is 2 for the code's 8, so that the chain of id 7 is exactly
  as long as allowed (giving up one hop earlier would show in `ImplementsIndex`) and the
  cycle of id 9 must be given up; `reader_exists` keeps 8. Three leaves contend for two slots, so
  eviction, refill and re-use of a slot whose fill failed all happen. The state is
  finite, so nothing else bounds a behaviour.
* `stream`: the eight payloads hold a dense feature first and last, an excluded
  layer between wanted ones, a layer without a name, unreadable fields inside and
  between layers, a feature beyond the limit, a layer named twice with different verdicts
  and one that the payload ends in. Any number of tiles follow each
  other; what a tile inherits is the scratch.
* `card`: `MaxRuns` = 3, enough for a broken run, a repair and an unrelated run,
  or for three packs that meet. Sizes tell areas apart (`SizesTellApart`):
  archives that they do not are accepted by design (`pack_discovery.cpp` calls the
  size a "cheap integrity signal"), so equal sizes would only show that. The run that
  gives an existing archive its sidecars names an identity of its own; claiming another
  pack's is an error of the user that discovery answers by refusing one of the two. World overviews have two levels of their five.
* `app`: a world of 32 units and three zooms, one finger offset beyond the threshold
  in one axis, one in both and one that crosses the pole, a sweep of one screen per
  zoom and a scenario per kind of region. Cards: none, overview and region, a deep
  pack beside an overview, a region too small for the screen, one too shallow, one
  across the antimeridian.
* `frame`: `MaxFrames` = 2 frames one after another; what a frame inherits is
  `consumed` and the totals. Screens see a tile once, at two columns, and with others.
* `CHECK_DEADLOCK FALSE` is set where the system may stop: the terminated program,
  inputs that are looked at once, a catalogue with nothing left to add, a card after
  `MaxRuns` runs, a device that could not boot or has done its plan, the last frame.

### Fairness

The code is sequential and never waits, so the steps of a call that has been entered
are weakly fair: in `PmTilesReader`, `Inflate` and `MvtStream`, and in `MapDemo` the
frames of a measurement. In `MvtStream` the fair steps leave out `Abort`: a tile has
to end without any failure coming to its help. Asking, opening, touching, booting
and failing are never fair, and `PackCard` and `MeasuredFrame` state no fairness: a
user may stop at any time.

## 4. Proofs

Every theorem is about every value of the constants that the named assumptions of
its module allow; TLC evaluates the assumptions on the runs' constants. The
invariants named here were checked by TLC on the runs' instances before they were
proved.

### The reader (`PmTilesReaderProofs`)

For every archive, number of tile ids, hop limit and for one or two slots:

* `TypeCorrect`: `Spec => []TypeOK`
* `CacheNeverLies`: `Spec => []LeafCacheCoherent`
* `NoLeafCachedTwice`: `Spec => []NoLeafHeldTwice`
* `OpenReaderHasRoot`: `Spec => []OpenHasRoot`
* `LookupsStayOnTrack`: `Spec => []CallOnTrack`
* `ReaderIsAnIndex`: `Spec => ImplementsIndex`

They rest on the ranges of the constants, `ArchiveSound` (each directory accounts
for every id that reaches it at each hop, and a chain longer than the limit stores
nothing) and `DistinctConstants`. The inductive invariant is the conjunction of the
type invariant, cache coherence, `OpenHasRoot` and `CallOnTrack`. None of the last
three is inductive alone: that a lookup stays on track when it hits needs the slot to
hold the leaf its key names; that it starts on track needs an open reader to have the
whole root. One lemma per action shows that the invariant is kept, and one per kind of
step that it maps to a step of `TileIndex` or to a stutter: hops stutter, `Locate` is
`Ask` or `AskClosed`, everything that returns is `Answer`.

### The inflating stream (`PartProofs`)

* `StreamImplemented`: `InflateAssumption => (Spec => ImplementsStream)`, for any
  payloads, ring, pieces and sizes of reads, and an inflater that writes garbage
  wherever `InflateAssumption` does not promise better
* `LibraryStreams` (in `LibraryProofs`): the same of the library's runs

The invariant follows the bytes: those passed and those available are together what
was produced (`PassedFromTheStart`), the available run lies in the ring as it was
decoded, also where it wraps (`RunInTheRing`), and the ring still holds what decoding
goes back to (`DictionaryIntact`). Without the last one the next call of the inflater
could write garbage, which is why `RunInTheRing` is not inductive by itself.

### The tile stream (`MvtStreamProofs`)

For every payload, any limits, and wherever reads fail or allocations throw:

* `StreamTyped`: `Spec => []TypeOK`
* `TablesMatch`: `Spec => []OwnLayerTables`
* `TrimmedOnExit`: `Spec => []RetainedGeometryBounded`
* `SinkGetsAPrefix`: `Spec => []SinkSeesAPrefix`
* `AcceptedHasAll`: `Spec => []AcceptedUpToTheEnd`

They rest on `StreamAssumption` and `PayloadAssumption` (the shapes of tokens; what
stands inside a layer is no layer). That a feature meets its own tables says nothing
of a tile under way. The invariant says that the layers listed are exactly those that
start up to where pass 1 is or was when it stopped (`Listed`), that a wanted layer
that was left has all its tables (`Whole`, a cardinality that grows by one at each
table), and that of the layers listed just `layer_index` start before pass 2's
position (`Passed`). From these three follows `SameLayer`: the next layer pass 2 finds
is the one at that index, also when the passes end at different places. For the sink,
`Sink` adds that what it has got is exactly the wanted features before pass 2's
position, each at its rank, which is a fact about sorting a growing finite set; the
lemmas on ranks in `CommonLemmas` carry it. The trim is proved from the sum of no
capacities alone (`NoCaps`).

### The card (`PackCardProofs`)

For every set of requests, any directories and any number of runs, each of which may
fail or be killed at any step:

* `CardTyped`: `Spec => []TypeOK`
* `BootedWhole`: `Spec => []BootedPacksAreWhole`
* `SuccessIsFound`: `PlainNames` implies `Spec => []SuccessIsOffered`
* `UnforcedKeeps`: `PlainNames` implies `Spec => UnforcedInPlaceKeepsOffered`

They rest on the named assumptions of `PackCard`, of which two have content.
`SizesTellApart` is what `DiscoverPacks` itself relies on, since it compares sizes and
never hashes. `IdentityAssumption` says that the identity a user gives an archive
finalized after the fact belongs to its file name: two such runs that claim one
identity for different archives are refused by discovery, not by the builder.
`PlainNames`, that names have no period, is needed: the run `card_dotted` violates
`SuccessIsOffered` without it.

The invariant of the first two says that every manifest anywhere tells of some archive
that was made (`Honest` in `Filed`), that archives come before the manifests taken of
them (`ArchivesFirst`), and that a device is off while a builder runs. That the archive
beside a manifest need not be the one it tells of is why honesty alone is not enough:
the size check closes the gap (`SizeTells`). The other two need `JInv` as well: every
manifest anywhere is recorded under the name that some request gave it (`Recorded`),
the outputs before the one under way are whole and told of (`Building`), and without
`--force` no manifest stands where the run will write one (`Fresh`). `Recorded` is what
makes discovery's refusal of duplicates harmless: two packs of one identity are one
pack (`SameIdentity`), so everything fine on its own is offered (`OfferedAreFine`).

### The frame (`MeasuredFrameProofs`)

For every archive, set of screens, pipeline and number of frames:

* `AccountsBalance`: `Spec => []EveryTileAccountedOnce`
* `PassesAreHonest`: `Spec => []HonestPass`

They rest on `FrameAssumption` alone. That a finished frame's counts add up to its
visible tiles says nothing of a frame under way, so the invariant has to say how many
of its tiles are accounted for at each phase (`Balance`): those before `at`, and the
one at `at` as well once it was found, which is the count `OutOfMemory` must take
back. `Shape` adds the types this needs; that `visible` is the number of groups is
`Grouped`'s, whose length is the cardinality of a finite set. `Honest` relates what was
sent, drawn and counted tile by tile: what the counts say of the tiles before `at` was
drawn at every column of theirs.

### The catalogue (`LibraryProofs`)

For any manifests and any order of insertion, boxes across the antimeridian included,
under `CatalogAssumption` and `ManifestAssumption` (priorities and identities are
ordered):

* `ResolvesToCover`, `OrderIsImmaterial`: the pack resolved covers the request, none
  better is installed, and no reordering of the catalogue changes it
* `SamePacksSameAnswer`: the lemma below the last, for any two sequences of one set of
  packs
* `LibraryResolvesToCover`, `LibraryOrderIsImmaterial`: the same of the library's runs

The scan is a fold. That it visits the packs one by one is proved by induction over
the catalogue's length; the rest follows from one step of it: the order in which packs
are preferred is total and transitive.

### The directories (`LibraryProofs`)

For columns of any length, with run lengths that fit their 32 bits:

* `SearchesFindTheClaimant`: the walk over a serialized directory answers every id as
  the search of the parsed one does, and in a well-formed directory that is the one
  entry that claims the id, or absence when none does
* `LibrarySearchesAgree`, `LibraryFindsTheClaimant`: the same of the library's runs

The ids, the offsets and both walks are recursive functions, and each has its induction:
ids never descend (`IdsAccumulate`), so the walk of column 1 holds the last entry that is
not after the id (`WalkChoosesTheLast`), which is where the search by halves stops, and
the walk of column 4 has by then the offset that parsing gives this entry
(`WalkFindsTheOffset`). A run length beyond 32 bits is where the two would part: the walk
compares before it is cut and the parsed entry after, hence `DirectoryAssumption`.

### The decoders (`PartProofs`)

For words, fields, layers and tiles of any number:

* `GeometryIsOneDecoding`: whatever rings an earlier feature left and however its
  geometry is split into fields, packed or not, a feature's geometry is the decoding of
  all its words in order, and refused when a run was cut. The proviso, that no unpacked
  word follows a packed run, is the code's: `ParseFeatureFields` leaves a first packed
  run where it is, to be decoded in place, and only a second run joins it to what was
  collected (`mvt_decoder.cpp:410-437`)
* `DecodersAgreeOnEveryTile`: for tiles with any tags and any filter, decoding a tile
  whole and handing it over feature by feature agree on whether it is sound and, when it
  is, on its features. When it is not, the caller of the first has the layers before the
  one at fault, which `DecodeMvtTile` drops unfinished (`mvt_decoder.cpp:713-725`), and
  the sink has these and the features before the first bad one. Each feature of a sound
  tile is what the streaming path makes of it over any earlier one
* `LibraryGeometryIsOneDecoding`, `LibraryDecodersAgree` (in `LibraryProofs`): the same
  of the library's runs

The decoders are folds. Two decodings over different old rings are followed side by
side: what has been opened is the same in both, and what lies beyond is not looked at
(`SameWord`, `StaleRingsDoNotShow`). Between fields the invariant is that the cursor is
what decoding the words so far would have left (`OneMoreField`). For a tile the same is
said of layers and of features: within a layer both paths emit the same
(`LayerIsTheSame`), so that a layer leaves them agreed, and a faulty one is the last that
adds anything (`LayerAgrees`, `TilesAgree`); and what was emitted stays (`LayerHolds`,
`TileHolds`).

### Manifests (`LibraryProofs`)

* `CutManifestsAreRefused`: for any tokens, fields and depth, a manifest that is taken
  is refused when it is cut anywhere, between two tokens or inside one
* `LibraryCutManifestsAreRefused`: the same of the library's runs

The parser's state is always between two values, of a container or of none
(`StepKeeps`); the cut text runs as the whole one does up to the cut
(`PrefixesRunAlike`); a refusal is for good (`RunsRefuseForGood`). So a cut text that
parsed would have ended its one value before the cut, and the whole text would have
been refused there, for what follows the value.

### Drawings (`LibraryProofs`)

* `TilesAreTheirFeatures`: a tile drawn whole, over one kept map of coordinates, is its
  features drawn one by one, of whatever shapes, extents, kinds and style
* `LibraryTilesAreTheirFeatures`: the same of the library's runs

The kept map is the one of the last extent, and is replaced when the next feature's
differs; the invariant of the fold over the features is that it is the map its extent
gives, and that the calls so far are those of the features so far.

### Strokes (`PartProofs`)

For lines, widths and screens of any size:

* `CentrelineArrives`: the walk of a line reaches its other end, after as many steps as
  the longer axis counts at the most
* `StrokesPaintTheBrush`: a rectangle per run paints what a brush per pixel paints, and
  where a line is straight the clipping loses no pixel of the screen
* `LibraryRunsPaintTheBrush` (in `LibraryProofs`): the same of the library's runs

After each of its steps the walk has moved along the longer axis by one and is within
half a pixel of the line, and `err` tells by how much it is off
(`WalkKeepsToTheLine`); at the last step less than half is none (`LessThanHalf`), so it
has arrived. The runs cover what the brushes so far cover (`RunsCover`), because a run
grows along one axis only (`ExtendedRun`). The clip's parameters of a straight line
stand for points of it, and the part kept is exactly its points in the widened rectangle
(`EdgeCuts`, `ClippedStraight`); outside of that no brush meets the screen
(`BrushMisses`). Of a slanted line the clipped part is walked anew from its rounded
ends, and its pixels need not be those of the whole line: only the first half of the
property is claimed there.

### Tile ids (`PartProofs`)

* `EveryLevelIsACurve`: at every level whose sides divide the word, the ids of its tiles
  are exactly those between the levels around it, no two tiles share one, and
  consecutive ids are neighbours
* `LibraryLevelsAreCurves` (in `LibraryProofs`): the same of the library's runs

That sides divide the word is what makes mirroring below zero harmless: the wrapped
coordinate has the right remainder, and no later round looks at more. A round of the
loop makes, of four curves over a square, one over the square twice as wide. The
invariant of the rounds (`CurveSoFar`) says that the index depends on the remainders of
the coordinates alone (`Periodic`), numbers the square without gaps or repetition
(`Numbers`), and goes from neighbour to neighbour, from one corner to the next along the
bottom (`Winds`), which is what lets the four quarters meet after their rotation
(`QuartersMeet`).

### Cameras, the picker and the demos (`MapDemoProofs`)

For any world and camera (`ViewAssumption`), without further assumptions:

* `FilledOrFitted`, `PointsStay`, `TilesPaintTheScreen`: the properties
  `FillLeavesNoMargin`, `AnchorStays` and `PlacementsPaintTheScreen` of every camera,
  not only of those the run enumerates

They rest on the world as a circle (`TurnsDoNotCount`, `QuotientAndRest`), on what
`floor` and `ceil - 1` mean for a column (`FloorAt`, `CeilAt`) and on a tile being a whole
part of the circle (`Grid`, `TileAround`); two copies of a tile are a world apart, which
is why the nearest copy is the placed one only where two tiles stay off screen.
`LibraryFillLeavesNoMargin`, `LibraryAnchorStays`, `LibraryPlacementsPaintTheScreen` and,
of the picker, `LibrarySelectionsAreDeliberate` (in `LibraryProofs`) take them to the
library's runs, whose world they show to be 16 units around.

For any screens, coverages, zooms and drags (`PickerAssumption`: screens are viewports
and drags whole pixels), and a mean of two latitudes between the poles
(`MeanAssumption`):

* `SelectionsAreDeliberate`: `PickerSpec => []SelectionIsDeliberate`

The invariant says that the floor of the picker's range is the first zoom of the data
that fills the screen, whatever the camera has become since (`FirstFill`, which depends
on the size of the screen alone), that the camera keeps to that range, and that a picker
not moved is where `Reset` would put it.

For any packs, screens, drags, scenarios and measurements that `DemoAssumption` and
`MeanAssumption` allow:

* `PanelIsTheCamera`: `Spec => []PanelShowsTheCamera`
* `MapStaysUnderTheFinger`: `Spec => NothingJumps`
* `FloorWhereItFills`: `Spec => []FloorIsTight`
* `FramesAreTruthful`: `Spec => []FramesTellCoverage`, whose clause on coverage is about
  the Tab5

The invariant `IInv` is `Typed`, `Phased` (nothing is touched while something is
measured, and a measurement ends with a frame of the camera), `Dragged` (what the panel
is displaced by is what the finger travelled) and `Shown`. `Floored` adds what the floor
was computed from and `Told` what the last frame was drawn from. Under them lie the
search for the first zoom that fills, and for `FramesAreTruthful` the cut of a screen at
the antimeridian: a box covers each part exactly when it covers every point of it. The
proof failed at first for one box, which section 5 lists.

### How folds and recursive functions are proved about

`CommonLemmas` has an induction over 0..n in which a set stands for the predicate
(`UpTo`), from the well-foundedness of inclusion among finite sets; from it follow
`RecursionExists` (a function defined by what it is at the number before exists),
`FoldExists` and `FoldStays` (what a fold computes, step by step, and what it never
leaves) and `FoldRuns`: a fold over the positions of a sequence is a recursion along
them, so that its invariant is proved by `UpTo` like any other. The loops of `MapView`,
`TileDirectory`, `Stroke` and `TileId` are recursive functions for this reason, and those
over sequences folds of the community modules.

### What the proofs corrected

Where a proof failed, the model or the property was wrong, and was changed:

* two arms of a `CASE` in `PackJson` and in `Renderer` overlapped, so that the prover,
  rightly, did not know which was meant;
* a manifest cut where a value too deep would begin is refused as too deep and not as
  malformed, since the parser counts before it looks (`pack_json.cpp:61-66`);
  `CutManifestIsRefused` says so now, and the run has nests as deep as allowed;
* `RasterizeCenteredStroke` draws nothing on an empty screen (`stroke.hpp:42`), a guard
  `Stroke` had left to the clipping;
* that a level's ids lie without gaps said nothing of two tiles sharing one:
  `LevelIsACurve` now names both ends and says that no two do;
* a box that ends exactly at the antimeridian, which section 5 lists.

### Model-checked only

Liveness and whatever else needs `ENABLED` (`CallsReturn` of the reader and of the
stream, `TilesEnd`, `MeasurementsEnd`). Every invariant and action property of the
passing runs is proved.

## 5. Findings

* `TileExists` says no both for an absent tile and for one whose leaf could not
  be read, while `pmtiles.hpp` recommends it to tell the two apart. The benchmark
  counts such a tile as missing coverage and passes.
* `AtEnd()` takes a failed `Fill()` for the end; a truncated tile is accepted if
  both passes stop at one boundary.
* The trim of the byte buffer copies what it should drop, so it can stay above its
  limit. It also allocates in a destructor: when that throws, the program ends
  (the state `terminated` of `MvtStream`; no document speaks of it).
* `provision_pack.py` checks for an existing pack where it builds, not where it
  stages.
* `write_sidecars` and `provision_pack.py` disagree on the stem of a name with a
  period. The manifest can also land on another pack's.
* The Tab5 frames the widest pack at the zoom that fills the screen, also when the
  pack does not store that zoom.

Smaller things the models make visible and that no run is about. The overlap test of
the demos and `WidestSource` do not split boxes at the antimeridian (provisos of
`FramesTellCoverage` and `MeasurementsEnd`), although the comments there say that a pack
with some of the view's data is rendered and said to be partial
(`examples/m5stack-tab5/main/main.cpp:336-352`). And, with nothing in the repository that
says otherwise: an unpacked geometry word after a single packed run is dropped without an
error (proviso of `GeometryIsTheConcatenation`); which of two manifests of one identity is
dropped hangs on the sort of `pack_discovery.cpp:63`, which no property here would miss; an archive that does not open still shadows, through its
manifest, a readable pack of the same place; a pack that ends exactly at the antimeridian is not found by a
screen that begins there (proviso of `FramesTellCoverage`); the LilyGO reports PASS whatever it
could not decode.

## 6. Plan

Done: every component of section 1 with state of its own, and the proofs of section 4.
Left: a card on which a pack appears at once or not at all, as the abstract
specification the unforced in-place builder implements; and, of strokes, how far the
clipped part of a slanted line may stray from the whole one.

## 7. Not modelled

The experimental classifier and the palettes of the styles are tables, and a model
of a table repeats it. Filling polygons is the render target's. Miniz appears as an
external definition. The scratch's buffers of geometry commands and of tags, which keep what the
largest feature needed and are not trimmed either, are not modelled. The adapters' I/O appears as its outcomes: a read fails or not.
The host tools print what the modelled components compute, and the repository's own
checks look at the repository. Acquiring the sources of the world overview runs on a
PC before anything modelled does: an extraction killed midway leaves files that the
builder checks by presence only. The emission of JSON lines, the clocks and the
log are left out of the frames. Floating-point rounding is out of TLC's reach
throughout.
