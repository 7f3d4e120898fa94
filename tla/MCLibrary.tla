----------------------------- MODULE MCLibrary -----------------------------
(***************************************************************************)
(* The parts of the library that answer from their arguments alone, each   *)
(* on every small input (one initial state each), and its stateful parts   *)
(* that nothing else shares: the pack catalogue, the location picker and   *)
(* the inflating stream.                                                   *)
(***************************************************************************)
EXTENDS PackCatalog, TLC

CONSTANTS Word32, Word, MaxLevel, DefaultExtent, MaxDepth, MaxTokens, StringFields, NoInput

VARIABLES
  topic,   \* which part is looked at
  input,   \* what it is given
  picker, ready,  \* LocationPicker's
  payload, input_consumed, window_pos, avail_start, avail_len, finished, failed,
  window, made, passed, call   \* Inflate's

inflateVars == <<payload, input_consumed, window_pos, avail_start, avail_len, finished, failed,
                 window, made, passed, call>>
libraryVars == <<packs, topic, input, picker, ready, inflateVars>>

Directory == INSTANCE TileDirectory
Json == INSTANCE PackJson WITH PriorityRange <- -9..9

-----------------------------------------------------------------------------
(* Boxes on both sides of, across and up to the antimeridian, nested and   *)
(* overlapping; equal priorities and equal identities; an invalid manifest.*)

Box(w, e, s, n) == [min_lon |-> w, max_lon |-> e, min_lat |-> s, max_lat |-> n]
Pack(id, b, priority, low, high) ==
  [pack_id |-> id, bounds |-> b, priority |-> priority,
   min_zoom |-> low, max_zoom |-> high, sound |-> TRUE]

MCManifests ==
  {Pack(1, Box(-3, 3, -1, 1), 0, 0, 1),    \* the world
   Pack(2, Box(2, -2, -1, 1), 1, 0, 2),    \* across the antimeridian
   Pack(3, Box(2, -2, -1, 1), 1, 1, 2),    \* the same, a later identity
   Pack(4, Box(1, 3, 0, 1), 2, 1, 2),      \* up to it, from the west
   Pack(5, Box(-1, -2, -1, 0), 3, 1, 1),   \* nearly around the world
   Pack(2, Box(1, -2, -1, 1), 1, 0, 1),    \* an identity taken twice
   Pack(6, Box(0, 1, 1, 0), 3, 0, 2),      \* upside down
   [Pack(7, Box(0, 1, 0, 1), 3, 0, 2) EXCEPT !.sound = FALSE]}

MCRequests ==
  {Box(w, e, s, n) : w \in -3..3, e \in -3..3, s \in {-1, 0}, n \in {0, 1}}
  \cup {Box(0, 4, 0, 0), Box(0, 1, 1, 0)}

-----------------------------------------------------------------------------
(* A world of 2-pixel tiles down to zoom 2: 16 units around.               *)

Screen(x, y, z, w, h) == [x |-> x, y |-> y, zoom |-> z, width |-> w, height |-> h]
MCScreens == {Screen(0, 0, 0, 2, 1), Screen(0, 0, 0, 3, 2)}
MCCoverages ==
  {Box(-8, 8, -8, 8), Box(-4, 8, 0, 6), Box(2, 6, -2, 4), Box(6, -6, -2, 2)}
MCLimits == {[low |-> l[1], high |-> l[2]] : l \in {<<0, 0>>, <<0, 2>>, <<1, 1>>, <<1, 2>>, <<2, 1>>}}
\* Towards the equator of the middle of their rows, as the mean of two
\* latitudes is.
MCMeanLat(a, b) == LET m == (a + b) \div 2 IN IF m > 0 THEN m - 1 ELSE IF m < 0 THEN m + 1 ELSE m

View == INSTANCE Renderer WITH Tile <- 2, MaxZoom <- 2, MeanLat <- MCMeanLat

\* The camera and the location picker.  What is proved of them stands beside
\* the applications that use them, which are not run here.
Map == INSTANCE MapDemoProofs WITH
  Tile <- 2, MaxZoom <- 2, MeanLat <- MCMeanLat,
  Screens <- MCScreens, Coverages <- MCCoverages, Limits <- MCLimits, Gestures <- {-1, 0, 2},
  Catalogs <- {}, Boards <- {}, Width <- <<>>, Height <- <<>>, FitPadding <- <<>>, Threshold <- 0,
  Drags <- {}, SweepScreens <- 0, Scenarios <- <<>>,
  board <- "none", build <- "plain", phase <- "off", sources <- <<>>, floor <- 0, view <- "none",
  source <- "none", style <- "none", info <- FALSE, canvas <- "none", panel <- "none",
  touch <- "none", todo <- <<>>, saved <- "none"

Views == [x : 0..15, y : 0..16, zoom : 0..2, width : {1, 2, 3, 5}, height : {1, 3}]
Even == {2 * n : n \in -4..4}
Fills == [view : {Screen(0, 0, 0, w, h) : w \in {1, 3}, h \in {1, 2}},
          bounds : [min_lon : Even, max_lon : Even, min_lat : Even, max_lat : Even]]

-----------------------------------------------------------------------------
(* Payloads larger and smaller than the ring, with units that yield nothing*)
(* and units that yield more than the ring holds, whole, cut, corrupt or   *)
(* stuck; a header that outgrows the probe; an uncompressed one.           *)

Header(extra, name) ==
  [magic |-> TRUE, extra |-> extra, name |-> name, comment |-> -1, crc |-> FALSE]
Gzip(id, yields, end) ==
  [id |-> id, compression |-> "gzip", head |-> Header(-1, -1), yields |-> yields, end |-> end,
   isize |-> yields[Len(yields)], crc |-> TRUE]
MCPayloads ==
  {Gzip(1, <<1, 3, 6, 6>>, "done"), Gzip(2, <<0, 4, 4>>, "done"), Gzip(3, <<7>>, "done"),
   Gzip(4, <<2, 5>>, "cut"), Gzip(5, <<2, 6, 6>>, "corrupt"), Gzip(6, <<0, 2>>, "stuck"),
   [Gzip(7, <<2>>, "done") EXCEPT !.head = Header(1, 2)],
   [Gzip(8, <<2>>, "done") EXCEPT !.head = Header(1, 20)],
   [Gzip(9, <<1, 2, 3>>, "done") EXCEPT !.compression = "none"],
   [Gzip(10, <<2>>, "done") EXCEPT !.crc = FALSE]}

CONSTANTS NoPayload, NoCall, Garbage

Part == INSTANCE PartProofs WITH
  Payloads <- MCPayloads, Window <- 4, Chunk <- 2, Probe <- 20, MaxOutput <- 8,
  Counts <- {1, 3}, MaxVarint <- 2

-----------------------------------------------------------------------------
(* Geometries as words: two commands, their parameters or some of them.    *)

Move(n) == 8 * n + 1
Line(n) == 8 * n + 2
ClosePath == 15
Streams ==
  {<<>>, <<Move(1), 2, 4>>, <<Move(1), 2, 4, Line(2), 1, 2, 3>>,
   <<Move(1), 2, 4, Line(2), 1, 2, 3, 4, ClosePath>>, <<Move(2), 2, 4, 1, 3, Line(1), 2, 2>>,
   <<Line(1), 2, 2>>, <<ClosePath>>, <<Move(1), 2, 2, 23>>, <<Move(0)>>, <<Move(1), 2, 2, 3>>}
Slice(w, a, b) == SubSeq(w, a, b)
Splits(w) == {s \in (0..Len(w)) \X (0..Len(w)) : s[1] <= s[2]}
Fields(w, i, j, packed, cut) ==
  <<[packed |-> packed[1], words |-> Slice(w, 1, i), cut |-> cut[1]],
    [packed |-> packed[2], words |-> Slice(w, i + 1, j), cut |-> cut[2]],
    [packed |-> packed[3], words |-> Slice(w, j + 1, Len(w)), cut |-> cut[3]]>>
Stales == {<<>>, <<<<<<9, 9>>>>, <<<<9, 9>>, <<8, 8>>>>, <<>>>>}
NoCut == <<FALSE, FALSE, FALSE>>

\* An unpacked field is one word; a cut one is packed.
Geometries ==
  UNION {{Fields(w, s[1], s[2], p, c) :
            s \in Splits(w), p \in [1..3 -> BOOLEAN],
            c \in {NoCut, <<FALSE, TRUE, FALSE>>}} : w \in Streams}
GeometryInputs ==
  {[f |-> [geometry |-> g, type |-> t], stale |-> r] :
     g \in {h \in Geometries : \A i \in 1..3 : h[i].packed \/ (Len(h[i].words) = 1 /\ ~h[i].cut)},
     t \in {"point", "line"}, r \in Stales}

\* Layers that name themselves late or never, whose features come before the
\* tables they use, with a tag out of range or a feature that does not decode.
Field(kind, value) == [kind |-> kind, value |-> value]
Geom(words) == <<[packed |-> TRUE, words |-> words, cut |-> FALSE]>>
Feat(id, tags, words) ==
  [id |-> id, type |-> "line", tags |-> tags, sound |-> TRUE, geometry |-> Geom(words)]
LayerFields ==
  {Field("feature", Feat(1, <<0, 0>>, <<Move(1), 2, 4, Line(1), 2, 2>>)),
   Field("feature", Feat(2, <<>>, <<Move(1), 4, 4>>)),
   Field("feature", Feat(3, <<1, 0>>, <<Move(2), 4, 4, 1, 1>>)),
   Field("feature", Feat(4, <<0>>, <<>>)),
   Field("key", "class"), Field("value", "road"), Field("name", "a"), Field("name", "b"),
   Field("extent", 0), Field("bad", "")}
Plain == <<Field("name", "b"), Field("feature", Feat(5, <<>>, <<Move(1), 6, 6>>))>>
Tiles ==
  {<<[fields |-> f]>> : f \in [1..3 -> LayerFields]}
  \cup {<<[fields |-> <<Field("key", "class"), Field("value", "road")>> \o f], [fields |-> Plain]>> :
          f \in [1..3 -> LayerFields]}
TileInputs ==
  {[tile |-> t, include |-> i, stale |-> [Part!NoFeature EXCEPT !.geometry = <<<<<<9, 9>>>>, <<>>>>,
                                                               !.attributes = <<<<"x", "y">>>>]] :
     t \in Tiles, i \in {{}, {"a"}}}

-----------------------------------------------------------------------------
(* Lines in and around a 3 by 3 screen; small tiles to draw.               *)

LineEnds == (-3..4) \X (-2..3)
LineInputs == [line : {a \o b : a, b \in LineEnds}, tenths : {5, 16, 30}]

Style == [road |-> [visible |-> TRUE, min_zoom |-> 1, max_zoom |-> 2, color |-> "white", width |-> 1],
          label_primary |-> [visible |-> TRUE, min_zoom |-> 0, max_zoom |-> 2, color |-> "red", width |-> 1],
          background |-> [visible |-> TRUE, min_zoom |-> 0, max_zoom |-> 2, color |-> "black", width |-> 0]]
Drawable(type, kind, extent) ==
  [type |-> type, kind |-> kind, extent |-> extent, kind_assigned |-> TRUE,
   paths |-> <<<<<<0, 0>>, <<2, 3>>, <<4, 0>>>>, <<<<1, 1>>>>>>]
Drawables == {Drawable(t, k, e) : t \in {"point", "line", "polygon"}, k \in {"road", "label_primary"},
                                  e \in {0, 2, 4}}
             \cup {[Drawable("line", "road", 8) EXCEPT !.kind_assigned = FALSE]}
DrawInputs ==
  [features : [1..2 -> Drawables], view : {Screen(3, 5, z, 3, 3) : z \in 0..2},
   placement : {[x |-> 0, y |-> 0, z |-> z, column |-> 0] : z \in 1..2}]

-----------------------------------------------------------------------------
(* Manifests, whole and wrong in one field, as deep as one may be, and     *)
(* nests too deep.                                                         *)

ASSUME DocumentAssumption == MaxTokens \in Nat /\ MaxDepth \in Nat

MCStringFields == <<"pack_id">>
Str(v) == [t |-> "string", v |-> v]
Num(n) == [t |-> "number", v |-> 10 * n]
Chr(c) == [t |-> c, v |-> ""]
Member(key, tokens) == <<Str(key), Chr(":")>> \o tokens
Joined(parts) == Seqs!FoldLeft(LAMBDA acc, p : acc \o <<Chr(",")>> \o p, Head(parts), Tail(parts))
Obj(members) == <<Chr("{")>> \o Joined(members) \o <<Chr("}")>>
Arr(items) == IF items = <<>> THEN <<Chr("["), Chr("]")>>
              ELSE <<Chr("[")>> \o Joined(items) \o <<Chr("]")>>
BoundsDoc == Obj(<<Member("min_lon", <<Num(1)>>), Member("min_lat", <<Num(0)>>),
                   Member("max_lon", <<Num(2)>>), Member("max_lat", <<[t |-> "number", v |-> 15]>>)>>)
SourceDoc == Obj(<<Member("provenance_id", <<Str("osm")>>)>>)
Whole == <<Member("pack_id", <<Str("a")>>), Member("bounds", BoundsDoc),
           Member("min_zoom", <<Num(0)>>), Member("max_zoom", <<Num(3)>>),
           Member("priority", <<Num(-2)>>), Member("sources", Arr(<<SourceDoc>>)),
           Member("required_attribution", Arr(<<<<Str("c")>>>>)),
           Member("other", Arr(<<<<Chr("{"), Chr("}")>>, <<[t |-> "literal", v |-> "true"]>>>>))>>
Others == {<<Num(7)>>, <<Str("x")>>, <<[t |-> "number", v |-> 5]>>, Arr(<<>>), Arr(<<Arr(<<>>)>>),
           Arr(<<<<Num(1)>>>>), Arr(<<Arr(<<Arr(<<>>)>>)>>)}
Nest(n) == [i \in 1..n |-> Chr("[")] \o [i \in 1..n |-> Chr("]")]
Documents ==
  {Obj(Whole), Obj(Whole \o Whole), Nest(MaxDepth + 1), Nest(MaxDepth + 2), <<Num(1)>>, Obj(Whole) \o <<Chr("}")>>}
  \cup {Obj([Whole EXCEPT ![i] = Member(@[1].v, o)]) : i \in 1..8, o \in Others}
  \cup {Obj(Seqs!RemoveAt(Whole, i)) : i \in 1..8}

-----------------------------------------------------------------------------
\* A word holds the coordinates of every level.
ASSUME LevelAssumption ==
  /\ MaxLevel \in Nat /\ Word \in Nat \ {0}
  /\ \A k \in 0..MaxLevel : Word % Part!Side[k] = 0

ASSUME InflaterAssumption == Part!InflateAssumption

\* Whole and piece by piece are the same while the header fits the probe.
ASSUME StreamingAssumption ==
  \A p \in MCPayloads :
    Part!ProbeHeader(p) => Part!DecompressStreaming(p) = Part!DecompressPayload(p)

-----------------------------------------------------------------------------
CONSTANTS MaxEntries, MaxTileId, Deltas, RunLengths, Lengths, Offsets

\* Run lengths stay below Word32, as every directory a pack builder writes
\* does (a run of 2^32 tiles is a whole zoom level 16); lengths may exceed it.
ASSUME DirectoryAssumption ==
  /\ MaxEntries \in Nat /\ MaxTileId \in Nat /\ Word32 \in Nat \ {0}
  /\ RunLengths \subseteq 0..Word32 - 1
  /\ Deltas \subseteq Nat /\ Lengths \subseteq Nat /\ Offsets \subseteq Nat

Directories == UNION {Directory!Columns(Deltas, RunLengths, Lengths, Offsets, n) : n \in 0..MaxEntries}

LibraryInit ==
  /\ Init /\ Map!PickerInit /\ Part!Init
  /\ \/ topic \in {"catalog", "picker", "inflate"} /\ input = NoInput
     \/ topic = "directory" /\ input \in Directories
     \/ topic = "level" /\ input \in 0..MaxLevel
     \/ topic = "view" /\ input \in Views
     \/ topic = "fill" /\ input \in Fills
     \/ topic = "geometry" /\ input \in GeometryInputs
     \/ topic = "tile" /\ input \in TileInputs
     \/ topic = "line" /\ input \in LineInputs
     \/ topic = "drawing" /\ input \in DrawInputs
     \/ topic = "manifest" /\ input \in Documents

LibraryNext ==
  \/ topic = "catalog" /\ Next /\ UNCHANGED <<topic, input, picker, ready, inflateVars>>
  \/ topic = "picker" /\ Map!PickerNext /\ UNCHANGED <<topic, input, packs, inflateVars>>
  \/ topic = "inflate" /\ Part!Next /\ UNCHANGED <<topic, input, packs, picker, ready>>

LibrarySpec == LibraryInit /\ [][LibraryNext]_libraryVars /\ WF_inflateVars(Part!Step)

-----------------------------------------------------------------------------
\* See PackCatalog.
ResolvedCovers == topic = "catalog" => ResolvedPackCoversRequest
ResolvedWhateverTheOrder == topic = "catalog" => OrderDoesNotMatter

\* See LocationPicker.
SelectionIsDeliberate == topic = "picker" => Map!SelectionIsDeliberate

\* See Inflate.
ImplementsStream == Part!ImplementsStream
CallsReturn == Part!CallsReturn

\* See TileDirectory.
SearchesAgree ==
  topic = "directory" => \A id \in 0..MaxTileId : Directory!SearchesAgree(input, id)
FindsTheClaimant ==
  topic = "directory" => \A id \in 0..MaxTileId : Directory!FindsTheClaimant(input, id)

\* See TileId, MapView, MvtDecoder, Stroke, Renderer and PackJson.
LevelsAreCurves == topic = "level" => Part!LevelIsACurve(input)
PlacementsPaintTheScreen == topic = "view" => Map!PlacementsPaintTheScreen(input)
FillLeavesNoMargin == topic = "fill" => Map!FillLeavesNoMargin(input.view, input.bounds)
AnchorStays ==
  topic = "view" => \A sx \in 0..input.width, sy \in 0..input.height, delta \in {-1, 1} :
                      Map!AnchorStays(input, sx, sy, delta)
GeometryIsTheConcatenation ==
  topic = "geometry" => Part!GeometryIsTheConcatenation(input.f, input.stale)
DecodersAgree == topic = "tile" => Part!DecodersAgree(input.tile, input.include, input.stale)
RunsPaintTheBrush == topic = "line" => Part!RunsPaintTheBrush(input.line, input.tenths, 3, 3)
TileIsItsFeatures ==
  topic = "drawing" => View!TileIsItsFeatures(input.features, input.placement, input.view, Style, 4)
CutManifestIsRefused == topic = "manifest" => Json!CutManifestIsRefused(input)
=============================================================================
