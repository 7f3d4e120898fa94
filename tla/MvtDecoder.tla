----------------------------- MODULE MvtDecoder -----------------------------
(***************************************************************************)
(* The whole-tile decoder (src/src/tiles/mvt_decoder.cpp), its translation *)
(* to features (mvt_translate.cpp) and the feature decoder the streaming   *)
(* path calls.  All three reuse the buffers of the feature before.         *)
(*                                                                         *)
(* A message is the sequence of its fields, a varint a natural number.  A  *)
(* geometry field is [packed, words, cut]: `cut` says that the packed bytes*)
(* end inside a varint.  A name, key or value is whatever the caller uses. *)
(***************************************************************************)
EXTENDS Integers, Sequences

Seqs == INSTANCE SequencesExt

CONSTANT DefaultExtent   \* 4096

ZigZagDecode(n) == IF n % 2 = 0 THEN n \div 2 ELSE -((n + 1) \div 2)

-----------------------------------------------------------------------------
(* Geometry commands.  `rings` are the buffers of an earlier feature and   *)
(* `used` those this geometry has opened.                                  *)

\* Mutant: a reused ring keeps the points it had.
OpenRingAsItIs(g) ==
  [g EXCEPT !.used = @ + 1, !.rings = IF g.used < Len(@) THEN @ ELSE Append(@, <<>>)]

OpenRing(g) ==
  [g EXCEPT !.used = @ + 1,
            !.rings = IF g.used < Len(@) THEN [@ EXCEPT ![g.used + 1] = <<>>]
                      ELSE Append(@, <<>>)]

PushPoint(g) == [g EXCEPT !.rings[g.used] = Append(@, <<g.cx, g.cy>>)]

\* 1 is MoveTo, 2 LineTo, 7 ClosePath; the points of a multipoint share one
\* ring, opened by the first MoveTo even when it moves nowhere.
Command(g, type, word) ==
  LET id == word % 8
      count == word \div 8
      taken == [g EXCEPT !.id = id, !.left = 2 * count]
  IN  CASE id = 1 -> IF type = "point" /\ g.used = 0 THEN OpenRing(taken) ELSE taken
        [] id = 2 /\ g.used > 0 -> taken
        [] id = 7 /\ g.used > 0 /\ count = 1 -> g
        [] OTHER -> [g EXCEPT !.ok = FALSE]

\* A parameter: x, then y, then the point is there.
Parameter(g, type, word) ==
  LET d == ZigZagDecode(word)
      y == [g EXCEPT !.left = @ - 1, !.cy = @ + d]
  IN  IF g.left % 2 = 0 THEN [g EXCEPT !.left = @ - 1, !.cx = @ + d]
      ELSE PushPoint(IF g.id = 1 /\ type # "point" THEN OpenRing(y) ELSE y)

Failed == [ok |-> FALSE]

\* The commands may not end before the parameters they announce.
Decoded(end) ==
  IF end.ok /\ end.left = 0
  THEN [ok |-> TRUE, rings |-> SubSeq(end.rings, 1, end.used)] ELSE Failed

DecodeGeometryInto(words, type, stale) ==
  LET start == [rings |-> stale, used |-> 0, cx |-> 0, cy |-> 0,
                id |-> 0, left |-> 0, ok |-> TRUE]
  IN  Decoded(Seqs!FoldLeft(LAMBDA g, w : IF ~g.ok THEN g
                                     ELSE IF g.left = 0 THEN Command(g, type, w)
                                     ELSE Parameter(g, type, w), start, words))

DecodeGeometryFromPacked(run, type, stale) ==
  IF run.cut THEN Failed ELSE DecodeGeometryInto(run.words, type, stale)

NoRun == [words |-> <<>>, cut |-> FALSE, packed |-> FALSE]

\* A first packed run is only remembered, to be decoded in place.  A second
\* one expands it; an unpacked word is collected beside it.
GeometryField(p, field) ==
  IF field.packed /\ ~p.run.packed /\ p.words = <<>> THEN [p EXCEPT !.run = field]
  ELSE IF field.packed
       THEN [run |-> NoRun, words |-> p.words \o p.run.words \o field.words,
             ok |-> p.ok /\ ~p.run.cut /\ ~field.cut]
  ELSE [p EXCEPT !.words = @ \o field.words]

\* A run that is still remembered at the end is the geometry; words collected
\* beside it are not.
Remembered(p, type, stale) ==
  IF ~p.ok THEN Failed
  ELSE IF p.run.packed THEN DecodeGeometryFromPacked(p.run, type, stale)
  ELSE DecodeGeometryInto(p.words, type, stale)

FeatureGeometry(f, stale) ==
  Remembered(Seqs!FoldLeft(GeometryField, [run |-> NoRun, words |-> <<>>, ok |-> TRUE], f.geometry),
             f.type, stale)

-----------------------------------------------------------------------------
(* Features and layers.  A feature out of a decoder is [id, type, geometry,*)
(* attributes], one that is drawn also has its layer's name and extent.    *)

Attributes(f, keys, values) ==
  IF Len(f.tags) % 2 # 0 THEN Failed
  ELSE LET pairs == [i \in 1..Len(f.tags) \div 2 |-> <<f.tags[2 * i - 1], f.tags[2 * i]>>]
       IN  IF \E i \in DOMAIN pairs : pairs[i][1] >= Len(keys) \/ pairs[i][2] >= Len(values)
           THEN Failed
           ELSE [ok |-> TRUE,
                 list |-> [i \in DOMAIN pairs |-> <<keys[pairs[i][1] + 1], values[pairs[i][2] + 1]>>]]

\* Appends to the attributes of `out`: whoever reuses a feature clears it.
WithParts(f, a, g, out) ==
  IF f.sound /\ a.ok /\ g.ok
  THEN [ok |-> TRUE,
        feature |-> [id |-> f.id, type |-> f.type, geometry |-> g.rings,
                     attributes |-> out.attributes \o a.list]]
  ELSE Failed

DecodeFeature(f, keys, values, out) ==
  WithParts(f, Attributes(f, keys, values), FeatureGeometry(f, out.geometry), out)

NoFeature == [id |-> 0, type |-> "unknown", geometry |-> <<>>, attributes |-> <<>>]

ExtentOf(layer) == IF layer.extent = 0 THEN DefaultExtent ELSE layer.extent

CopyFeatureInto(layer, in) ==
  [id |-> in.id, type |-> in.type, geometry |-> in.geometry, attributes |-> in.attributes,
   layer |-> layer.name, extent |-> ExtentOf(layer)]

\* The streaming path's: clears the attributes itself, decodes over the rings.
DecodeFeatureAsFeature(f, keys, values, layer, out) ==
  LET d == DecodeFeature(f, keys, values, [out EXCEPT !.attributes = <<>>])
  IN  IF d.ok THEN [ok |-> TRUE, feature |-> CopyFeatureInto(layer, d.feature)] ELSE Failed

\* Mutant: the attributes of the feature before are kept.
ClearGeometry(feature) == [NoFeature EXCEPT !.attributes = feature.attributes]
ClearFeature(feature) == NoFeature

OfKind(layer, k) ==
  Seqs!FoldLeft(LAMBDA acc, f : IF f.kind = k THEN Append(acc, f.value) ELSE acc,
                <<>>, layer.fields)

\* The layer's own fields, its last name and extent; features wait for all keys
\* and values.  A value that does not decode or a field of the wrong type is
\* [kind |-> "bad"].
LayerHeader(layer) ==
  LET names == OfKind(layer, "name")
      extents == OfKind(layer, "extent")
  IN  IF names = <<>> \/ OfKind(layer, "bad") # <<>> THEN Failed
      ELSE [ok |-> TRUE, name |-> Seqs!Last(names),
            extent |-> IF extents = <<>> THEN DefaultExtent ELSE Seqs!Last(extents)]

\* One feature more, through the one reused feature when there is a sink.
NextFeature(acc, f, layer, h, sink) ==
  LET d == DecodeFeature(f, OfKind(layer, "key"), OfKind(layer, "value"),
                         IF sink THEN ClearFeature(acc.scratch) ELSE NoFeature)
  IN  IF ~acc.ok THEN acc
      ELSE IF ~d.ok THEN [acc EXCEPT !.ok = FALSE]
      ELSE [ok |-> TRUE, scratch |-> d.feature,
            out |-> Append(acc.out, CopyFeatureInto(h, d.feature))]

\* Every feature that decodes up to the first that does not: what the sink was
\* handed, or else what is in the caller's layer.
DecodeLayer(layer, sink) ==
  LET h == LayerHeader(layer)
  IN  IF ~h.ok THEN [ok |-> FALSE, out |-> <<>>]
      ELSE Seqs!FoldLeft(LAMBDA acc, f : NextFeature(acc, f, layer, h, sink),
                         [ok |-> TRUE, scratch |-> NoFeature, out |-> <<>>], OfKind(layer, "feature"))

\* Only the framing and the name of an excluded layer are looked at.
InspectLayerName(layer) ==
  LET names == OfKind(layer, "name")
  IN  IF names = <<>> THEN Failed ELSE [ok |-> TRUE, name |-> Seqs!Last(names)]

\* One layer more, unless the filter leaves it out.  What the sink has it keeps;
\* without one a layer that fails is a local that never gets into the tile, and
\* the features in it go too (mvt_decoder.cpp:713-725).
NextLayer(acc, layer, include, sink) ==
  LET named == InspectLayerName(layer)
      d == DecodeLayer(layer, sink)
  IN  IF ~acc.ok \/ (include # {} /\ ~named.ok) THEN [acc EXCEPT !.ok = FALSE]
      ELSE IF include # {} /\ named.name \notin include THEN acc
      ELSE [ok |-> d.ok, out |-> IF d.ok \/ sink THEN acc.out \o d.out ELSE acc.out]

\* `include` is {} when the caller gives no filter.  With a sink `out` is what
\* it was handed, otherwise TranslateMvtToFeatureTile of the decoded tile.
DecodeMvtTile(tile, include, sink) ==
  Seqs!FoldLeft(LAMBDA acc, layer : NextLayer(acc, layer, include, sink),
                [ok |-> TRUE, out |-> <<>>], tile)

-----------------------------------------------------------------------------
\* Whatever rings an earlier feature left and however the geometry is split
\* into fields, it is the decoding of all its words in order: "a single parser
\* is what stops the streaming path and the buffered path drifting apart"
\* (mvt_decoder.cpp:181).  Not so when an unpacked word follows a packed run.
GeometryIsTheConcatenation(f, stale) ==
  LET fields == f.geometry
      words == Seqs!FlattenSeq([i \in DOMAIN fields |-> fields[i].words])
  IN  (\A i, j \in DOMAIN fields : i < j /\ fields[i].packed => fields[j].packed)
      => FeatureGeometry(f, stale) =
           IF \E i \in DOMAIN fields : fields[i].cut THEN Failed
           ELSE DecodeGeometryInto(words, f.type, <<>>)

\* A tile decoded whole and one handed over feature by feature agree on whether
\* the tile is sound, and on every feature when it is; when it is not, the sink
\* has further only what precedes the first bad feature of the layer at fault.
\* Each feature is what the streaming path would make of it over any earlier one.
DecodersAgree(tile, include, stale) ==
  LET whole == DecodeMvtTile(tile, include, FALSE)
      handed == DecodeMvtTile(tile, include, TRUE)
  IN  /\ whole.ok = handed.ok
      /\ whole.ok => whole.out = handed.out
      /\ ~whole.ok => \E i \in DOMAIN tile :
           LET d == DecodeLayer(tile[i], TRUE)
           IN  ~d.ok /\ handed.out = whole.out \o d.out
      /\ \A i \in DOMAIN tile :
           LET h == LayerHeader(tile[i])
               fs == OfKind(tile[i], "feature")
               as(f) == DecodeFeatureAsFeature(f, OfKind(tile[i], "key"),
                                               OfKind(tile[i], "value"), h, stale)
           IN  include = {} /\ whole.ok =>
                 \A j \in DOMAIN fs : as(fs[j]).ok /\ Seqs!Contains(whole.out, as(fs[j]).feature)
=============================================================================
