----------------------------- MODULE MvtStream -----------------------------
(***************************************************************************)
(* StreamMvtTile (src/src/tiles/mvt_stream.cpp) over InflatingByteStream   *)
(* (src/src/tiles/compression.cpp): a compressed tile is inflated twice,   *)
(* the first pass collecting each layer's tables, the second decoding each *)
(* feature against them and handing it to a sink, with one scratch reused  *)
(* from tile to tile.                                                      *)
(*                                                                         *)
(* A payload is a sequence of tokens: a layer header [k |-> "layer",       *)
(* len |-> n] and then that layer's n fields, one token each.  `consumed`  *)
(* counts tokens.  Any read may fail (a short read of the medium, a        *)
(* deflate error) or throw std::bad_alloc.  Sizes are in the units of the  *)
(* two retention limits; a vector's capacity is the largest size it held.  *)
(***************************************************************************)
EXTENDS Integers, SequencesExt

CONSTANTS
  Payloads,                 \* the inflated tiles that may be asked for
  RunEnds(_),               \* RunEnds(p): where an inflated run of p ends
  RetainedGeometryPoints,   \* kRetainedGeometryPoints
  MaxRetainedFeatureBytes,  \* kMaxRetainedFeatureBytes
  MaxStreamedFeatureBytes,  \* kMaxStreamedFeatureBytes
  ReservedFeatureBytes,     \* ReserveMvtStreamScratch's max_feature_bytes
  NoTile

VARIABLES
  pc,            \* where StreamMvtTile is
  tile,          \* the payload being streamed
  consumed,      \* stream.consumed_
  end,           \* end of the layer being read
  layers,        \* scratch->layers
  layer_index,
  emitted,       \* what the sink received during this call
  result,        \* what the last call returned, or threw
  ring_caps,     \* capacity of each ring of scratch->feature
  bytes_len, bytes_cap  \* scratch->feature_bytes

stream == <<tile, consumed, end>>
scratch == <<layers, ring_caps, bytes_len, bytes_cap>>
vars == <<pc, stream, scratch, layer_index, emitted, result>>

ASSUME StreamAssumption ==
  /\ RetainedGeometryPoints \in Nat /\ MaxRetainedFeatureBytes \in Nat
  /\ MaxStreamedFeatureBytes \in Nat /\ ReservedFeatureBytes \in Nat
  /\ NoTile \notin Payloads

\* A payload is a sequence of tokens of these shapes.  What stands inside a
\* layer is never read as a layer.
ASSUME PayloadAssumption ==
  \A p \in Payloads :
    /\ Len(p) \in Nat /\ DOMAIN p = 1..Len(p)
    /\ \A i \in 1..Len(p) :
         /\ p[i].k = "layer" => /\ p[i].len \in Nat
                                /\ \A j \in i + 1..i + p[i].len : j <= Len(p) => p[j].k # "layer"
         /\ p[i].k = "name" => p[i].included \in BOOLEAN
         /\ p[i].k = "feature" => p[i].bytes \in Nat /\ p[i].rings \in Seq(Nat)

Token == tile[consumed + 1]
Next1 == consumed' = consumed + 1
SumCaps(caps) == FoldLeft(LAMBDA a, b : a + b, 0, caps)

Init == /\ pc = "idle" /\ tile = NoTile /\ consumed = 0 /\ end = 0
        /\ layers = <<>> /\ layer_index = 0 /\ emitted = <<>>
        /\ result = "none"
        /\ ring_caps = <<>> /\ bytes_len = 0
        /\ bytes_cap = ReservedFeatureBytes

-----------------------------------------------------------------------------
\* Mutant: the trim was once "a few lines at the end of the function".
ExitTrimsOnSuccess(outcome, caps, len, cap) ==
  /\ layers' = <<>>
  /\ ring_caps' = IF outcome = "true" /\ SumCaps(caps) > RetainedGeometryPoints
                  THEN <<>> ELSE caps
  /\ bytes_len' = len /\ bytes_cap' = cap
  /\ pc' = "idle" /\ result' = outcome

\* Mutant: the byte buffer is cut to the limit under its contents.
ExitCutsToLimit(outcome, caps, len, cap) ==
  /\ layers' = <<>> /\ ring_caps' = <<>>
  /\ bytes_len' = len
  /\ bytes_cap' = IF cap > MaxRetainedFeatureBytes THEN MaxRetainedFeatureBytes ELSE cap
  /\ pc' = "idle" /\ result' = outcome

(***************************************************************************)
(* TrimOnExit, the destructor that runs on every way out.  Dense rings are *)
(* dropped; an oversized byte buffer is replaced by an exact copy of its   *)
(* contents, an allocation made inside a destructor: if that throws, the   *)
(* program ends in std::terminate.                                         *)
(***************************************************************************)
Exit(outcome, caps, len, cap) ==
  /\ layers' = <<>>
  /\ ring_caps' = IF SumCaps(caps) <= RetainedGeometryPoints THEN caps ELSE <<>>
  /\ bytes_len' = len
  /\ bytes_cap' = IF cap > MaxRetainedFeatureBytes THEN len ELSE cap
  /\ \/ pc' = "idle" /\ result' = outcome
     \/ cap > MaxRetainedFeatureBytes /\ pc' = "terminated" /\ result' = "none"

\* The exits that leave the scratch as it stands.
Leaves(outcome) == /\ Exit(outcome, ring_caps, bytes_len, bytes_cap)
                   /\ UNCHANGED <<stream, layer_index, emitted>>

\* A read that fails or an allocation that throws.
Fails == Leaves("false") \/ Leaves("threw")

\* AtEnd(): the payload is used up, or the run is and the next Fill() failed.
AtEnd == consumed = Len(tile)
FillFails == ~AtEnd /\ consumed \in RunEnds(tile)

-----------------------------------------------------------------------------
(* StreamMvtTile, pass 1.                                                  *)

\* Begin() may refuse the payload (header, trailer or window).
StreamTile(p) ==
  /\ pc = "idle"
  /\ tile' = p /\ consumed' = 0
  /\ emitted' = <<>> /\ layer_index' = 0
  /\ \/ pc' = "tables" /\ layers' = <<>> /\ result' = "none"
        /\ UNCHANGED <<end, ring_caps, bytes_len, bytes_cap>>
     \/ \E outcome \in {"false", "threw"} :
          Exit(outcome, ring_caps, bytes_len, bytes_cap) /\ UNCHANGED end

\* A top-level Tile.layers field; another field is skipped.
EnterLayer ==
  /\ pc = "tables" /\ ~AtEnd /\ Token.k # "bad"
  /\ IF Token.k = "layer"
     THEN /\ pc' = "layer_tables"
          /\ layers' = Append(layers, [at |-> consumed + 1, named |-> FALSE,
                                       included |-> FALSE, tables |-> 0])
          /\ end' = consumed + 1 + Token.len
     ELSE pc' = pc /\ UNCHANGED <<layers, end>>
  /\ Next1
  /\ UNCHANGED <<tile, layer_index, emitted, result, ring_caps, bytes_len, bytes_cap>>

\* One field inside a layer; features are skipped.
ReadTableField ==
  /\ pc = "layer_tables" /\ consumed < end /\ ~AtEnd
  /\ Token.k # "bad"
  /\ LET last == Len(layers)
     IN  layers' = CASE Token.k = "name" ->
                         [layers EXCEPT ![last].named = TRUE,
                                        ![last].included = Token.included]
                     [] Token.k = "table" ->
                         [layers EXCEPT ![last].tables = layers[last].tables + 1]
                     [] OTHER -> layers
  /\ Next1
  /\ UNCHANGED <<pc, tile, end, layer_index, emitted, result, ring_caps,
                 bytes_len, bytes_cap>>

\* Mutant: every layer drops its tables.
LeaveTablesEmpty ==
  /\ pc = "layer_tables" /\ consumed = end
  /\ layers[Len(layers)].named
  /\ pc' = "tables"
  /\ layers' = [layers EXCEPT ![Len(layers)].tables = 0]
  /\ UNCHANGED <<stream, layer_index, emitted, result, ring_caps, bytes_len, bytes_cap>>

\* An excluded layer drops its tables at once.
LeaveTables ==
  /\ pc = "layer_tables" /\ consumed = end
  /\ layers[Len(layers)].named
  /\ pc' = "tables"
  /\ layers' = IF layers[Len(layers)].included THEN layers
               ELSE [layers EXCEPT ![Len(layers)].tables = 0]
  /\ UNCHANGED <<stream, layer_index, emitted, result, ring_caps, bytes_len, bytes_cap>>

\* AtEnd() ends pass 1, and Begin() starts the payload again.
BeginFeatures ==
  /\ pc = "tables"
  /\ AtEnd \/ FillFails
  /\ pc' = "features" /\ consumed' = 0
  /\ UNCHANGED <<tile, end, scratch, layer_index, emitted, result>>

-----------------------------------------------------------------------------
(* Pass 2.                                                                 *)

EnterFeatures ==
  /\ pc = "features" /\ ~AtEnd /\ Token.k # "bad"
  /\ IF Token.k = "layer"
     THEN /\ layer_index < Len(layers)
          /\ pc' = "layer_features"
          /\ end' = consumed + 1 + Token.len
     ELSE pc' = pc /\ UNCHANGED end
  /\ Next1
  /\ UNCHANGED <<tile, scratch, layer_index, emitted, result>>

Tables == layers[layer_index + 1]

\* An excluded layer is skipped whole, as far as the payload goes.
SkipLayer ==
  /\ pc = "layer_features" /\ ~Tables.included
  /\ end <= Len(tile)
  /\ consumed' = end
  /\ layer_index' = layer_index + 1
  /\ pc' = "features"
  /\ UNCHANGED <<tile, end, scratch, emitted, result>>

\* Rings are reused in place: ring i keeps the most it ever held, rings past
\* the last one used are destroyed.
Reused(caps, rings) ==
  [i \in 1..Len(rings) |->
     IF i <= Len(caps) /\ caps[i] > rings[i] THEN caps[i] ELSE rings[i]]

StreamFeature ==
  /\ pc = "layer_features" /\ Tables.included
  /\ consumed < end /\ ~AtEnd
  /\ Token.k = "feature"
  /\ Token.bytes <= MaxStreamedFeatureBytes
  /\ LET caps == Reused(ring_caps, Token.rings)
         cap == IF Token.bytes > bytes_cap THEN Token.bytes ELSE bytes_cap
         received == Append(emitted, [at |-> consumed + 1, layer |-> Tables.at,
                                      tables |-> Tables.tables])
     IN  \/ /\ ring_caps' = caps /\ bytes_len' = Token.bytes /\ bytes_cap' = cap
            /\ emitted' = received
            /\ Next1
            /\ UNCHANGED <<pc, tile, end, layers, layer_index, result>>
         \/ \* The read fails, decoding refuses or throws with the rings grown
            \* or not, or the sink has the feature and refuses or throws.
            /\ \E outcome \in {"false", "threw"}, grown \in {ring_caps, caps} :
                 Exit(outcome, grown, Token.bytes, cap)
            /\ emitted' \in {emitted, received}
            /\ UNCHANGED <<stream, layer_index>>

\* Mutant: skipping a field does not move on.
SkipFieldInPlace ==
  /\ pc = "layer_features" /\ Tables.included
  /\ consumed < end /\ ~AtEnd
  /\ Token.k \notin {"feature", "bad"}
  /\ UNCHANGED vars

\* Mutant: a feature that is too large is skipped instead of refused.
SkipFieldOrTooLarge ==
  /\ pc = "layer_features" /\ Tables.included
  /\ consumed < end /\ ~AtEnd
  /\ \/ Token.k \notin {"feature", "bad"}
     \/ Token.k = "feature" /\ Token.bytes > MaxStreamedFeatureBytes
  /\ Next1
  /\ UNCHANGED <<pc, tile, end, scratch, layer_index, emitted, result>>

SkipField ==
  /\ pc = "layer_features" /\ Tables.included
  /\ consumed < end /\ ~AtEnd
  /\ Token.k \notin {"feature", "bad"}
  /\ Next1
  /\ UNCHANGED <<pc, tile, end, scratch, layer_index, emitted, result>>

\* Mutant: the layer is not counted.
LeaveFeaturesUncounted ==
  /\ pc = "layer_features" /\ Tables.included /\ consumed = end
  /\ pc' = "features"
  /\ UNCHANGED <<stream, scratch, layer_index, emitted, result>>

LeaveFeatures ==
  /\ pc = "layer_features" /\ Tables.included /\ consumed = end
  /\ pc' = "features"
  /\ layer_index' = layer_index + 1
  /\ UNCHANGED <<stream, scratch, emitted, result>>

\* "Both passes must agree on the layer count, or the tile changed under us."
Finish ==
  /\ pc = "features"
  /\ AtEnd \/ FillFails
  /\ Leaves(IF layer_index = Len(layers) THEN "true" ELSE "false")

\* What either pass finds wrong with the payload itself: a field that cannot
\* be read or ends too soon, a layer without a name or beyond pass 1's count, a
\* feature that is too large.
Unacceptable ==
  \/ pc \in {"tables", "features"} /\ ~AtEnd /\ Token.k = "bad"
  \/ pc = "layer_tables" /\ consumed < end /\ (~AtEnd => Token.k = "bad")
  \/ pc = "layer_tables" /\ consumed = end /\ ~layers[Len(layers)].named
  \/ pc = "features" /\ ~AtEnd /\ Token.k = "layer" /\ layer_index = Len(layers)
  \/ pc = "layer_features" /\ ~Tables.included /\ end > Len(tile)
  \/ /\ pc = "layer_features" /\ Tables.included /\ consumed < end
     /\ ~AtEnd => \/ Token.k = "bad"
                  \/ Token.k = "feature" /\ Token.bytes > MaxStreamedFeatureBytes

Refuse == Unacceptable /\ Leaves("false")

\* A read or an allocation that fails, anywhere in either pass.
Abort == pc \notin {"idle", "terminated"} /\ Fails

Step == \/ EnterLayer \/ ReadTableField \/ LeaveTables \/ BeginFeatures
        \/ EnterFeatures \/ SkipLayer \/ StreamFeature \/ SkipField
        \/ LeaveFeatures \/ Finish \/ Refuse

Next == Step \/ Abort \/ \E p \in Payloads : StreamTile(p)

Spec == Init /\ [][Next]_vars

\* StreamMvtTile is sequential code that never waits; nothing has to fail.
FairSpec == Spec /\ WF_vars(Step)

-----------------------------------------------------------------------------
TypeOK ==
  /\ pc \in {"idle", "tables", "layer_tables", "features", "layer_features",
            "terminated"}
  /\ tile \in Payloads \cup {NoTile}
  /\ consumed \in Nat /\ end \in Nat /\ layer_index \in Nat
  /\ layers \in Seq([at : Nat, named : BOOLEAN, included : BOOLEAN, tables : Nat])
  /\ emitted \in Seq([at : Nat, layer : Nat, tables : Nat])
  /\ result \in {"none", "true", "false", "threw"}
  /\ ring_caps \in Seq(Nat) /\ bytes_cap \in Nat /\ bytes_len \in 0..bytes_cap

\* What a payload holds, read off the payload alone: where its layers start,
\* the layer a token lies in, the layers wanted, and their features in order.
LayerStarts(p) == {i \in 1..Len(p) : p[i].k = "layer"}
Body(p, l) == l + 1 .. l + p[l].len
\* Of several names the last counts.
LastName(p, l, i) ==
  /\ p[i].k = "name"
  /\ \A j \in Body(p, l) \cap DOMAIN p : p[j].k = "name" => j <= i
IncludedLayers(p) ==
  {l \in LayerStarts(p) :
     \E i \in Body(p, l) \cap DOMAIN p : LastName(p, l, i) /\ p[i].included}
Features(p) ==
  {i \in 1..Len(p) : p[i].k = "feature" /\ \E l \in IncludedLayers(p) : i \in Body(p, l)}
\* The members of a set of numbers from the least to the largest: the k-th has
\* k - 1 below it.
InOrder(S) ==
  [k \in 1..Cardinality(S) |-> CHOOSE x \in S : Cardinality({y \in S : y < x}) = k - 1]
Positions == [i \in 1..Len(emitted) |-> emitted[i].at]

\* The sink only ever sees a prefix of the tile's wanted features, in payload
\* order, none twice and none skipped: also when the two passes end early at
\* different layers, and in the tile that follows a failed one.
SinkSeesAPrefix ==
  tile # NoTile => IsPrefix(Positions, InOrder(Features(tile)))

\* A feature is resolved against the complete tables of its own layer: pass 1
\* and pass 2 count layers alike whatever they skip or exclude.
OwnLayerTables ==
  \A i \in 1..Len(emitted) :
    LET e == emitted[i]
    IN  /\ e.at \in Body(tile, e.layer)
        /\ e.tables = Cardinality({j \in Body(tile, e.layer) : tile[j].k = "table"})

\* A tile is accepted only when both passes ended at one place between layers,
\* and then every wanted feature before that place went to the sink: no field
\* and no feature on the way was passed over.
AcceptedUpToTheEnd ==
  result = "true" =>
    /\ AtEnd \/ FillFails
    /\ Positions = InOrder({i \in Features(tile) : i <= consumed})

\* "Returns false on malformed input" (mvt_stream.hpp:109): a tile reported as
\* streamed was streamed whole.
AcceptedIsComplete ==
  result = "true" => Positions = InOrder(Features(tile))

\* Between tiles the scratch pins no more geometry than
\* kRetainedGeometryPoints and no layer tables, however the tile ended
\* ("Trim on EVERY exit, including a failed tile and a thrown bad_alloc").
RetainedGeometryBounded ==
  pc = "idle" => SumCaps(ring_caps) <= RetainedGeometryPoints /\ layers = <<>>

\* mvt_stream.hpp:101, "Encoded-feature bytes the scratch keeps between tiles.
\* Above this the buffer is released".
RetainedBytesBounded ==
  pc = "idle" => bytes_cap <= MaxRetainedFeatureBytes

\* Every tile is answered, unless the program ended.
TilesEnd == (tile # NoTile) ~> (pc \in {"idle", "terminated"})
=============================================================================
