--------------------------- MODULE MeasuredFrame ---------------------------
(***************************************************************************)
(* How a frame is drawn from an archive and accounted for, in the three    *)
(* places that do it: RenderMeasuredFrame of the hardware benchmark        *)
(* ("measured"), CheckFrame of embedded-world-check ("check"), and the     *)
(* LilyGO's application ("lilygo").  The first two stream each distinct    *)
(* visible tile once and draw every feature at all of the tile's           *)
(* placements; the third decodes whole tiles.  A step is one tile's lookup,*)
(* one feature, or the end of a tile.                                      *)
(*                                                                         *)
(* `Archive` gives each tile its features, those the layer filter lets     *)
(* through; a byte count is abstracted to the features walked over.        *)
(***************************************************************************)
EXTENDS Naturals, Sequences, FiniteSets

CONSTANTS
  Screens,     \* what the camera may see: sequences of [tile, column] records
  Archive,     \* Archive[t]: how many features tile t has
  MaxFeatures, \* the most features of a tile
  NoTile,      \* Archive[t] of a tile that is not there
  Pipelines,   \* {"measured", "check", "lilygo"}
  MaxFrames    \* bound on the frames drawn one after another

ASSUME FrameAssumption ==
  /\ Pipelines \subseteq {"measured", "check", "lilygo"}
  /\ MaxFrames \in Nat /\ MaxFeatures \in Nat
  /\ \A t \in DOMAIN Archive : Archive[t] = NoTile \/ Archive[t] \in 0..MaxFeatures
  /\ \A placements \in Screens : placements \in Seq([tile : DOMAIN Archive, column : Nat])

VARIABLES
  pipeline,
  phase,       \* "ready", "tiles", "found", "scanned", "stream" or "done"
  tiles,       \* tiles, copies: [tile, columns] records
  at,          \* the tile being drawn
  counts,      \* of the frame: BenchFrame's, CheckFrame's or app_main's
  frame,       \* how the frame ended: [ok, error, timed]
  sent,        \* the features of this tile that reached the sink
  consumed,    \* scratch_stream->stream.consumed(), which outlives a tile
  drawn,       \* what is on the screen: <<index, feature, column>>
  short,       \* tiles the stream accepted before their end (see MvtStream)
  frames,      \* frames done
  sweep        \* SweepAccumulator

vars == <<pipeline, phase, tiles, at, counts, frame, sent, consumed, drawn, short, frames, sweep>>

NoCounts == [visible |-> 0, present |-> 0, missing |-> 0, skipped |-> 0, failed |-> 0,
             features |-> 0, bytes |-> 0]
NoFrame == [ok |-> FALSE, error |-> "none", timed |-> FALSE]

-----------------------------------------------------------------------------
(* Beginning a frame.                                                      *)

\* The distinct tiles in the order they are first placed, with all their
\* columns; the LilyGO's are drawn at one of them only.
Grouped(placements) ==
  LET firsts == {i \in DOMAIN placements :
                   \A j \in 1..i - 1 : placements[j].tile # placements[i].tile}
      nth(n) == CHOOSE i \in firsts : Cardinality({j \in firsts : j <= i}) = n
      columns(t) == {placements[j].column : j \in {k \in DOMAIN placements : placements[k].tile = t}}
      group(t) == [tile |-> t, columns |-> IF pipeline = "lilygo" THEN {CHOOSE c \in columns(t) : TRUE}
                                           ELSE columns(t)]
  IN  [n \in 1..Cardinality(firsts) |-> group(placements[nth(n)].tile)]

Init ==
  /\ pipeline \in Pipelines
  /\ phase = "ready" /\ tiles = <<>> /\ at = 1 /\ counts = NoCounts /\ frame = NoFrame
  /\ sent = 0 /\ consumed = 0 /\ drawn = {} /\ short = {}
  /\ frames = 0 /\ sweep = NoCounts

StartFrame(placements) ==
  /\ phase = "ready"
  /\ tiles' = Grouped(placements)
  /\ counts' = [NoCounts EXCEPT !.visible = Len(tiles')]
  /\ frame' = NoFrame
  /\ phase' = "tiles" /\ at' = 1
  /\ drawn' = {} /\ short' = {}
  /\ UNCHANGED <<pipeline, sent, consumed, frames, sweep>>

\* No scratch, no tiles, or a background that cannot be drawn; by then the
\* visible tiles have been counted.  The LilyGO stops for good.
EarlyFailure(placements) ==
  /\ phase = "ready" /\ pipeline # "lilygo"
  /\ \E stage \in {"no-scratch", "enumerate", "background"} :
       /\ pipeline = "check" => stage = "enumerate"
       /\ tiles' = IF stage = "background" THEN Grouped(placements) ELSE <<>>
       /\ frame' = [NoFrame EXCEPT !.error = stage]
  /\ counts' = [NoCounts EXCEPT !.visible = Len(tiles')]
  /\ phase' = "done"
  /\ drawn' = {} /\ short' = {}
  /\ UNCHANGED <<pipeline, at, sent, consumed, frames, sweep>>

-----------------------------------------------------------------------------
(* One tile.                                                               *)

Drawing == phase = "tiles" /\ at <= Len(tiles)
InTile == phase \in {"found", "scanned", "stream"}
Features == Archive[tiles[at].tile]

NextTile == phase' = "tiles" /\ at' = at + 1

\* Below the heap floor a tile is not attempted.
SkipTile ==
  /\ Drawing /\ pipeline = "measured"
  /\ counts' = [counts EXCEPT !.skipped = @ + 1]
  /\ NextTile
  /\ UNCHANGED <<pipeline, tiles, frame, sent, consumed, drawn, short, frames, sweep>>

\* A lookup that fails to read answers false as well: the tile is missing.
MissTile ==
  /\ Drawing
  /\ counts' = [counts EXCEPT !.missing = @ + 1]
  /\ NextTile
  /\ UNCHANGED <<pipeline, tiles, frame, sent, consumed, drawn, short, frames, sweep>>

FindTile ==
  /\ Drawing /\ Features # NoTile
  /\ counts' = [counts EXCEPT !.present = IF pipeline = "check" THEN @ ELSE @ + 1]
  /\ phase' = "found" /\ sent' = 0
  /\ UNCHANGED <<pipeline, tiles, at, frame, consumed, drawn, short, frames, sweep>>

\* Mutant: the count made before the memory ran out is kept.
OutOfMemoryKeepsCount ==
  /\ pipeline = "measured" /\ (Drawing \/ InTile)
  /\ counts' = [counts EXCEPT !.skipped = @ + 1]
  /\ frame' = [frame EXCEPT !.error = "out-of-memory"]
  /\ NextTile
  /\ UNCHANGED <<pipeline, tiles, sent, consumed, drawn, short, frames, sweep>>

\* An allocation that fails anywhere in a tile makes it a skipped one, not a
\* present one, whatever was drawn of it.
OutOfMemory ==
  /\ pipeline = "measured" /\ (Drawing \/ InTile)
  /\ counts' = [counts EXCEPT !.present = IF phase = "tiles" THEN @ ELSE @ - 1,
                              !.skipped = @ + 1]
  /\ frame' = [frame EXCEPT !.error = "out-of-memory"]
  /\ NextTile
  /\ UNCHANGED <<pipeline, tiles, sent, consumed, drawn, short, frames, sweep>>

\* The first pass walks the tile, or gets as far as it can.
Scan ==
  /\ phase = "found" /\ pipeline # "lilygo"
  /\ phase' = "scanned" /\ consumed' \in 0..Features
  /\ UNCHANGED <<pipeline, tiles, at, counts, frame, sent, drawn, short, frames, sweep>>

\* The second pass begins.
Stream ==
  /\ phase = "scanned"
  /\ phase' = "stream" /\ consumed' = 0
  /\ UNCHANGED <<pipeline, tiles, at, counts, frame, sent, drawn, short, frames, sweep>>

\* A feature is drawn at every placement; one that cannot be is only noted.
DrawFeature ==
  /\ phase = "stream" /\ sent < Features
  /\ sent' = sent + 1 /\ consumed' = consumed + 1
  /\ \E columns \in SUBSET tiles[at].columns :
       /\ drawn' = drawn \cup {<<at, sent', c>> : c \in columns}
       /\ frame' = IF pipeline = "measured" /\ columns # tiles[at].columns
                   THEN [frame EXCEPT !.error = "render"] ELSE frame
  /\ UNCHANGED <<pipeline, phase, tiles, at, counts, short, frames, sweep>>

\* After a failure consumed() is counted all the same, even when the stream
\* never began and the count is that of another tile.
MeasuredTile(decoded) ==
  [counts EXCEPT !.bytes = @ + consumed, !.features = IF decoded THEN @ + sent ELSE @]

CheckedTile(decoded) ==
  [counts EXCEPT !.features = @ + sent,
                 !.present = IF decoded THEN @ + 1 ELSE @,
                 !.failed = IF decoded THEN @ ELSE @ + 1]

\* Mutant: a tile that fails to decode leaves no error.
ForgivenTile(decoded) == frame

\* Only the measured frame remembers a tile that failed to decode.
DecodeError(decoded) ==
  IF decoded \/ pipeline # "measured" THEN frame ELSE [frame EXCEPT !.error = "decode"]

\* Streaming succeeds at the end of the tile, or short of it where a failed
\* read passes for the end; it may fail anywhere, before it began included.
EndTile ==
  /\ InTile /\ pipeline # "lilygo"
  /\ \E decoded \in BOOLEAN :
       /\ decoded => phase = "stream"
       /\ counts' = IF pipeline = "measured" THEN MeasuredTile(decoded) ELSE CheckedTile(decoded)
       /\ frame' = DecodeError(decoded)
       /\ short' = IF decoded /\ sent < Features THEN short \cup {at} ELSE short
  /\ NextTile
  /\ UNCHANGED <<pipeline, tiles, sent, consumed, drawn, frames, sweep>>

\* A payload that cannot be inflated, decoded or translated is dropped without
\* a trace; it stays present.
WholeTile ==
  /\ phase = "found" /\ pipeline = "lilygo"
  /\ \E columns \in SUBSET tiles[at].columns :
       drawn' = drawn \cup {<<at, f, c>> : f \in 1..Features, c \in columns}
  /\ NextTile
  /\ UNCHANGED <<pipeline, tiles, counts, frame, sent, consumed, short, frames, sweep>>

-----------------------------------------------------------------------------
(* Ending a frame.                                                         *)

CheckPasses(c) == c.present > 0 /\ c.missing = 0 /\ c.failed = 0

\* The LilyGO reports a pass whatever happened.
FinishFrame ==
  /\ phase = "tiles" /\ at > Len(tiles)
  /\ phase' = "done"
  /\ frame' = [frame EXCEPT !.timed = TRUE,
                            !.ok = CASE pipeline = "measured" -> frame.error = "none"
                                     [] pipeline = "check" -> CheckPasses(counts)
                                     [] pipeline = "lilygo" -> TRUE]
  /\ UNCHANGED <<pipeline, tiles, at, counts, sent, consumed, drawn, short, frames, sweep>>

\* SweepAccumulator::Add; a frame without a time is not a measurement.
Added == [field \in DOMAIN sweep |-> sweep[field] + counts[field]]

NextFrame ==
  /\ phase = "done" /\ pipeline # "lilygo" /\ frames < MaxFrames
  /\ sweep' = IF pipeline = "measured" /\ frame.timed THEN Added ELSE sweep
  /\ frames' = frames + 1
  /\ phase' = "ready"
  /\ UNCHANGED <<pipeline, tiles, at, counts, frame, sent, consumed, drawn, short>>

Next ==
  \/ \E placements \in Screens : StartFrame(placements) \/ EarlyFailure(placements)
  \/ SkipTile \/ MissTile \/ FindTile \/ OutOfMemory
  \/ Scan \/ Stream \/ DrawFeature \/ EndTile \/ WholeTile
  \/ FinishFrame \/ NextFrame

Spec == Init /\ [][Next]_vars

-----------------------------------------------------------------------------
Accounted(c) == c.present + c.missing + c.skipped + c.failed

\* Every distinct visible tile of a frame that was drawn is in exactly one
\* count, wherever its drawing ended, and the totals of a sweep add up alike
\* ("must not be reported as BOTH present and skipped", bench.cpp:261).
EveryTileAccountedOnce ==
  /\ phase = "done" /\ frame.timed => Accounted(counts) = counts.visible
  /\ Accounted(sweep) = sweep.visible

\* A frame that passes lost nothing on the way: the features and bytes reported
\* are those sent by the tiles it has, which are whole unless the stream took a
\* cut for the end, and each of the measured ones is on the screen at every
\* placement of its tile.  (The check does not look at what was drawn; the
\* LilyGO's result says nothing.)
HonestPass ==
  LET there == {i \in DOMAIN tiles : Archive[tiles[i].tile] # NoTile}
      whole == UNION {{i} \X (1..Archive[tiles[i].tile]) : i \in there}
      seen == {<<d[1], d[2]>> : d \in drawn}
  IN  phase = "done" /\ frame.ok =>
        /\ pipeline = "measured" =>
             /\ counts.features = Cardinality(seen)
             /\ counts.bytes = Cardinality(seen)
             /\ \A d \in seen, i \in DOMAIN tiles :
                  d[1] = i => \A c \in tiles[i].columns : <<i, d[2], c>> \in drawn
             /\ counts.missing + counts.skipped = 0 =>
                  \A d \in whole : d \in seen \/ d[1] \in short
        /\ pipeline = "check" /\ short = {} => counts.features = Cardinality(whole)
=============================================================================
