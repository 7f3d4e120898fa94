------------------------------- MODULE TileId -------------------------------
(***************************************************************************)
(* ZxyToTileId (src/src/tiles/pmtiles_reader.cpp): the id of tile (x, y)   *)
(* of level z, level after level, each along its Hilbert curve.  The       *)
(* coordinates are uint32: mirroring a quadrant may pass below zero and    *)
(* wraps there.                                                            *)
(***************************************************************************)
EXTENDS Integers

CONSTANTS
  Word,      \* 2^32, or a small power of two
  MaxLevel   \* 31: half a level's side is an int32

\* How many tiles a level is across.
Side[k \in 0..MaxLevel] == IF k = 0 THEN 1 ELSE 2 * Side[k - 1]

Coordinates == (0..Word - 1) \X (0..Word - 1)
Bit(x, s) == (x \div s) % 2

\* Mutant: the swap is left out of an unmirrored quadrant.
RotateMirrored(s, x, y) ==
  IF Bit(y, s) = 1 \/ Bit(x, s) = 0 THEN <<x, y>>
  ELSE <<(s - 1 - y) % Word, (s - 1 - x) % Word>>

\* The quadrant's own coordinates, turned to follow the curve.  The bits above
\* s are left in place: no later step looks at them.
Rotate(s, x, y) ==
  IF Bit(y, s) = 1 THEN <<x, y>>
  ELSE IF Bit(x, s) = 1 THEN <<(s - 1 - y) % Word, (s - 1 - x) % Word>>
  ELSE <<y, x>>

\* (3 * rx) ^ ry.
Quadrant(s, x, y) ==
  IF Bit(x, s) = 0 THEN Bit(y, s) ELSE IF Bit(y, s) = 0 THEN 3 ELSE 2

\* One round of the loop, the rounds after it giving `rest`.
Round(s, rest) ==
  [p \in Coordinates |-> s * s * Quadrant(s, p[1], p[2]) + rest[Rotate(s, p[1], p[2])]]

HilbertXyToIndex(level, x, y) ==
  LET d[k \in 0..level] == IF k = 0 THEN [p \in Coordinates |-> 0] ELSE Round(Side[k - 1], d[k - 1])
  IN  d[level][<<x, y>>]

\* The tiles of the levels before, and those of the level itself.
Sizes[i \in 0..MaxLevel + 1] ==
  IF i = 0 THEN [sum |-> 0, level |-> 1]
  ELSE [sum |-> Sizes[i - 1].sum + Sizes[i - 1].level, level |-> 4 * Sizes[i - 1].level]

TilesBeforeLevel(z) == Sizes[z].sum

ZxyToTileId(z, x, y) ==
  IF z = 0 THEN 0 ELSE TilesBeforeLevel(z) + HilbertXyToIndex(z, x, y)

-----------------------------------------------------------------------------
Tiles(z) == (0..Side[z] - 1) \X (0..Side[z] - 1)
Adjacent(a, b) ==
  LET Far(n) == IF n < 0 THEN -n ELSE n
  IN  Far(a[1] - b[1]) + Far(a[2] - b[2]) = 1

\* The ids of one level are exactly those between the levels before and after
\* it, no two tiles share one, and consecutive ids are neighbours: the property
\* a directory's runs rely on ("stacks zoom levels so tile IDs increase
\* monotonically ... and preserve spatial locality", pmtiles_reader.cpp:53).
LevelIsACurve(z) ==
  LET id == [t \in Tiles(z) |-> ZxyToTileId(z, t[1], t[2])]
  IN  /\ {id[t] : t \in Tiles(z)} = TilesBeforeLevel(z)..TilesBeforeLevel(z + 1) - 1
      /\ \A a, b \in Tiles(z) : /\ id[a] = id[b] => a = b
                                /\ id[b] = id[a] + 1 => Adjacent(a, b)
=============================================================================
