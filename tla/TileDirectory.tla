--------------------------- MODULE TileDirectory ---------------------------
(***************************************************************************)
(* How one PMTiles directory is searched (src/src/tiles/pmtiles_reader.cpp).*)
(*                                                                         *)
(* A directory is stored as four columns: tile-id deltas, run lengths,     *)
(* lengths and raw offsets.  The reader searches it in two ways.  The root *)
(* is parsed once into entries (ReadDirectory) and searched with FindEntry;*)
(* a leaf stays serialized and is walked column by column on every lookup  *)
(* (FindEntryInSerialized).  The two must agree on every directory.        *)
(*                                                                         *)
(* A varint is a natural number here: its bytes are not modelled.  Word32  *)
(* stands for 2^32, the modulus of the uint32_t fields of DirEntry.        *)
(***************************************************************************)
EXTENDS Naturals, Sequences, FiniteSets

CONSTANT Word32

ASSUME Word32Assumption == Word32 \in Nat \ {0}

\* The serialized form: four columns of one length.
Columns(Deltas, Runs, Lengths, Offsets, n) ==
  [deltas : [1..n -> Deltas], runs : [1..n -> Runs],
   lengths : [1..n -> Lengths], offsets : [1..n -> Offsets]]

\* What a search answers: nothing covers the id, the entry of a tile, or the
\* entry of a leaf directory that may hold it.
DirEntry == [tile_id : Nat, run_length : Nat, length : Nat, offset : Nat]
NoEntry == [kind |-> "none"]
Found(e) == [kind |-> IF e.run_length = 0 THEN "leaf" ELSE "tile", entry |-> e]
Answer == {NoEntry} \cup [kind : {"leaf", "tile"}, entry : DirEntry]

-----------------------------------------------------------------------------
(* The parsed form, used for the root directory.                           *)

\* Deltas accumulate into ids; a raw offset of 0 means "right after the
\* previous entry", any other is stored plus one.
ReadDirectory(cols) ==
  LET n == Len(cols.deltas)
      id[i \in 0..n] == IF i = 0 THEN 0 ELSE id[i - 1] + cols.deltas[i]
      length(i) == cols.lengths[i] % Word32
      offset[i \in 1..n] == IF cols.offsets[i] # 0 THEN cols.offsets[i] - 1
                            ELSE IF i = 1 THEN 0
                            ELSE offset[i - 1] + length(i - 1)
  IN  [i \in 1..n |-> [tile_id |-> id[i], run_length |-> cols.runs[i] % Word32,
                       length |-> length(i), offset |-> offset[i]]]

\* upper_bound, then one step back.
FindEntry(dir, tile_id) ==
  LET notAfter == {i \in DOMAIN dir : dir[i].tile_id <= tile_id}
      e == dir[CHOOSE i \in notAfter : \A j \in notAfter : j <= i]
  IN  IF notAfter = {} THEN NoEntry
      ELSE IF e.run_length = 0 \/ tile_id < e.tile_id + e.run_length
           THEN Found(e) ELSE NoEntry

-----------------------------------------------------------------------------
(* The serialized form, used for leaf directories.                         *)

\* Column 1: the last index whose running id is not after tile_id.
WalkIds(cols, tile_id) ==
  LET walk[i \in 0..Len(cols.deltas)] ==
        IF i = 0 THEN [running |-> 0, chosen |-> 0, chosen_id |-> 0]
        ELSE LET running == walk[i - 1].running + cols.deltas[i]
             IN  IF running <= tile_id
                 THEN [running |-> running, chosen |-> i, chosen_id |-> running]
                 ELSE [walk[i - 1] EXCEPT !.running = running]
  IN  walk[Len(cols.deltas)]

\* Mutant: a raw offset of 0 is decoded as any other.
WalkOffsetsRaw(cols, chosen) ==
  IF chosen = 0 THEN 0 ELSE cols.offsets[chosen] - 1

\* Column 4, accumulated up to the chosen index with column 3's lengths.
WalkOffsets(cols, chosen) ==
  LET walk[i \in 0..chosen] ==
        IF i = 0 THEN [prev_offset |-> 0, prev_length |-> 0]
        ELSE [prev_offset |-> IF cols.offsets[i] = 0
                              THEN walk[i - 1].prev_offset + walk[i - 1].prev_length
                              ELSE cols.offsets[i] - 1,
              prev_length |-> cols.lengths[i] % Word32]
  IN  walk[chosen].prev_offset

\* Mutant: the id just after a run belongs to it.
FindEntryPastRun(cols, tile_id) ==
  LET walk == WalkIds(cols, tile_id)
      run == cols.runs[walk.chosen]
  IN  IF walk.chosen = 0 \/ (run > 0 /\ tile_id > walk.chosen_id + run)
      THEN NoEntry
      ELSE [kind  |-> IF run = 0 THEN "leaf" ELSE "tile",
            entry |-> [tile_id    |-> walk.chosen_id,
                       run_length |-> run % Word32,
                       length     |-> cols.lengths[walk.chosen] % Word32,
                       offset     |-> WalkOffsets(cols, walk.chosen)]]

FindEntryInSerialized(cols, tile_id) ==
  LET walk == WalkIds(cols, tile_id)
      run == cols.runs[walk.chosen]
  IN  IF walk.chosen = 0 \/ (run > 0 /\ tile_id >= walk.chosen_id + run)
      THEN NoEntry
      ELSE [kind  |-> IF run = 0 THEN "leaf" ELSE "tile",
            entry |-> [tile_id    |-> walk.chosen_id,
                       run_length |-> run % Word32,
                       length     |-> cols.lengths[walk.chosen] % Word32,
                       offset     |-> WalkOffsets(cols, walk.chosen)]]

-----------------------------------------------------------------------------
\* A parsed directory as the format prescribes: ids strictly ascend and no run
\* reaches into the next entry.
WellFormed(dir) ==
  \A i \in 2..Len(dir) : /\ dir[i - 1].tile_id + dir[i - 1].run_length <= dir[i].tile_id
                         /\ dir[i - 1].tile_id < dir[i].tile_id

\* Its entries that claim tile_id: a run that spans it, or a leaf pointer whose
\* range [its id, the next entry's id) spans it.
Claimants(dir, tile_id) ==
  {i \in 1..Len(dir) :
     /\ dir[i].tile_id <= tile_id
     /\ IF dir[i].run_length = 0 THEN i < Len(dir) => tile_id < dir[i + 1].tile_id
        ELSE tile_id < dir[i].tile_id + dir[i].run_length}

\* The walk over serialized columns answers exactly what the binary search
\* over parsed entries answers (pmtiles_reader.cpp:275, "the same rule the
\* parsed binary search used"): entry, kind, length and accumulated offset.
SearchesAgree(cols, tile_id) ==
  FindEntryInSerialized(cols, tile_id) = FindEntry(ReadDirectory(cols), tile_id)

\* On a well-formed directory the walk finds the one entry that claims the
\* id, and reports absence only when none does.
FindsTheClaimant(cols, tile_id) ==
  LET dir == ReadDirectory(cols)
      answer == FindEntryInSerialized(cols, tile_id)
      claimants == Claimants(dir, tile_id)
  IN  WellFormed(dir) =>
        /\ \A i, k \in claimants : i = k
        /\ (answer = NoEntry) <=> (claimants = {})
        /\ \A i \in claimants : answer = Found(dir[i])
=============================================================================
