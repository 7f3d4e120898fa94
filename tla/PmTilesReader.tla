--------------------------- MODULE PmTilesReader ---------------------------
(***************************************************************************)
(* PmTilesReader (src/src/tiles/pmtiles_reader.cpp): a tile is looked up   *)
(* through the parsed root directory and a chain of serialized leaf        *)
(* directories, over a medium any read of which may fail, with a leaf      *)
(* cache of one or two slots filled round robin.                           *)
(*                                                                         *)
(* The archive on the medium never changes; a read either delivers it,     *)
(* fails (short read, inflate or CRC failure: the function returns false)  *)
(* or throws std::bad_alloc through every frame of the call.  A caller may *)
(* catch that and go on using the reader, as examples/hardware-benchmark/  *)
(* bench.cpp does tile by tile.                                            *)
(***************************************************************************)
EXTENDS TileDirectory

CONSTANTS
  TileIds,          \* ids that can be asked for
  Root,             \* the root directory's columns
  Leaves,           \* leaf directory columns by <<absolute offset, length>>
  LeafDirsOffset,   \* header_.leaf_dirs_offset
  TileDataOffset,   \* header_.tile_data_offset
  LeafCacheUsed,    \* leaf_cache_used_, 1 or 2
  MaxLeafHops,      \* the 8 of LocateTile
  Archive,          \* id -> where the archive stores the tile, or Absent
  Serves,           \* Serves[h]: the <<leaf, id>> pairs met at hop h
  Absent, NoReply, Nothing

VARIABLES
  open,             \* open_
  root_dir,         \* root_dir_, parsed
  leaf_cache,       \* leaf_cache_[0 .. leaf_cache_used_ - 1]
  leaf_cache_next,  \* leaf_cache_next_
  call,             \* the LocateTile in progress, or Nothing
  reply,            \* what the last call returned
  faulted           \* a read failed or threw during the last call

vars == <<open, root_dir, leaf_cache, leaf_cache_next, call, reply, faulted>>

Ops == {"TileExists", "GetTile", "GetTileInflated", "StreamTile"}
Slots == 0..(LeafCacheUsed - 1)
Keys == DOMAIN Leaves
NoBytes == [deltas |-> <<>>, runs |-> <<>>, lengths |-> <<>>, offsets |-> <<>>]

LeafKey(entry) == <<LeafDirsOffset + entry.offset, entry.length>>
Place(entry) == [offset |-> TileDataOffset + entry.offset, length |-> entry.length]

\* found is a correct account of tile_id after `hops` leaf directories.
Accounts(found, tile_id, hops) ==
  /\ found.kind = "none" => Archive[tile_id] = Absent
  /\ found.kind = "tile" => Archive[tile_id] = Place(found.entry)
  /\ found.kind = "leaf" =>
       IF hops < MaxLeafHops
       THEN <<LeafKey(found.entry), tile_id>> \in Serves[hops + 1]
       ELSE Archive[tile_id] = Absent

\* A LocateTile in progress and a finished one.
CallType == [op : Ops, tile_id : TileIds, hops : 0..MaxLeafHops, found : Answer]
ReplyType == [op : Ops, tile_id : TileIds, ok : BOOLEAN,
              at : [offset : Nat, length : Nat] \cup {Absent}]

(***************************************************************************)
(* The archive is sound: each directory accounts for every id it serves,   *)
(* and an id whose chain is longer than MaxLeafHops (a cycle) stores       *)
(* nothing.  Archive is what the directories say, followed to the end.     *)
(***************************************************************************)
ASSUME ReaderAssumption ==
  /\ LeafCacheUsed \in {1, 2}
  /\ MaxLeafHops \in Nat
  /\ LeafDirsOffset \in Nat /\ TileDataOffset \in Nat
  /\ Absent \notin [offset : Nat, length : Nat]
  /\ Archive \in [TileIds -> [offset : Nat, length : Nat] \cup {Absent}]

ASSUME ArchiveSound ==
  /\ Serves \in [1..MaxLeafHops -> SUBSET (Keys \X TileIds)]
  /\ \A id \in TileIds :
       /\ FindEntry(ReadDirectory(Root), id) \in Answer
       /\ Accounts(FindEntry(ReadDirectory(Root), id), id, 0)
  /\ \A hop \in 1..MaxLeafHops : \A pair \in Serves[hop] :
       LET found == FindEntryInSerialized(Leaves[pair[1]], pair[2])
       IN  found \in Answer /\ Accounts(found, pair[2], hop)

ASSUME DistinctConstants ==
  /\ NoReply \notin ReplyType
  /\ Nothing \notin CallType
  /\ Nothing \notin [op : Ops, tile_id : TileIds]

-----------------------------------------------------------------------------
Init == /\ open = FALSE
        /\ root_dir = <<>>
        /\ leaf_cache = [s \in Slots |->
                           [valid |-> FALSE, key |-> <<0, 0>>, bytes |-> NoBytes]]
        /\ leaf_cache_next = 0
        /\ call = Nothing
        /\ reply = NoReply
        /\ faulted = FALSE

\* Mutant: open_ is not lowered before the root is read again.
OpenStaysOpen ==
  /\ call = Nothing
  /\ \/ open' = TRUE /\ root_dir' = ReadDirectory(Root)
     \/ open' = open /\ root_dir' \in {root_dir, <<>>}
  /\ reply' = NoReply
  /\ faulted' = FALSE
  /\ UNCHANGED <<leaf_cache, leaf_cache_next, call>>

(***************************************************************************)
(* Open.  open_ falls first and rises last; a failure before ReadDirectory *)
(* leaves the old root, one inside it leaves an empty one.  The leaf cache *)
(* is not touched.                                                         *)
(***************************************************************************)
Open ==
  /\ call = Nothing
  /\ \/ open' = TRUE /\ root_dir' = ReadDirectory(Root)
     \/ open' = FALSE /\ root_dir' \in {root_dir, <<>>}
  /\ reply' = NoReply
  /\ faulted' = FALSE
  /\ UNCHANGED <<leaf_cache, leaf_cache_next, call>>

Returns(op, tile_id, ok, at, fault) ==
  /\ reply' = [op |-> op, tile_id |-> tile_id, ok |-> ok, at |-> at]
  /\ faulted' = fault
  /\ call' = Nothing

ReturnsFalse(fault) == Returns(call.op, call.tile_id, FALSE, Absent, fault)

\* LocateTile up to its loop: refuse when not open, else search the root.
Locate(op, tile_id) ==
  /\ call = Nothing
  /\ IF open
     THEN /\ call' = [op |-> op, tile_id |-> tile_id, hops |-> 0,
                      found |-> FindEntry(root_dir, tile_id)]
          /\ reply' = NoReply
          /\ faulted' = FALSE
     ELSE Returns(op, tile_id, FALSE, Absent, FALSE)
  /\ UNCHANGED <<open, root_dir, leaf_cache, leaf_cache_next>>

-----------------------------------------------------------------------------
(* One turn of `while (is_leaf)`.                                          *)

AtLeaf == call # Nothing /\ call.found.kind = "leaf"
Wanted == LeafKey(call.found.entry)

\* Mutants: the key is not compared; only the first slot is looked at.
HitsAnyValid == {s \in Slots : leaf_cache[s].valid}
HitsFirstSlot == {s \in {0} : leaf_cache[s].valid /\ leaf_cache[s].key = Wanted}

Hits == {s \in Slots : leaf_cache[s].valid /\ leaf_cache[s].key = Wanted}

\* `++leaf_hops > 8`: one more leaf would be too many.
HopsSpent == call.hops + 1 > MaxLeafHops

\* Mutant: the count is not raised.
SearchLeafUncounted(bytes) ==
  /\ call' = [call EXCEPT !.found = FindEntryInSerialized(bytes, call.tile_id)]
  /\ UNCHANGED <<reply, faulted>>

\* The search of one leaf, whose bytes have just been obtained.
SearchLeaf(bytes) ==
  /\ call' = [call EXCEPT !.hops = call.hops + 1,
                          !.found = FindEntryInSerialized(bytes, call.tile_id)]
  /\ UNCHANGED <<reply, faulted>>

TooManyHops ==
  /\ AtLeaf
  /\ HopsSpent
  /\ ReturnsFalse(FALSE)
  /\ UNCHANGED <<open, root_dir, leaf_cache, leaf_cache_next>>

LeafHit ==
  /\ AtLeaf
  /\ ~HopsSpent
  /\ \E s \in Hits : /\ \A t \in Hits : s <= t
                     /\ SearchLeaf(leaf_cache[s].bytes)
  /\ UNCHANGED <<open, root_dir, leaf_cache, leaf_cache_next>>

Misses == AtLeaf /\ ~HopsSpent /\ Hits = {}
Refill(slot) == leaf_cache' = [leaf_cache EXCEPT ![leaf_cache_next] = slot]

\* Mutants of LeafMiss: the cursor does not wrap; the slot becomes valid before
\* its bytes are read; a failed read is searched like a complete one.
LeafMissNoWrap ==
  /\ Misses
  /\ leaf_cache_next' = leaf_cache_next + 1
  /\ Refill([valid |-> TRUE, key |-> Wanted, bytes |-> Leaves[Wanted]])
  /\ SearchLeaf(Leaves[Wanted])
  /\ UNCHANGED <<open, root_dir>>

LeafMissValidFirst ==
  /\ Misses
  /\ leaf_cache_next' = (leaf_cache_next + 1) % LeafCacheUsed
  /\ \/ /\ Refill([valid |-> TRUE, key |-> Wanted, bytes |-> Leaves[Wanted]])
        /\ SearchLeaf(Leaves[Wanted])
     \/ /\ Refill([valid |-> TRUE, key |-> Wanted, bytes |-> NoBytes])
        /\ ReturnsFalse(TRUE)
  /\ UNCHANGED <<open, root_dir>>

LeafMissUnchecked ==
  /\ Misses
  /\ leaf_cache_next' = (leaf_cache_next + 1) % LeafCacheUsed
  /\ \E bytes \in {Leaves[Wanted], NoBytes} :
       /\ Refill([valid |-> bytes # NoBytes, key |-> Wanted, bytes |-> bytes])
       /\ SearchLeaf(bytes)
  /\ UNCHANGED <<open, root_dir>>

\* The victim is chosen, the cursor moved and the slot invalidated before the
\* read; only a complete read makes it valid again.
LeafMiss ==
  /\ AtLeaf
  /\ ~HopsSpent
  /\ Hits = {}
  /\ leaf_cache_next' = (leaf_cache_next + 1) % LeafCacheUsed
  /\ \/ /\ leaf_cache' = [leaf_cache EXCEPT ![leaf_cache_next] =
             [valid |-> TRUE, key |-> Wanted, bytes |-> Leaves[Wanted]]]
        /\ SearchLeaf(Leaves[Wanted])
     \/ \* The read fails or throws: the slot keeps its old key, and its bytes
        \* are cleared or a zero-filled buffer, which reads as no entries.
        /\ leaf_cache' = [leaf_cache EXCEPT ![leaf_cache_next].valid = FALSE,
                                            ![leaf_cache_next].bytes = NoBytes]
        /\ ReturnsFalse(TRUE)
  /\ UNCHANGED <<open, root_dir>>

-----------------------------------------------------------------------------
(* The end of LocateTile and what each public operation does with it.      *)

NotFound ==
  /\ call # Nothing
  /\ call.found.kind = "none"
  /\ ReturnsFalse(FALSE)
  /\ UNCHANGED <<open, root_dir, leaf_cache, leaf_cache_next>>

\* TileExists reads nothing more.  An empty payload is a success for GetTile
\* and GetTileInflated and a refusal for StreamTile.
NeedsPayload(op, place) == op # "TileExists" /\ place.length > 0
RefusesEmpty(op, place) == op = "StreamTile" /\ place.length = 0

Deliver ==
  /\ call # Nothing
  /\ call.found.kind = "tile"
  /\ LET place == Place(call.found.entry)
     IN  \/ /\ ~RefusesEmpty(call.op, place)
            /\ Returns(call.op, call.tile_id, TRUE, place, FALSE)
         \/ /\ RefusesEmpty(call.op, place)
            /\ ReturnsFalse(FALSE)
         \/ /\ NeedsPayload(call.op, place)
            /\ ReturnsFalse(TRUE)
  /\ UNCHANGED <<open, root_dir, leaf_cache, leaf_cache_next>>

Step == TooManyHops \/ LeafHit \/ LeafMiss \/ NotFound \/ Deliver

Next == \/ Open
        \/ \E op \in Ops, tile_id \in TileIds : Locate(op, tile_id)
        \/ Step

Spec == Init /\ [][Next]_vars

\* A call is ordinary sequential code: once entered it keeps running.
FairSpec == Spec /\ WF_vars(Step)

-----------------------------------------------------------------------------
TypeOK ==
  /\ open \in BOOLEAN
  /\ root_dir \in {<<>>, ReadDirectory(Root)}
  /\ leaf_cache \in [Slots -> [valid : BOOLEAN, key : Keys \cup {<<0, 0>>},
                               bytes : {Leaves[k] : k \in Keys} \cup {NoBytes}]]
  /\ leaf_cache_next \in Slots
  /\ \/ call = Nothing
     \/ call \in CallType
  /\ \/ reply = NoReply
     \/ reply \in ReplyType
  /\ faulted \in BOOLEAN

\* A valid slot holds the leaf its key names, whatever reads failed or threw
\* while it was being filled (LeafDirectoryBytes invalidates before it reads).
LeafCacheCoherent ==
  \A s \in Slots : leaf_cache[s].valid =>
    leaf_cache[s].key \in Keys /\ leaf_cache[s].bytes = Leaves[leaf_cache[s].key]

\* The two slots never hold one leaf twice, so a failed fill followed by a
\* retry does not waste the second slot.
NoLeafHeldTwice ==
  \A s, t \in Slots :
    s # t /\ leaf_cache[s].valid /\ leaf_cache[t].valid
      => leaf_cache[s].key # leaf_cache[t].key

\* An open reader searches the archive's whole root, also after an Open that
\* failed half way and another that succeeded; no call outlives open_.
OpenHasRoot ==
  /\ open => root_dir = ReadDirectory(Root)
  /\ call # Nothing => open

\* However a lookup reached its current hop (hit, miss, any cache history),
\* what it holds is a correct account of the tile it was asked for.
CallOnTrack ==
  call # Nothing => Accounts(call.found, call.tile_id, call.hops)

\* "caching changes speed, not observable results" (pmtiles.hpp:218): the
\* reader is an index without directories, hops or caches, and a past read
\* failure never shows in a later reply.
Index == INSTANCE TileIndex WITH
  Refuses <- RefusesEmpty,
  asked <- IF call = Nothing THEN Nothing
           ELSE [op |-> call.op, tile_id |-> call.tile_id]

ImplementsIndex == Index!IndexSpec

\* "Distinguish absence from failure with TileExists()" (pmtiles.hpp:114-115):
\* an open reader says no only of a tile the archive does not store.
TileExistsTellsAbsence ==
  open /\ reply # NoReply /\ reply.op = "TileExists" /\ ~reply.ok =>
    Archive[reply.tile_id] = Absent

\* Every lookup returns, on an archive whose leaves form a cycle too.
CallsReturn == (call # Nothing) ~> (call = Nothing)
=============================================================================
