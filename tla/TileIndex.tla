----------------------------- MODULE TileIndex -----------------------------
(***************************************************************************)
(* What an archive reader promises its caller, without directories, hops   *)
(* or caches (include/orcmap/pmtiles.hpp, the public half of               *)
(* PmTilesReader): one question at a time about one tile, one reply to it. *)
(* A reply that delivers is exact.  A reply that refuses is exact too      *)
(* unless the medium failed while that very question was being answered:   *)
(* no earlier failure and no earlier question may show.                    *)
(***************************************************************************)
CONSTANTS
  TileIds,   \* the tile ids that can be asked for
  Archive,   \* where the archive stores each id, or Absent
  Ops,       \* the public operations that look a tile up
  Refuses(_, _),  \* Refuses(op, place): op refuses a tile stored at this place
  Absent, NoReply, Nothing

VARIABLES
  open,      \* IsOpen()
  asked,     \* the question being answered, or Nothing
  reply,     \* the last answer
  faulted    \* the medium failed during the last question

indexVars == <<open, asked, reply, faulted>>

Question == [op : Ops, tile_id : TileIds]
Exact(q) == [op |-> q.op, tile_id |-> q.tile_id, ok |-> TRUE,
             at |-> Archive[q.tile_id]]
Refusal(q) == [op |-> q.op, tile_id |-> q.tile_id, ok |-> FALSE, at |-> Absent]

\* The answers the promise allows.
Allowed(q, fault) ==
  LET stored == Archive[q.tile_id] # Absent
      refused == Refuses(q.op, Archive[q.tile_id])
  IN  {r \in {Exact(q), Refusal(q)} :
         IF r.ok THEN stored /\ ~refused ELSE fault \/ ~stored \/ refused}

IndexInit == /\ open = FALSE
             /\ asked = Nothing
             /\ reply = NoReply
             /\ faulted = FALSE

\* Open() may fail, and a closed reader stays usable for another try.
OpenOrNot == /\ asked = Nothing
             /\ open' \in BOOLEAN
             /\ reply' = NoReply
             /\ faulted' = FALSE
             /\ UNCHANGED asked

Ask == /\ asked = Nothing
       /\ open
       /\ asked' \in Question
       /\ reply' = NoReply
       /\ faulted' = FALSE
       /\ UNCHANGED open

\* A reader that is not open refuses at once.
AskClosed == /\ asked = Nothing
             /\ ~open
             /\ reply' \in {Refusal(q) : q \in Question}
             /\ faulted' = FALSE
             /\ UNCHANGED <<open, asked>>

Answer == /\ asked # Nothing
          /\ faulted' \in BOOLEAN
          /\ reply' \in Allowed(asked, faulted')
          /\ asked' = Nothing
          /\ UNCHANGED open

IndexNext == OpenOrNot \/ Ask \/ AskClosed \/ Answer

IndexSpec == IndexInit /\ [][IndexNext]_indexVars
=============================================================================
