-------------------------- MODULE MCPmTilesReader --------------------------
(***************************************************************************)
(* An archive with a run in the root, a leaf holding an empty tile, a leaf *)
(* inside a leaf, and a leaf that points at itself.  With the limit of 2,  *)
(* the chain of id 7 is as long as it may be.                              *)
(***************************************************************************)
EXTENDS PmTilesReader

MCTileIds == {0, 2, 3, 4, 6, 7, 9}

MCRoot == [deltas  |-> <<0, 2, 4, 3>>, runs    |-> <<2, 0, 0, 0>>,
           lengths |-> <<5, 3, 4, 2>>, offsets |-> <<1, 1, 0, 0>>]

MCLeaves ==
  LET key == {<<100, 3>>, <<103, 4>>, <<107, 2>>, <<120, 2>>}
  IN  [k \in key |->
         CASE k[1] = 100 -> [deltas  |-> <<2, 2>>, runs    |-> <<1, 1>>,
                             lengths |-> <<2, 0>>, offsets |-> <<11, 0>>]
           [] k[1] = 103 -> [deltas  |-> <<6, 1>>, runs    |-> <<1, 0>>,
                             lengths |-> <<1, 2>>, offsets |-> <<31, 21>>]
           [] k[1] = 107 -> [deltas  |-> <<9>>, runs    |-> <<0>>,
                             lengths |-> <<2>>, offsets |-> <<8>>]
           [] k[1] = 120 -> [deltas  |-> <<7>>, runs    |-> <<2>>,
                             lengths |-> <<6>>, offsets |-> <<41>>]]

\* Written out by hand: what a reader of this archive must be told.
MCArchive ==
  [id \in MCTileIds |->
     CASE id = 0 -> [offset |-> 200, length |-> 5]
       [] id = 2 -> [offset |-> 210, length |-> 2]
       [] id = 4 -> [offset |-> 212, length |-> 0]
       [] id = 6 -> [offset |-> 230, length |-> 1]
       [] id = 7 -> [offset |-> 240, length |-> 6]
       [] OTHER  -> Absent]

\* The leaves that answer for each id, hop by hop.
MCServes ==
  [hop \in 1..MaxLeafHops |->
     IF hop = 1
     THEN ({<<100, 3>>} \X {2, 3, 4}) \cup ({<<103, 4>>} \X {6, 7})
          \cup {<<<<107, 2>>, 9>>}
     ELSE {<<<<107, 2>>, 9>>} \cup (IF hop = 2 THEN {<<<<120, 2>>, 7>>} ELSE {})]

=============================================================================
