-------------------------- MODULE MCMeasuredFrame --------------------------
(* Screens that see a tile once, several tiles, and one tile twice; a tile   *)
(* that is not in the archive, one without features and two with some.       *)
EXTENDS MeasuredFrame

Seen(t, c) == [tile |-> t, column |-> c]
MCScreens == {<<>>, <<Seen("a", 0), Seen("b", 1), Seen("a", 2)>>, <<Seen("none", 0), Seen("a", 1)>>,
              <<Seen("empty", 0), Seen("b", 1)>>}
MCArchive == [t \in {"a", "b", "empty", "none"} |->
                CASE t = "a" -> 2 [] t = "b" -> 1 [] t = "empty" -> 0 [] t = "none" -> NoTile]
=============================================================================
