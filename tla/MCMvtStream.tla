---------------------------- MODULE MCMvtStream ----------------------------
(***************************************************************************)
(* Tiles whose layers emit features before their tables, as the packs do:  *)
(* an excluded layer between two wanted ones, a dense feature first or     *)
(* last, a foreign top-level field, an unnamed and an unreadable layer, one*)
(* that is named twice and one that the payload ends in.                   *)
(***************************************************************************)
EXTENDS MvtStream

Layer(n) == [k |-> "layer", len |-> n]
Name(wanted) == [k |-> "name", included |-> wanted]
Table == [k |-> "table"]
Other == [k |-> "other"]
Bad == [k |-> "bad"]
Feature(rings, bytes) == [k |-> "feature", rings |-> rings, bytes |-> bytes]

Small == Feature(<<2, 1>>, 1)
Dense == Feature(<<1, 4>>, 5)
Huge == Feature(<<9>>, 9)

DenseFirst == <<Layer(5), Dense, Small, Name(TRUE), Table, Table,
                Layer(3), Small, Name(FALSE), Table,
                Layer(2), Name(TRUE), Small>>
DenseLast == <<Other, Layer(4), Name(TRUE), Small, Table, Other,
               Layer(3), Name(TRUE), Dense, Table>>
Malformed == <<Layer(2), Small, Name(TRUE), Layer(2), Small, Table>>
Unreadable == <<Layer(3), Name(TRUE), Small, Bad>>
Stray == <<Layer(2), Small, Name(TRUE), Bad>>
TooLarge == <<Layer(3), Name(TRUE), Small, Huge>>

Renamed == <<Layer(4), Name(TRUE), Small, Table, Name(FALSE),
             Layer(3), Name(FALSE), Small, Name(TRUE)>>
Short == <<Layer(2), Name(TRUE), Small, Layer(3), Name(TRUE), Small>>

MCPayloads == {DenseFirst, DenseLast, Malformed, Unreadable, Stray, TooLarge, Renamed, Short}

\* Runs of inflated bytes that end exactly where a layer does.
RunsEndAtLayers(p) == {i - 1 : i \in LayerStarts(p) \ {1}}
=============================================================================
