----------------------------- MODULE MCPackCard -----------------------------
(* Two packs of a region and one of another, built in place or staged; two *)
(* levels of the world overview; an archive given its sidecars later.      *)
EXTENDS PackCard

Home == <<"home">>
HomeV2 == <<"home", "v2">>
Alps == <<"alps">>
World8 == <<"world-overview-z8">>
World6 == <<"world-overview-z6">>

\* In std::sort's order of "<stem>.manifest.json".
MCSortedStems == <<Alps, Partial(Alps), Home, Partial(Home), HomeV2, Partial(HomeV2),
                   World6, Partial(World6), World8, Partial(World8)>>

MCSizeOf(area) == CASE area = "near" -> 1 [] area = "far" -> 2
                    [] area = "overview" -> 3 [] area = "coarse" -> 4

Run(tool, name, area, dir, dest, force) ==
  [tool |-> tool, outputs |-> <<[name |-> name, area |-> area]>>, region |-> name,
   valid |-> TRUE, dir |-> dir, dest |-> dest, force |-> force, existing |-> FALSE]

InPlace(name, force) ==
  {Run("provision", name, area, "card", "card", force) : area \in {"near", "far"}}
Staged(name, force) ==
  {Run("provision", name, area, "work", "card", force) : area \in {"near", "far"}}

\* build_regional_pack.py, whose region and schema are the user's to name.
Regional == {[Run("regional", Alps, "near", "card", "none", FALSE) EXCEPT !.region = Home],
             [Run("regional", Alps, "far", "card", "none", TRUE) EXCEPT !.valid = FALSE]}

World(force) ==
  [Run("world", World8, "overview", "card", "none", force) EXCEPT
     !.outputs = <<[name |-> World8, area |-> "overview"], [name |-> World6, area |-> "coarse"]>>]
Finalized(force) ==
  [Run("regional", Home, "near", "card", "none", force) EXCEPT
     !.region = HomeV2, !.existing = TRUE]

AllRequests ==
  InPlace(Home, FALSE) \cup Regional
  \cup {World(FALSE), World(TRUE), Finalized(FALSE),
        Run("provision", Home, "far", "card", "card", TRUE),
        Run("provision", Home, "near", "work", "card", TRUE),
        Run("provision", Alps, "far", "work", "card", FALSE)}
StagedRequests == InPlace(Home, FALSE) \cup Staged(Home, FALSE)
DottedRequests == InPlace(HomeV2, FALSE)
=============================================================================
