----------------------------- MODULE MCMapDemo -----------------------------
(* Cards with a world overview and regional packs, regional ones alone, one   *)
(* that fills no screen, one whose data end before it would, one across the    *)
(* antimeridian and one that starts deep, on both boards.  World = 32 units.   *)
EXTENDS MapDemo

Bounds(w, e, s, n) == [min_lon |-> w, max_lon |-> e, min_lat |-> s, max_lat |-> n]
Pack(id, region, b, low, high, priority) ==
  [pack_id |-> id, region |-> region, bounds |-> b, min_zoom |-> low, max_zoom |-> high,
   priority |-> priority, sound |-> TRUE]

Overview == Pack(1, "world", Bounds(-16, 16, -16, 16), 0, 1, 0)
Region == Pack(2, "springfield", Bounds(-10, 8, -8, 10), 1, 2, 5)
Deep == Pack(3, "oregon", Bounds(-16, 4, -12, 16), 2, 2, 3)
Small == Pack(4, "springfield", Bounds(2, 6, 1, 5), 0, 2, 5)
Shallow == Pack(6, "springfield", Bounds(-6, 6, -5, 6), 0, 1, 5)
Fiji == Pack(5, "fiji", Bounds(10, -8, -9, 3), 0, 2, 5)

MCCatalogs == {<<>>, <<Overview, Region>>, <<Deep, Overview>>, <<Small>>, <<Shallow>>, <<Region, Fiji>>}
RegionalOnly == {<<Shallow>>}

MCWidth == [tab5 |-> 6, cyd |-> 4]
MCHeight == [tab5 |-> 5, cyd |-> 4]
MCPadding == [tab5 |-> 1, cyd |-> 0]
MCDrags == {<<1, 1>>, <<4, 0>>, <<-4, -3>>}
MCScenarios == <<[region |-> "world", x |-> 16, y |-> 16, zoom |-> 0],
                 [region |-> "springfield", x |-> 14, y |-> 12, zoom |-> 2]>>
MCMeanLat(a, b) == LET m == (a + b) \div 2 IN IF m > 0 THEN m - 1 ELSE IF m < 0 THEN m + 1 ELSE m
=============================================================================
