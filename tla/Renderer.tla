------------------------------ MODULE Renderer ------------------------------
(***************************************************************************)
(* What is drawn of a feature (src/src/render/renderer.cpp) under a style  *)
(* (style.cpp).  A drawing is a sequence of calls on the render target; a  *)
(* failed one is NoDrawing.  A style maps each kind to its rule.           *)
(***************************************************************************)
EXTENDS MapView

Seqs == INSTANCE SequencesExt

Labels == {"label_primary", "label_secondary", "label_muted"}
NoDrawing == <<[op |-> "refused"]>>

ResolveFeatureStyle(kind, zoom, style) ==
  LET rule == style[kind]
  IN  [visible |-> rule.visible /\ zoom \in rule.min_zoom..rule.max_zoom,
       color |-> rule.color, width |-> rule.width]

\* A tile's local point on the screen; `map` is [origin, extent].
OnScreen(v, map, p) ==
  <<ProjectLocal(map.origin[1], v.width, v.zoom, p[1], map.extent),
    ProjectLocal(map.origin[2], v.height, v.zoom, p[2], map.extent)>>

\* Of a polygon the first ring alone is filled; a ring of two points is not.
RenderOneFeature(f, map, v, style) ==
  LET paint == ResolveFeatureStyle(f.kind, v.zoom, style)
      paths == [i \in DOMAIN f.paths |-> [j \in DOMAIN f.paths[i] |-> OnScreen(v, map, f.paths[i][j])]]
      points(path) == [j \in DOMAIN path |-> [op |-> "pixel", at |-> <<path[j]>>, paint |-> paint]]
      lines(path) == [j \in 1..Len(path) - 1 |->
                        [op |-> "line", at |-> <<path[j], path[j + 1]>>, paint |-> paint]]
  IN  IF ~f.kind_assigned \/ f.kind \in Labels \/ ~paint.visible THEN <<>>
      ELSE CASE f.type = "point" -> Seqs!FlattenSeq([i \in DOMAIN paths |-> points(paths[i])])
             [] f.type = "line" -> Seqs!FlattenSeq([i \in DOMAIN paths |-> lines(paths[i])])
             [] f.type = "polygon" /\ paths # <<>> /\ Len(paths[1]) >= 3 ->
                  <<[op |-> "polygon", at |-> paths[1], paint |-> paint]>>
             [] OTHER -> <<>>

ClearMapBackground(v, style) ==
  LET paint == ResolveFeatureStyle("background", v.zoom, style)
  IN  IF v.zoom \notin 0..MaxZoom THEN NoDrawing
      ELSE IF paint.visible THEN <<[op |-> "fill", at |-> <<>>, paint |-> paint]>> ELSE <<>>

TileMap(v, placement, extent) ==
  [origin |-> MakeTilePlacementScreenMap(v, placement), extent |-> extent]

Extent(f, default) == IF f.extent = 0 THEN default ELSE f.extent

\* One feature, mapped on its own: what a streaming frame calls.
RenderFeatureAt(f, placement, v, style, default) ==
  IF v.zoom \notin 0..MaxZoom \/ placement.z # v.zoom THEN NoDrawing
  ELSE RenderOneFeature(f, TileMap(v, placement, Extent(f, default)), v, style)

\* Mutant: the map prepared for the first feature serves them all.
PrepareOnce(map, v, placement, extent) ==
  IF map.extent = 0 THEN TileMap(v, placement, extent) ELSE map

\* The map of the feature before is kept while the extent is the same.
Prepare(map, v, placement, extent) ==
  IF map.extent = extent THEN map ELSE TileMap(v, placement, extent)

\* One feature more, over the map kept.
RenderNext(acc, f, placement, v, style, default) ==
  LET map == Prepare(acc.map, v, placement, Extent(f, default))
  IN  [map |-> map, drawn |-> acc.drawn \o RenderOneFeature(f, map, v, style)]

NothingDrawn == [map |-> [origin |-> <<0, 0>>, extent |-> 0], drawn |-> <<>>]

RenderFeatureTileAt(features, placement, v, style, default) ==
  IF v.zoom \notin 0..MaxZoom \/ placement.z # v.zoom THEN NoDrawing
  ELSE Seqs!FoldLeft(LAMBDA acc, f : RenderNext(acc, f, placement, v, style, default),
                     NothingDrawn, features).drawn

\* At the world copy nearest to the centre.
RenderFeatureTile(features, tile, v, style, default) ==
  IF tile.z # v.zoom THEN NoDrawing
  ELSE RenderFeatureTileAt(features, NearestTilePlacement(v, tile), v, style, default)

-----------------------------------------------------------------------------
\* A tile drawn whole, over one kept map, is its features drawn one by one as
\* the streaming frame draws them, extents mixed or not (renderer.cpp:134).
TileIsItsFeatures(features, placement, v, style, default) ==
  LET each(i) == RenderFeatureAt(features[i], placement, v, style, default)
      whole == RenderFeatureTileAt(features, placement, v, style, default)
  IN  IF \E i \in DOMAIN features : each(i) = NoDrawing THEN whole = NoDrawing
      ELSE features # <<>> => whole = Seqs!FlattenSeq([i \in DOMAIN features |-> each(i)])
=============================================================================
