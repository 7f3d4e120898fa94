------------------------------ MODULE MapDemo ------------------------------
(***************************************************************************)
(* The demo applications: the Tab5 (examples/m5stack-tab5), a map to drag  *)
(* and zoom that draws into a canvas and presents it, and the CYD          *)
(* (examples/esp32-cyd-35), which frames one view after another and draws  *)
(* straight to the panel.  Both open the packs that discovery found,       *)
(* choose one for every frame, and may run scenarios and a sweep over the  *)
(* zooms.  One step is one turn of the touch loop or one measured frame.   *)
(* The pipeline that draws a frame is MeasuredFrame.                       *)
(***************************************************************************)
EXTENDS MapView

CONSTANTS
  Catalogs,       \* what discovery may leave in the catalogue, sequences of packs
  Boards,         \* "tab5", "cyd"
  Width, Height,  \* of the map area, by board
  FitPadding,     \* kFitPaddingPx, by board
  Threshold,      \* kDragThresholdPx
  Drags,          \* the offsets <<dx, dy>> a finger may be dragged to
  SweepScreens,   \* kSweepScreens
  Scenarios,      \* the Tab5's, [region, x, y, zoom] records in order
  NoPack

VARIABLES
  board, build,  \* "plain", "scenarios" or "autosweep"
  phase,         \* "off", "booted", "live" or "failed"
  packs,         \* g_catalog
  sources,       \* g_sources: the packs whose archive opened
  floor,         \* g_zoom_floor
  view,          \* g_viewport
  source,        \* [active, unavailable, partial]: g_active, g_detail_unavailable and
                 \* g_partial_coverage, which only the Tab5 has
  style,         \* g_style
  info,          \* g_show_info
  canvas,        \* the frame drawn last, [view, style, pack, partial]
  panel,         \* what is on the panel: a frame, displaced
  touch,         \* [down, press, dx, dy]: dragging, where it began, last_dx, last_dy
  todo,          \* the measured frames still to come
  saved          \* [view, active]: the camera and active source that a measurement
                 \* must put back; between measurements, the ones there are

booting == <<board, build, packs, sources, floor>>
vars == <<board, build, phase, packs, sources, floor, view, source, style, info, canvas, panel,
          touch, todo, saved>>

Catalog == INSTANCE PackCatalog WITH
  Manifests <- {}, MaxLon <- HalfWorld, MaxLat <- HalfWorld, Requests <- {}

Seqs == INSTANCE SequencesExt

\* Discovery leaves packs that the catalogue has validated.
ASSUME DemoAssumption ==
  /\ \A c \in Catalogs : /\ c \in Seq(Seqs!ToSet(c))
                         /\ \A i \in DOMAIN c : Catalog!Valid(c[i]) /\ c[i] # NoPack
  /\ \A b \in Boards : Width[b] \in Nat /\ Height[b] \in Nat /\ FitPadding[b] \in Nat
  /\ SweepScreens \in Nat /\ Drags \subseteq Int \X Int
  /\ Scenarios \in Seq([region : STRING, x : Int, y : Int, zoom : Nat])

-----------------------------------------------------------------------------
(* Choosing a pack.                                                        *)

\* A pack whose archive could not be opened has no source.
SourceForManifest(p) == IF \E i \in DOMAIN sources : sources[i] = p THEN p ELSE NoPack

Span(p) == p.bounds.max_lon - p.bounds.min_lon

\* The first with the largest span.  The search starts below 0: a pack across
\* the antimeridian, whose span comes out negative, is never found.
WidestSource ==
  Seqs!FoldLeft(LAMBDA best, p : IF Span(p) > (IF best = NoPack THEN -1 ELSE Span(best)) THEN p ELSE best,
                NoPack, sources)

DeepestSource ==
  Seqs!FoldLeft(LAMBDA best, p : IF best = NoPack \/ p.max_zoom > best.max_zoom THEN p ELSE best,
                NoPack, sources)

\* Boxes as they stand: neither is split at the antimeridian.
BoundsOverlap(a, b) ==
  /\ a.min_lon <= b.max_lon /\ a.max_lon >= b.min_lon
  /\ a.min_lat <= b.max_lat /\ a.max_lat >= b.min_lat

\* The fallback is chosen in the catalogue, before its archive is looked for.
BestOverlap(catalog, visible, zoom) ==
  LET some(p) == zoom \in p.min_zoom..p.max_zoom /\ BoundsOverlap(p.bounds, visible)
  IN  Seqs!FoldLeft(LAMBDA best, p : IF some(p) /\ (best = NoPack \/ p.priority > best.priority)
                                     THEN p ELSE best,
                    NoPack, catalog)

\* Mutant: what overlaps is taken for what covers.
ResolveOverlapAsCover(v, current) ==
  LET some == SourceForManifest(BestOverlap(packs, GetVisibleBounds(v), v.zoom))
  IN  [active |-> IF some = NoPack THEN current ELSE some, unavailable |-> some = NoPack,
       partial |-> FALSE]

\* Without any pack the active one stays what it was.  The CYD draws what only
\* overlaps without telling so.
ResolveActiveSource(v, current) ==
  LET visible == GetVisibleBounds(v)
      covering == SourceForManifest(Catalog!ResolvePack(packs, visible, v.zoom))
      some == SourceForManifest(BestOverlap(packs, visible, v.zoom))
  IN  IF covering # NoPack THEN [active |-> covering, unavailable |-> FALSE, partial |-> FALSE]
      ELSE IF some # NoPack THEN [active |-> some, unavailable |-> FALSE, partial |-> board = "tab5"]
      ELSE [active |-> current, unavailable |-> TRUE, partial |-> FALSE]

-----------------------------------------------------------------------------
(* Framing a pack.                                                         *)

SpansWholeWorld(p) == Span(p) >= World

FocusWorldView(v, p) ==
  SetCenter(SetZoom(v, Clamp(WorldViewZoom(v), p.min_zoom, p.max_zoom)), HalfWorld, HalfWorld)

CanFocus(v, p) ==
  \/ SpansWholeWorld(p) /\ WorldViewZoom(v) # NoZoom
  \/ CanFill(v, p.bounds) \/ CanFit(v, p.bounds, FitPadding[board])

\* The pack's own zooms are looked at for a pack around the world only.
FocusPack(v, p) ==
  IF SpansWholeWorld(p) /\ WorldViewZoom(v) # NoZoom THEN FocusWorldView(v, p)
  ELSE IF CanFill(v, p.bounds) THEN FillBounds(v, p.bounds)
  ELSE IF CanFit(v, p.bounds, FitPadding[board]) THEN FitBounds(v, p.bounds, FitPadding[board])
  ELSE v

\* Mutant: a fill deeper than the pack is kept.
FloorBeyondData(v, catalog) ==
  LET fills == {MinFillZoom(v, catalog[i].bounds) : i \in DOMAIN catalog} \ {NoZoom}
  IN  IF fills = {} THEN 0 ELSE Shallowest(fills)

\* The shallowest zoom at which some pack both fills the screen and has data.
RecomputeZoomFloor(v, catalog) ==
  LET fill(p) == MinFillZoom(v, p.bounds)
      fills == {IF fill(p) < p.min_zoom THEN p.min_zoom ELSE fill(p) :
                  p \in {q \in Seqs!ToSet(catalog) : fill(q) <= q.max_zoom}}
  IN  IF fills = {} THEN 0 ELSE Shallowest(fills)

-----------------------------------------------------------------------------
(* Drawing.                                                                *)

NoFrame == [view |-> view, style |-> style, pack |-> NoPack, partial |-> FALSE]

\* The frame that RenderMapFrame draws for v: a message when nothing covers it.
Frame(v, st, s) ==
  [view |-> v, style |-> st, pack |-> IF s.unavailable THEN NoPack ELSE s.active,
   partial |-> s.partial]

RenderMapFrame(v, st, current) ==
  LET s == ResolveActiveSource(v, current)
  IN  source' = s /\ canvas' = Frame(v, st, s)

Present(f) == panel' = [frame |-> f, dx |-> 0, dy |-> 0]

\* The Tab5's Redraw; the CYD, which has no canvas, draws on the panel itself.
Redraw(v, st, current) == RenderMapFrame(v, st, current) /\ Present(canvas')

-----------------------------------------------------------------------------
(* Measurements: what a sweep and the scenarios will draw, in order.       *)

Remember == saved' = [view |-> view', active |-> source'.active]

\* A level: the zoom, then screens to the east and as many back.
SweepAtZoom(z) ==
  <<[op |-> "level", zoom |-> z]>>
    \o [i \in 1..SweepScreens |-> [op |-> "pan", by |-> 1]]
    \o [i \in 1..SweepScreens |-> [op |-> "pan", by |-> -1]]

\* From the deepest zoom of any source to the floor, and up again.
RunZoomPanSweep ==
  LET deepest == IF DeepestSource # NoPack /\ DeepestSource.max_zoom > floor
                 THEN DeepestSource.max_zoom ELSE floor
      levels == deepest - floor + 1
  IN  Seqs!FlattenSeq([i \in 1..2 * levels |->
        SweepAtZoom(IF i <= levels THEN deepest + 1 - i ELSE floor + i - levels - 1)])
      \o <<[op |-> "restore"]>>

RunBenchmarks ==
  [i \in 1..Len(Scenarios) |-> [op |-> "scenario", of |-> Scenarios[i]]] \o <<[op |-> "redraw"]>>

\* The CYD's: every source in its own framing.
RunScenarios == [i \in 1..Len(sources) |-> [op |-> "framing", pack |-> sources[i]]]

\* What the CYD does once it is up.
CydPlan ==
  (IF build = "plain" THEN <<>> ELSE RunScenarios)
    \o (IF build = "autosweep" THEN Seqs!Front(RunZoomPanSweep) ELSE <<>>)
    \o <<[op |-> "final"]>>

-----------------------------------------------------------------------------
(* Boot.                                                                   *)

NoTouch == [down |-> FALSE, press |-> "map", dx |-> 0, dy |-> 0]

Init ==
  /\ board \in Boards /\ build \in {"plain", "scenarios", "autosweep"}
  /\ board = "tab5" => build # "scenarios"
  /\ phase = "off" /\ packs = <<>> /\ sources = <<>> /\ floor = 0
  /\ view = [x |-> HalfWorld, y |-> HalfWorld, zoom |-> 0,
             width |-> Width[board], height |-> Height[board]]
  /\ source = [active |-> NoPack, unavailable |-> FALSE, partial |-> FALSE]
  /\ style = "dark" /\ info = FALSE /\ touch = NoTouch /\ todo = <<>>
  /\ saved = [view |-> view, active |-> NoPack]
  /\ canvas = NoFrame
  /\ panel = [frame |-> NoFrame, dx |-> 0, dy |-> 0]

\* No display, memory, card or directory to work with.
BootFails == phase = "off" /\ phase' = "failed" /\ UNCHANGED <<booting, view, source, style, info, canvas, panel, touch, todo, saved>>

\* The packs whose archive opens, in the catalogue's order.
OpenSources(catalog, readable) ==
  LET opened[n \in 0..Len(catalog)] ==
        IF n = 0 THEN <<>>
        ELSE IF catalog[n].pack_id \in readable THEN Append(opened[n - 1], catalog[n])
        ELSE opened[n - 1]
  IN  opened[Len(catalog)]

\* Discovery, and a reader for every archive that opens; with none of either
\* the application stops at a message.
Boot ==
  /\ phase = "off"
  /\ packs' \in Catalogs
  /\ \E readable \in SUBSET {packs'[i].pack_id : i \in DOMAIN packs'} :
       sources' = OpenSources(packs', readable)
  /\ phase' = IF sources' = <<>> THEN "failed" ELSE "booted"
  /\ floor' = RecomputeZoomFloor(view, packs')
  /\ UNCHANGED <<board, build, view, source, style, info, canvas, panel, touch, todo, saved>>

\* The opening view: the widest source.
OpenTab5 ==
  /\ phase = "booted" /\ board = "tab5"
  /\ phase' = "live"
  /\ view' = IF WidestSource # NoPack /\ CanFocus(view, WidestSource)
             THEN FocusPack(view, WidestSource)
             ELSE SetZoom(SetCenter(view, HalfWorld, HalfWorld), floor)
  /\ Redraw(view', style, source.active)
  /\ todo' = IF build = "autosweep" THEN RunZoomPanSweep ELSE <<>>
  /\ Remember
  /\ UNCHANGED <<booting, style, info, touch>>

OpenCyd ==
  /\ phase = "booted" /\ board = "cyd"
  /\ phase' = "live"
  /\ view' = IF WidestSource # NoPack THEN FocusPack(view, WidestSource) ELSE view
  /\ Redraw(view', style, source.active)
  /\ todo' = CydPlan
  /\ Remember
  /\ UNCHANGED <<booting, style, info, touch>>

-----------------------------------------------------------------------------
(* Measured frames.                                                        *)

\* Every level starts from the middle of the deepest source.
Level ==
  /\ todo # <<>> /\ todo[1].op = "level"
  /\ LET b == DeepestSource.bounds
     IN  view' = SetCenter(SetZoom(view, todo[1].zoom), LonToX((b.min_lon + b.max_lon) \div 2),
                           LatToY(MeanLat(b.min_lat, b.max_lat)))
  /\ Redraw(view', style, source.active)
  /\ todo' = Tail(todo)
  /\ UNCHANGED <<booting, phase, style, info, touch, saved>>

PanScreen ==
  /\ todo # <<>> /\ todo[1].op = "pan"
  /\ view' = PanByPixels(view, todo[1].by * view.width, 0)
  /\ Redraw(view', style, source.active)
  /\ todo' = Tail(todo)
  /\ UNCHANGED <<booting, phase, style, info, touch, saved>>

\* A scenario of the Tab5 draws its pack, whatever it covers, into the canvas;
\* camera and source are put back.
Scenario ==
  /\ todo # <<>> /\ todo[1].op = "scenario"
  /\ LET s == todo[1].of
         of == Seqs!SelectInSeq(sources, LAMBDA p : p.region = s.region)
     IN  canvas' = IF of = 0 THEN canvas
                   ELSE [view |-> [view EXCEPT !.x = s.x, !.y = s.y, !.zoom = s.zoom],
                         style |-> style, pack |-> sources[of], partial |-> TRUE]
  /\ todo' = Tail(todo)
  /\ UNCHANGED <<booting, phase, view, source, style, info, panel, touch, saved>>

\* Mutant: the source stays the one of the sweep's last frame.
RestoreViewOnly ==
  /\ todo # <<>> /\ todo[1].op = "restore"
  /\ view' = saved.view
  /\ Redraw(view', style, source.active)
  /\ todo' = Tail(todo)
  /\ UNCHANGED <<booting, phase, style, info, touch, saved>>

\* The Tab5 after a sweep: the camera and the active source put back, and a
\* frame, for which the source is resolved anew.
Restore ==
  /\ todo # <<>> /\ todo[1].op = "restore"
  /\ view' = saved.view
  /\ Redraw(view', style, saved.active)
  /\ todo' = Tail(todo)
  /\ UNCHANGED <<booting, phase, style, info, touch, saved>>

\* Mutant: the canvas is presented as the last scenario left it.
PresentOnly ==
  /\ todo # <<>> /\ todo[1].op = "redraw"
  /\ Present(canvas)
  /\ todo' = Tail(todo)
  /\ UNCHANGED <<booting, phase, view, source, canvas, style, info, touch, saved>>

\* The Tab5 after the scenarios.
RedrawAfter ==
  /\ todo # <<>> /\ todo[1].op = "redraw"
  /\ Redraw(view, style, source.active)
  /\ todo' = Tail(todo)
  /\ UNCHANGED <<booting, phase, view, style, info, touch, saved>>

\* A scenario of the CYD: the pack it frames is the active one, covering or not,
\* so its frame too is one that claims nothing.
Framing ==
  /\ todo # <<>> /\ todo[1].op = "framing"
  /\ IF CanFocus(view, todo[1].pack)
     THEN /\ view' = FocusPack(view, todo[1].pack)
          /\ source' = [source EXCEPT !.active = todo[1].pack]
          /\ canvas' = [view |-> view', style |-> style, pack |-> todo[1].pack, partial |-> TRUE]
          /\ Present(canvas')
     ELSE UNCHANGED <<view, source, canvas, panel>>
  /\ todo' = Tail(todo)
  /\ UNCHANGED <<booting, phase, style, info, touch, saved>>

\* The CYD's last frame, which it holds.
FinalView ==
  /\ todo # <<>> /\ todo[1].op = "final"
  /\ view' = IF WidestSource # NoPack THEN FocusPack(view, WidestSource) ELSE view
  /\ Redraw(view', style, source.active)
  /\ todo' = Tail(todo)
  /\ UNCHANGED <<booting, phase, style, info, touch, saved>>

Measure ==
  Level \/ PanScreen \/ Scenario \/ Restore \/ RedrawAfter \/ Framing \/ FinalView

-----------------------------------------------------------------------------
(* The Tab5's touch loop.                                                  *)

Idle == phase = "live" /\ board = "tab5" /\ todo = <<>>

Buttons == {"World", "-", "+", "Detail", "Style", "Info", "Benchmarks", "Sweep"}

\* Mutant: the last offset survives into the next touch.
PressInPlace(where) ==
  /\ Idle /\ ~touch.down
  /\ touch' = [touch EXCEPT !.down = TRUE, !.press = where]
  /\ UNCHANGED <<booting, phase, view, source, style, info, canvas, panel, todo, saved>>

Press(where) ==
  /\ Idle /\ ~touch.down
  /\ touch' = [down |-> TRUE, press |-> where, dx |-> 0, dy |-> 0]
  /\ UNCHANGED <<booting, phase, view, source, style, info, canvas, panel, todo, saved>>

Beyond(dx, dy) ==
  dx > Threshold \/ -dx > Threshold \/ dy > Threshold \/ -dy > Threshold

\* The finished canvas is shown displaced; within the threshold nothing is.
Move(dx, dy) ==
  /\ Idle /\ touch.down /\ touch.press = "map"
  /\ Beyond(dx, dy) /\ <<dx, dy>> # <<touch.dx, touch.dy>>
  /\ panel' = [frame |-> canvas, dx |-> dx, dy |-> dy]
  /\ touch' = [touch EXCEPT !.dx = dx, !.dy = dy]
  /\ UNCHANGED <<booting, phase, view, source, style, info, canvas, todo, saved>>

Lift == Idle /\ touch.down /\ touch' = [touch EXCEPT !.down = FALSE, !.press = "map"]

\* The map has moved with the finger, so the camera moves the opposite way.
ReleaseDrag ==
  /\ Lift /\ Beyond(touch.dx, touch.dy)
  /\ view' = PanByPixels(view, -touch.dx, -touch.dy)
  /\ Redraw(view', style, source.active)
  /\ Remember
  /\ UNCHANGED <<booting, phase, style, info, todo>>

Tap(button) == Lift /\ ~Beyond(touch.dx, touch.dy) /\ touch.press = button

\* The map's own limits: no pack fills the screen below the floor, and the
\* active pack has no detail beyond its last zoom.
ActiveMaxZoom == IF source.active = NoPack THEN 7 ELSE source.active.max_zoom

TapZoom ==
  /\ \/ Tap("-") /\ view.zoom > floor /\ view' = ZoomOut(view)
     \/ Tap("+") /\ view.zoom < ActiveMaxZoom /\ view' = ZoomIn(view)
  /\ Redraw(view', style, source.active)
  /\ Remember
  /\ UNCHANGED <<booting, phase, style, info, todo>>

TapPack ==
  /\ \/ /\ Tap("World")
        /\ view' = IF WidestSource # NoPack THEN FocusPack(view, WidestSource)
                   ELSE SetCenter(SetZoom(view, floor), HalfWorld, HalfWorld)
     \/ Tap("Detail") /\ view' = FocusPack(view, DeepestSource)
  /\ Redraw(view', style, source.active)
  /\ Remember
  /\ UNCHANGED <<booting, phase, style, info, todo>>

TapStyle ==
  /\ Tap("Style")
  /\ style' = IF style = "dark" THEN "light" ELSE "dark"
  /\ Redraw(view, style', source.active)
  /\ UNCHANGED <<booting, phase, view, info, todo, saved>>

TapInfo ==
  /\ Tap("Info")
  /\ info' = ~info /\ Present(canvas)
  /\ UNCHANGED <<booting, phase, view, source, style, canvas, todo, saved>>

\* Both buttons are there while the panel of figures is.
TapMeasure ==
  /\ info
  /\ \/ Tap("Benchmarks") /\ todo' = RunBenchmarks /\ Present(NoFrame)
     \/ Tap("Sweep") /\ todo' = RunZoomPanSweep /\ UNCHANGED panel
  /\ UNCHANGED <<booting, phase, view, source, style, info, canvas>>
  /\ Remember

TapNothing ==
  /\ \/ Tap("map")
     \/ Tap("-") /\ view.zoom <= floor
     \/ Tap("+") /\ view.zoom >= ActiveMaxZoom
     \/ ~info /\ (Tap("Benchmarks") \/ Tap("Sweep"))
  /\ UNCHANGED <<booting, phase, view, source, style, info, canvas, panel, todo, saved>>

Next ==
  \/ BootFails \/ Boot \/ OpenTab5 \/ OpenCyd \/ Measure
  \/ \E where \in Buttons \cup {"map"} : Press(where)
  \/ \E d \in Drags : Move(d[1], d[2])
  \/ ReleaseDrag \/ TapZoom \/ TapPack \/ TapStyle \/ TapInfo \/ TapMeasure \/ TapNothing

Spec == Init /\ [][Next]_vars

\* A measurement is one call: it does not wait for anybody.
FairSpec == Spec /\ WF_vars(Measure)

-----------------------------------------------------------------------------
\* Whenever nothing is being measured, the panel shows the frame that drawing
\* the camera's view now would give, in the style chosen and from the pack that
\* would be chosen now, displaced by exactly what the finger has travelled:
\* after every tap, release, benchmark and sweep.
PanelShowsTheCamera ==
  phase = "live" /\ todo = <<>> =>
    panel = [frame |-> Frame(view, style, ResolveActiveSource(view, source.active)),
             dx |-> IF touch.down THEN touch.dx ELSE 0, dy |-> IF touch.down THEN touch.dy ELSE 0]

\* A frame comes from a pack that opened.  Unless the Tab5 says that coverage is
\* partial (the CYD cannot say so), that pack stores its zoom and has every point
\* of the screen that lies on the map; and a blank frame is drawn only where no
\* pack has any, as long as every archive opened and no box crosses the
\* antimeridian.  A pack that ends there is not found by a screen that begins
\* there.
FramesTellCoverage ==
  LET v == canvas.view
      seen == {ScreenToLatLon(v, sx, sy) : sx \in 0..v.width, sy \in 0..v.height}
      visible == GetVisibleBounds(v)
      crosses(b) == b.min_lon > b.max_lon
      serves(p) == v.zoom \in p.min_zoom..p.max_zoom
  IN  phase = "live" =>
        IF canvas.pack # NoPack
        THEN /\ canvas.pack \in Seqs!ToSet(sources)
             /\ board = "tab5" /\ ~canvas.partial =>
                  serves(canvas.pack) /\ \A q \in seen : InBounds(q, canvas.pack.bounds)
        ELSE sources = packs /\ ~crosses(visible) =>
               \A p \in Seqs!ToSet(packs) :
                 serves(p) /\ ~crosses(p.bounds) =>
                   \A q \in seen : q[1] # 0 => ~InBounds(q, p.bounds)

\* Below the floor no pack can fill the screen, however the user pans, and at
\* the floor one can, unless none can anywhere ("Below this zoom no installed
\* pack can cover 1280x600", Tab5 main.cpp:439).
FloorIsTight ==
  LET moved(x, y, z) == [view EXCEPT !.x = x, !.y = y, !.zoom = z]
      filled(z) == \E x \in 0..World - 1, y \in 0..World, p \in Seqs!ToSet(packs) :
                     z \in p.min_zoom..p.max_zoom /\ Inside(moved(x, y, z), p.bounds)
  IN  phase = "booted" =>
        /\ \A z \in 0..floor - 1 : ~filled(z)
        /\ filled(floor) \/ floor = 0

\* Lifting the finger does not make the map jump: what was in the middle of the
\* frame is then as far from the middle as the panel showed it, unless that
\* would take the camera off the map.
NothingJumps ==
  [][touch.down /\ ~touch'.down /\ view.zoom = view'.zoom /\ touch.press = "map"
     /\ view.y - panel.dy * Px(view.zoom) \in 0..World =>
       ProjectLatLon(view', <<view.x, view.y>>)
         = <<WrappedDelta(panel.dx * Px(view.zoom)), panel.dy * Px(view.zoom)>>]_vars

\* Every benchmark and sweep ends, with the camera where it was before and the
\* source active that was, even where the view resolves to none; on the CYD with
\* the opening view ("Always END on one finished view", main.cpp:767),
\* provided that some source can be the widest.
MeasurementsEnd ==
  (todo # <<>>) ~>
    /\ todo = <<>>
    /\ board = "tab5" => view = saved.view /\ source.active = saved.active
    /\ board = "cyd" => WidestSource = NoPack \/ view = saved.view

\* "Start on a real map" (Tab5 main.cpp:1083); "if the user only installed a
\* regional pack it is that one, and the demo still opens on a real map" (305).
OpensOnARealMap == [][phase = "booted" => canvas'.pack # NoPack]_vars
=============================================================================
