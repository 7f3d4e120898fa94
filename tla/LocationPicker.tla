--------------------------- MODULE LocationPicker ---------------------------
(***************************************************************************)
(* LocationPicker (src/src/core/location_picker.cpp): the selected point   *)
(* is the centre of a camera that drags, recentres, zooms and resets.      *)
(***************************************************************************)
EXTENDS MapView

CONSTANTS
  Screens,     \* the viewports Begin() may be given
  Coverages,   \* the bounds it may be given
  Limits,      \* the zooms of the installed data, [low, high] records
  Gestures     \* pixel distances a finger may travel on an axis

VARIABLES
  picker,  \* viewport_, bounds_, min_zoom_, max_zoom_, initial_center_, moved_
  ready    \* ready_

pickerVars == <<picker, ready>>

UsableBounds(b) ==
  ViewBounds(b) /\ b.min_lon < b.max_lon /\ b.min_lat < b.max_lat

ValidLimits(l) == l.low \in 0..MaxZoom /\ l.high \in 0..MaxZoom /\ l.low <= l.high

SpansWorld(b) == b.max_lon - b.min_lon >= World

\* The floor of the zoom range, which is also the opening zoom; its ceiling is
\* the data's deepest zoom.
LocationPickerZoomRange(v, b, l) ==
  LET fill == IF SpansWorld(b) THEN WorldViewZoom(v) ELSE MinFillZoom(v, b)
  IN  IF fill = NoZoom THEN l.low ELSE Clamp(fill, l.low, l.high)

\* Opens centred on the mean of the bounds, in degrees.
Opened(v, b, l) ==
  LET floor == LocationPickerZoomRange(v, b, l)
      x == LonToX((b.min_lon + b.max_lon) \div 2)
      view == SetCenter(SetZoom(v, floor), x, LatToY(MeanLat(b.min_lat, b.max_lat)))
  IN  [view |-> view, bounds |-> b, limits |-> l, min_zoom |-> floor, max_zoom |-> l.high,
       initial_center |-> <<view.x, view.y>>, moved |-> FALSE]

\* Begin() on anything unusable leaves a picker that answers false to all.
Begin(v, b, l) ==
  LET usable == UsableBounds(b) /\ ValidLimits(l)
  IN  /\ ready' = usable
      /\ picker' = IF usable THEN Opened(v, b, l) ELSE [picker EXCEPT !.moved = FALSE]

\* Mutant: a drag along the rows alone is not counted as a move.
DragCountsX(dx, dy) ==
  /\ ready
  /\ picker' = [picker EXCEPT !.view = PanByPixels(@, -dx, -dy), !.moved = @ \/ dx # 0]
  /\ UNCHANGED ready

\* The map moves with the finger, the camera against it.
DragByGesture(dx, dy) ==
  /\ ready
  /\ picker' = [picker EXCEPT !.view = PanByPixels(@, -dx, -dy), !.moved = TRUE]
  /\ UNCHANGED ready

RecenterAtScreen(sx, sy) ==
  /\ ready
  /\ LET p == ScreenToLatLon(picker.view, sx, sy)
     IN  picker' = [picker EXCEPT !.view = SetCenter(@, p[1], p[2]), !.moved = TRUE]
  /\ UNCHANGED ready

\* A target that clamps to the current zoom changes nothing.
ApplyZoom(target) ==
  /\ ready
  /\ picker' = [picker EXCEPT !.view = SetZoom(@, Clamp(target, picker.min_zoom, picker.max_zoom))]
  /\ UNCHANGED ready

Reset ==
  /\ ready
  /\ picker' = [picker EXCEPT
       !.view = SetCenter(SetZoom(@, picker.min_zoom),
                          picker.initial_center[1], picker.initial_center[2]),
       !.moved = FALSE]
  /\ UNCHANGED ready

PickerInit == ready = FALSE /\ picker = [moved |-> FALSE]

PickerNext ==
  \/ \E v \in Screens, b \in Coverages, l \in Limits : Begin(v, b, l)
  \/ \E dx, dy \in Gestures : DragByGesture(dx, dy)
  \/ ready /\ \E sx \in 0..picker.view.width, sy \in 0..picker.view.height : RecenterAtScreen(sx, sy)
  \/ ready /\ \E step \in {-1, 1} : ApplyZoom(picker.view.zoom + step)
  \/ Reset

-----------------------------------------------------------------------------
\* Whatever was dragged, recentred and zoomed, the zoom stays within the data
\* and no shallower than its first zoom at which the coverage fills the screen,
\* when it has one (location_picker.hpp:26), and a picker that says nothing was
\* chosen still selects its opening point (hpp:78): no zoom, and no reset,
\* moves a selection.  Coverage around the world is taken for the whole world.
SelectionIsDeliberate ==
  ready =>
    LET v == picker.view
        filling == {z \in picker.limits.low..picker.limits.high : Fills(v, picker.bounds, z)}
    IN  /\ v.zoom \in picker.limits.low..picker.limits.high
        /\ ~SpansWorld(picker.bounds) /\ filling # {} =>
             v.zoom \in filling /\ picker.min_zoom = Shallowest(filling)
        /\ ~picker.moved => <<v.x, v.y>> = picker.initial_center
=============================================================================
