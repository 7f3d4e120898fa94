------------------------------ MODULE MapView ------------------------------
(***************************************************************************)
(* The camera (src/src/core/viewport.cpp over geo.cpp): centre, zoom, what *)
(* is visible and which tiles paint it.                                    *)
(*                                                                         *)
(* One unit is half a screen pixel at the deepest zoom, so that half a     *)
(* screen is always a whole number of units.  x runs east from the         *)
(* antimeridian and wraps, y runs south and is clamped.  A bounds record   *)
(* has its longitudes and its latitudes in -HalfWorld..HalfWorld, already  *)
(* projected: latitude L is the row HalfWorld - L.  Degrees only matter    *)
(* where a caller averages them.                                           *)
(***************************************************************************)
EXTENDS Integers, Sequences, FiniteSets

CONSTANTS
  Tile,     \* tile_size_px
  MaxZoom,  \* kMaxZoom
  MeanLat(_, _)  \* the projected middle, in degrees, of two latitudes

ASSUME ViewAssumption == Tile \in Nat \ {0} /\ MaxZoom \in Nat

\* 2^n.
PowerOfTwo[n \in 0..MaxZoom + 1] == IF n = 0 THEN 1 ELSE 2 * PowerOfTwo[n - 1]

Px(z) == PowerOfTwo[MaxZoom - z + 1]   \* units per pixel at zoom z
World == Tile * Px(0)
HalfWorld == World \div 2

ASSUME MeanAssumption ==
  \A s, n \in -HalfWorld..HalfWorld : MeanLat(s, n) \in -HalfWorld..HalfWorld

Side(z) == Tile * Px(z)          \* units per tile

\* The entries of TilesPerAxis: 2^zoom.
TilesPerAxis(z) == PowerOfTwo[z]

Clamp(v, low, high) == IF v < low THEN low ELSE IF v > high THEN high ELSE v

WrapX(x) == x % World
ClampY(y) == Clamp(y, 0, World)
LonToX(lon) == WrapX(lon + HalfWorld)
LatToY(lat) == HalfWorld - lat

\* The tile of a point: y = World is still the last row.
LatLonToTile(x, y, z) ==
  <<x \div Side(z), Clamp(y \div Side(z), 0, TilesPerAxis(z) - 1)>>

-----------------------------------------------------------------------------
SetCenter(v, x, y) == [v EXCEPT !.x = WrapX(x), !.y = ClampY(y)]
SetZoom(v, z) == [v EXCEPT !.zoom = Clamp(z, 0, MaxZoom)]
ZoomIn(v) == SetZoom(v, v.zoom + 1)
ZoomOut(v) == SetZoom(v, v.zoom - 1)
SetViewportSize(v, w, h) == [v EXCEPT !.width = w, !.height = h]

\* Units from the centre of the screen to a screen column or row.
OffX(v, sx) == (2 * sx - v.width) * (Px(v.zoom) \div 2)
OffY(v, sy) == (2 * sy - v.height) * (Px(v.zoom) \div 2)

ScreenToLatLon(v, sx, sy) == <<WrapX(v.x + OffX(v, sx)), ClampY(v.y + OffY(v, sy))>>

\* The shortest way around the world, in [-HalfWorld, HalfWorld).
WrappedDelta(d) == ((d + HalfWorld) % World) - HalfWorld

\* In units from the screen's centre; p is <<x, y>>.
ProjectLatLon(v, p) == <<WrappedDelta(p[1] - v.x), p[2] - v.y>>

PanByPixels(v, dx, dy) ==
  SetCenter(v, v.x + dx * Px(v.zoom), v.y + dy * Px(v.zoom))

\* Mutant: the anchor is taken after the zoom changed.
ZoomAtCentre(v, sx, sy, delta) == SetZoom(v, v.zoom + delta)

ZoomAtScreenPoint(v, sx, sy, delta) ==
  LET anchor == ScreenToLatLon(v, sx, sy)
      zoomed == SetZoom(v, v.zoom + delta)
  IN  SetCenter(zoomed, anchor[1] - OffX(zoomed, sx), anchor[2] - OffY(zoomed, sy))

\* A screen as wide as the world sees every longitude; a narrower one may see
\* the antimeridian, and then its western bound is the larger.
GetVisibleBounds(v) ==
  LET nw == ScreenToLatLon(v, 0, 0)
      se == ScreenToLatLon(v, v.width, v.height)
      all == v.width * Px(v.zoom) >= World
  IN  [min_lon |-> IF all THEN -HalfWorld ELSE nw[1] - HalfWorld,
       max_lon |-> IF all THEN HalfWorld ELSE se[1] - HalfWorld,
       min_lat |-> LatToY(se[2]), max_lat |-> LatToY(nw[2])]

-----------------------------------------------------------------------------
ViewBounds(b) ==
  /\ {b.min_lon, b.max_lon, b.min_lat, b.max_lat} \subseteq -HalfWorld..HalfWorld
  /\ b.min_lat <= b.max_lat

LonSpan(b) == (b.max_lon - b.min_lon) + (IF b.max_lon < b.min_lon THEN World ELSE 0)
LatSpan(b) == b.max_lat - b.min_lat

CentreOn(v, b) ==
  SetCenter(v, LonToX(b.min_lon + LonSpan(b) \div 2),
               (LatToY(b.max_lat) + LatToY(b.min_lat)) \div 2)

Fits(v, b, z, padding) ==
  /\ LonSpan(b) <= (v.width - 2 * padding) * Px(z)
  /\ LatSpan(b) <= (v.height - 2 * padding) * Px(z)

CanFit(v, b, padding) ==
  ViewBounds(b) /\ v.width > 2 * padding /\ v.height > 2 * padding

\* The deepest zoom that shows all of b, or 0 when none does.
FitBounds(v, b, padding) ==
  LET zooms == {z \in 0..MaxZoom : Fits(v, b, z, padding)}
      best == IF zooms = {} THEN 0 ELSE CHOOSE z \in zooms : \A y \in zooms : y <= z
  IN  CentreOn(SetZoom(v, best), b)

\* Mutant: only the width is compared.
FillsAcross(v, b, z) == LonSpan(b) >= World \/ v.width * Px(z) <= LonSpan(b)

\* Bounds around the whole world fill any width.
Fills(v, b, z) ==
  /\ LonSpan(b) >= World \/ v.width * Px(z) <= LonSpan(b)
  /\ v.height * Px(z) <= LatSpan(b)

NoZoom == MaxZoom + 1   \* stands for a result of false

Shallowest(zooms) == IF zooms = {} THEN NoZoom ELSE CHOOSE z \in zooms : \A y \in zooms : z <= y

MinFillZoom(v, b) ==
  IF ViewBounds(b) THEN Shallowest({z \in 0..MaxZoom : Fills(v, b, z)}) ELSE NoZoom

WorldViewZoom(v) == Shallowest({z \in 0..MaxZoom : v.height * Px(z) <= World})

CanFill(v, b) == MinFillZoom(v, b) # NoZoom
FillBounds(v, b) == CentreOn(SetZoom(v, MinFillZoom(v, b)), b)

-----------------------------------------------------------------------------
CeilDiv(a, b) == -((-a) \div b)

\* The columns and rows of tiles whose [i, i+1) meets the screen; columns are
\* counted across copies of the world, rows only within it.
FirstColumn(v) == (v.x + OffX(v, 0)) \div Side(v.zoom)
LastColumn(v) == CeilDiv(v.x + OffX(v, v.width), Side(v.zoom)) - 1
Rows(v) ==
  LET first == (v.y + OffY(v, 0)) \div Side(v.zoom)
      last == CeilDiv(v.y + OffY(v, v.height), Side(v.zoom)) - 1
  IN  {r \in first..last : r \in 0..TilesPerAxis(v.zoom) - 1}

Placement(column, row, z) == [x |-> column % TilesPerAxis(z), y |-> row, z |-> z, column |-> column]

\* Mutant: the last column is dropped, as floor() in place of ceil() - 1 does.
PlacementsToFloor(v) ==
  {Placement(c, r, v.zoom) :
     c \in FirstColumn(v)..((v.x + OffX(v, v.width)) \div Side(v.zoom) - 1), r \in Rows(v)}

EnumerateVisibleTilePlacements(v) ==
  {Placement(c, r, v.zoom) : c \in FirstColumn(v)..LastColumn(v), r \in Rows(v)}

\* One world only: at most TilesPerAxis columns.  A sequence in the code; its
\* length is stated beside it so that a repeated tile would be seen.
ColumnsOnce(v) ==
  LET last == IF LastColumn(v) - FirstColumn(v) >= TilesPerAxis(v.zoom)
              THEN FirstColumn(v) + TilesPerAxis(v.zoom) - 1 ELSE LastColumn(v)
  IN  FirstColumn(v)..last
EnumerateVisibleTiles(v) ==
  {[x |-> c % TilesPerAxis(v.zoom), y |-> r, z |-> v.zoom] : c \in ColumnsOnce(v), r \in Rows(v)}

\* The copy of a tile whose left edge is nearest to the centre.
NearestTilePlacement(v, t) ==
  Placement((v.x + WrappedDelta(t.x * Side(v.zoom) - v.x)) \div Side(v.zoom), t.y, v.zoom)

\* A placement's top left corner, in units from the screen's centre.
MakeTilePlacementScreenMap(v, p) ==
  <<p.column * Side(v.zoom) - v.x, p.y * Side(v.zoom) - v.y>>

\* The same for a tile without a placement: its nearest copy.
MakeTileScreenMap(v, t) ==
  <<WrappedDelta(t.x * Side(v.zoom) - v.x), t.y * Side(v.zoom) - v.y>>

\* ProjectLocal over a tile of `extent` local units, rounded down; 0 is the
\* screen's left or top edge, in pixels.
ProjectLocal(origin, half, z, local, extent) ==
  (origin * extent + local * Side(z) + half * (Px(z) \div 2) * extent) \div (extent * Px(z))

-----------------------------------------------------------------------------
\* Every pixel on the map lies in exactly one placement, whose tile is the one
\* ScreenToLatLon finds there, and a pixel off the map in none, across the
\* antimeridian and when the screen is wider than the world; the tiles of
\* EnumerateVisibleTiles are those placed, and while two tiles of the world
\* stay off screen each is placed where RenderFeatureTile would draw it
\* (viewport.hpp, "nearest copy").
PlacementsPaintTheScreen(v) ==
  LET placed == EnumerateVisibleTilePlacements(v)
      under(sx, sy) ==
        LET left == v.x + OffX(v, sx)
            top == v.y + OffY(v, sy)
        IN  {p \in placed : /\ p.column * Side(v.zoom) <= left /\ left < (p.column + 1) * Side(v.zoom)
                            /\ p.y * Side(v.zoom) <= top /\ top < (p.y + 1) * Side(v.zoom)}
      tile(p) == [x |-> p.x, y |-> p.y, z |-> p.z]
  IN  /\ \A sx \in 0..v.width - 1, sy \in 0..v.height - 1 :
           LET here == under(sx, sy)
               p == ScreenToLatLon(v, sx, sy)
           IN  IF v.y + OffY(v, sy) \in 0..World - 1
               THEN \E only \in here : here = {only}
                      /\ <<only.x, only.y>> = LatLonToTile(p[1], p[2], v.zoom)
               ELSE here = {}
      /\ EnumerateVisibleTiles(v) = {tile(p) : p \in placed}
      /\ v.width * Px(v.zoom) + 2 * Side(v.zoom) <= World =>
           placed = {NearestTilePlacement(v, t) : t \in EnumerateVisibleTiles(v)}

\* Whether a point on the map lies in a box, east of its western bound.
InBounds(p, b) ==
  /\ p[2] \in LatToY(b.max_lat)..LatToY(b.min_lat)
  /\ WrapX(p[1] - LonToX(b.min_lon)) <= LonSpan(b)

\* Whether the whole screen shows the inside of a box.
Inside(v, b) ==
  /\ LatToY(b.max_lat) <= v.y + OffY(v, 0)
  /\ v.y + OffY(v, v.height) <= LatToY(b.min_lat)
  /\ \/ LonSpan(b) >= World
     \/ WrapX(v.x + OffX(v, 0) - LonToX(b.min_lon)) + v.width * Px(v.zoom) <= LonSpan(b)

\* A view that FillBounds made shows nothing outside the bounds, and no
\* shallower zoom could; one that FitBounds made shows all of them, and no
\* deeper zoom could.
FillLeavesNoMargin(v, b) ==
  LET filled == FillBounds(v, b)
      fitted == FitBounds(v, b, 0)
      around(u) == /\ u.y + OffY(u, 0) <= LatToY(b.max_lat)
                   /\ LatToY(b.min_lat) <= u.y + OffY(u, u.height)
                   /\ LonSpan(b) <= u.width * Px(u.zoom)
      at(z) == CentreOn(SetZoom(v, z), b)
  IN  /\ CanFill(v, b) => Inside(filled, b) /\ \A z \in 0..filled.zoom - 1 : ~Inside(at(z), b)
      /\ CanFit(v, b, 0) =>
           /\ \A z \in fitted.zoom + 1..MaxZoom : ~around(at(z))
           /\ around(fitted) \/ \A z \in 0..MaxZoom : ~around(at(z))

\* The point under the finger stays under it while the zoom changes and while
\* the camera is panned by what the point moved, unless a pole is reached.
AnchorStays(v, sx, sy, delta) ==
  LET zoomed == ZoomAtScreenPoint(v, sx, sy, delta)
      anchor == ScreenToLatLon(v, sx, sy)
      panned == PanByPixels(v, sx, sy)
      free(y) == y \in 0..World
  IN  /\ free(anchor[2] - OffY(zoomed, sy)) /\ free(v.y + OffY(v, sy)) =>
           ScreenToLatLon(zoomed, sx, sy) = anchor
      /\ free(v.y + sy * Px(v.zoom)) =>
           ProjectLatLon(panned, <<v.x, v.y>>)
             = <<WrappedDelta(-sx * Px(v.zoom)), -sy * Px(v.zoom)>>
=============================================================================
