--------------------------- MODULE MapDemoProofs ---------------------------
(***************************************************************************)
(* What the panel shows and where the map is after a touch, for any packs, *)
(* screens and drags.  The invariant says what a measurement must end      *)
(* with: its last frame is drawn from the camera and presented, whatever   *)
(* the frames before it left in the canvas.                                *)
(***************************************************************************)
EXTENDS MapDemo, LocationPicker, CommonLemmas, SequenceTheorems

Installed == UNION {Seqs!ToSet(c) : c \in Catalogs}
Cameras == [x : Int, y : Int, zoom : 0..MaxZoom, width : Nat, height : Nat]
Scenes == [region : STRING, x : Int, y : Int, zoom : Nat]
Finals == {"restore", "redraw", "final"}
Ops(framed) ==
  [op : {"level"}, zoom : Int] \cup [op : {"pan"}, by : {-1, 1}]
    \cup [op : {"scenario"}, of : Scenes] \cup [op : {"framing"}, pack : framed]
    \cup [op : Finals]

-----------------------------------------------------------------------------
(* The invariant.                                                          *)

Typed ==
  /\ board \in Boards
  /\ packs \in Seq(Installed) /\ sources \in Seq(Installed) /\ floor \in Nat
  /\ view \in Cameras /\ saved.view \in Cameras
  /\ touch \in [down : BOOLEAN, press : Buttons \cup {"map"}, dx : Int, dy : Int]
  /\ todo \in Seq(Ops(Seqs!ToSet(sources)))

\* Nothing is touched or measured before the map is up, and nothing is touched
\* during a measurement, which ends with a frame of the camera.
Phased ==
  /\ phase \in {"booted", "live"} => sources # <<>>
  /\ phase # "live" => todo = <<>> /\ ~touch.down
  /\ todo # <<>> => ~touch.down /\ todo[Len(todo)].op \in Finals

\* A finger that has not moved the map has no offset.
Dragged == touch.down /\ ~Beyond(touch.dx, touch.dy) => touch.dx = 0 /\ touch.dy = 0

Shown ==
  phase = "live" /\ todo = <<>> =>
    /\ canvas = Frame(view, style, ResolveActiveSource(view, source.active))
    /\ panel = [frame |-> canvas, dx |-> IF touch.down THEN touch.dx ELSE 0,
                dy |-> IF touch.down THEN touch.dy ELSE 0]

IInv == Typed /\ Phased /\ Dragged /\ Shown

-----------------------------------------------------------------------------
(* The camera stays a camera.                                              *)

LEMMA Powers ==
  /\ PowerOfTwo \in [0..MaxZoom + 1 -> Nat \ {0}]
  /\ PowerOfTwo[0] = 1
  /\ \A k \in 1..MaxZoom + 1 : PowerOfTwo[k] = 2 * PowerOfTwo[k - 1]
<1>1. MaxZoom + 1 \in Nat
  BY ViewAssumption
<1>2. PowerOfTwo = CHOOSE h : h = [k \in 0..MaxZoom + 1 |-> IF k = 0 THEN 1 ELSE 2 * h[k - 1]]
  BY DEF PowerOfTwo
<1> QED
  BY <1>1, <1>2, Doubling

\* A pixel is a whole number of units, twice as many a zoom further out, and so
\* is half of it.
LEMMA Sizes ==
  /\ \A z \in 0..MaxZoom : /\ Px(z) \in Nat \ {0} /\ Px(z) \div 2 \in Nat \ {0}
                           /\ Px(z) = 2 * (Px(z) \div 2)
  /\ World \in Nat \ {0} /\ HalfWorld \in Nat /\ World = 2 * HalfWorld
<1>1. ASSUME NEW z \in 0..MaxZoom
      PROVE  /\ Px(z) \in Nat \ {0} /\ Px(z) \div 2 \in Nat \ {0}
             /\ Px(z) = 2 * (Px(z) \div 2)
  <2> DEFINE k == MaxZoom - z + 1
  <2>1. k \in 1..MaxZoom + 1 /\ k \in 0..MaxZoom + 1 /\ k - 1 \in 0..MaxZoom + 1
    BY ViewAssumption
  <2>2. Px(z) = PowerOfTwo[k]
    BY DEF Px
  <2> HIDE DEF k
  <2>3. Px(z) \in Nat \ {0} /\ PowerOfTwo[k - 1] \in Nat \ {0} /\ Px(z) = 2 * PowerOfTwo[k - 1]
    BY <2>1, <2>2, Powers
  <2> QED
    BY <2>3
<1>2. World \in Nat \ {0} /\ World = 2 * HalfWorld
  <2>1. 0 \in 0..MaxZoom
    BY ViewAssumption
  <2>2. Px(0) \in Nat \ {0} /\ Tile \in Nat \ {0}
    BY <1>1, <2>1, ViewAssumption
  <2>3. PICK h \in Nat \ {0} : Px(0) = 2 * h
    BY <1>1, <2>1
  <2> HIDE DEF Px
  <2>4. \A a, b \in Nat \ {0} : a * b \in Nat \ {0} /\ a * (2 * b) = 2 * (a * b)
    OBVIOUS
  <2>5. PICK t \in Nat \ {0} : t = Tile * h
    BY <2>2, <2>3, <2>4
  <2>6. World = 2 * t
    BY <2>2, <2>3, <2>4, <2>5 DEF World
  <2> QED
    BY <2>6 DEF HalfWorld
<1>3. HalfWorld \in Nat
  BY <1>2 DEF HalfWorld
<1> QED
  BY <1>1, <1>2, <1>3

LEMMA PixelsShrink ==
  ASSUME NEW y \in 0..MaxZoom, NEW z \in 0..MaxZoom, y <= z
  PROVE  Px(z) <= Px(y)
<1> DEFINE T == {k \in 0..MaxZoom - y : Px(y + k) <= Px(y)}
<1>1. MaxZoom - y \in Nat /\ y \in Int
  BY ViewAssumption
<1>2. 0 \in T
  <2>1. y + 0 = y /\ 0 \in 0..MaxZoom - y
    BY <1>1
  <2>2. Px(y) <= Px(y)
    BY Sizes
  <2> QED
    BY <2>1, <2>2
<1>3. ASSUME NEW k \in 0..MaxZoom - y - 1, k \in T PROVE k + 1 \in T
  <2> DEFINE m == MaxZoom - (y + k) + 1
  <2>1. y + k \in 0..MaxZoom /\ y + (k + 1) \in 0..MaxZoom /\ m \in 1..MaxZoom + 1
        /\ MaxZoom - (y + (k + 1)) + 1 = m - 1 /\ k + 1 \in 0..MaxZoom - y
    BY ViewAssumption
  <2>2. Px(y + k) = PowerOfTwo[m] /\ Px(y + (k + 1)) = PowerOfTwo[m - 1]
    BY <2>1 DEF Px
  <2>3. Px(y + k) = 2 * Px(y + (k + 1))
    <3> HIDE DEF m
    <3> QED
      BY <2>1, <2>2, Powers
  <2>4. Px(y + k) \in Nat /\ Px(y + (k + 1)) \in Nat /\ Px(y) \in Nat
    BY <2>1, Sizes
  <2>5. Px(y + (k + 1)) <= Px(y)
    <3> HIDE DEF m
    <3>1. Px(y + k) <= Px(y)
      BY <1>3
    <3> QED
      BY <2>3, <2>4, <3>1
  <2> QED
    BY <2>1, <2>5
<1>4. \A k \in 0..MaxZoom - y : k \in T
  <2> DEFINE n == MaxZoom - y
  <2>1. n \in Nat /\ 0 \in T /\ \A k \in 0..n - 1 : k \in T => k + 1 \in T
    BY <1>1, <1>2, <1>3
  <2> HIDE DEF T, n
  <2>2. \A k \in 0..n : k \in T
    BY <2>1, UpTo
  <2> QED
    BY <2>2 DEF n
<1>5. z - y \in 0..MaxZoom - y /\ y + (z - y) = z
  BY ViewAssumption
<1> QED
  BY <1>4, <1>5

LEMMA CentredView ==
  ASSUME NEW v \in Cameras, NEW x \in Int, NEW y \in Int
  PROVE  SetCenter(v, x, y) \in Cameras
<1>1. x % World \in Int
  BY Sizes
<1>2. ClampY(y) \in Int
  BY Sizes DEF ClampY, Clamp
<1> QED
  BY <1>1, <1>2 DEF SetCenter, WrapX, Cameras

LEMMA ZoomedView ==
  ASSUME NEW v \in Cameras, NEW z \in Int
  PROVE  SetZoom(v, z) \in Cameras
<1>1. Clamp(z, 0, MaxZoom) \in 0..MaxZoom
  BY ViewAssumption DEF Clamp
<1> QED
  BY <1>1 DEF SetZoom, Cameras

LEMMA PannedView ==
  ASSUME NEW v \in Cameras, NEW dx \in Int, NEW dy \in Int
  PROVE  PanByPixels(v, dx, dy) \in Cameras
<1>1. v.x \in Int /\ v.y \in Int /\ Px(v.zoom) \in Int
  BY Sizes DEF Cameras
<1>2. v.x + dx * Px(v.zoom) \in Int /\ v.y + dy * Px(v.zoom) \in Int
  BY <1>1
<1> QED
  BY <1>2, CentredView DEF PanByPixels

\* The shallowest of some zooms is one of them.
LEMMA ShallowestOf ==
  ASSUME NEW zooms \in SUBSET Nat, zooms # {}
  PROVE  Shallowest(zooms) \in zooms /\ \A z \in zooms : Shallowest(zooms) <= z
  BY LeastNatural DEF Shallowest

LEMMA ZoomsFound ==
  ASSUME NEW v, NEW b
  PROVE  MinFillZoom(v, b) \in 0..MaxZoom + 1 /\ WorldViewZoom(v) \in 0..MaxZoom + 1
<1>1. \A zooms \in SUBSET (0..MaxZoom) : Shallowest(zooms) \in 0..MaxZoom + 1
  <2> SUFFICES ASSUME NEW zooms \in SUBSET (0..MaxZoom) PROVE Shallowest(zooms) \in 0..MaxZoom + 1
    OBVIOUS
  <2>1. CASE zooms = {}
    BY <2>1, ViewAssumption DEF Shallowest, NoZoom
  <2>2. CASE zooms # {}
    <3>1. zooms \in SUBSET Nat
      OBVIOUS
    <3>2. Shallowest(zooms) \in zooms
      BY <2>2, <3>1, ShallowestOf
    <3>3. \A z \in 0..MaxZoom : z \in 0..MaxZoom + 1
      BY ViewAssumption
    <3> QED
      BY <3>2, <3>3
  <2> QED
    BY <2>1, <2>2
<1>2. {z \in 0..MaxZoom : Fills(v, b, z)} \in SUBSET (0..MaxZoom)
  OBVIOUS
<1>3. {z \in 0..MaxZoom : v.height * Px(z) <= World} \in SUBSET (0..MaxZoom)
  OBVIOUS
<1>4. MaxZoom + 1 \in 0..MaxZoom + 1
  BY ViewAssumption
<1> QED
  BY <1>1, <1>2, <1>3, <1>4 DEF MinFillZoom, WorldViewZoom, NoZoom

LEMMA InstalledAreValid ==
  ASSUME NEW p \in Installed
  PROVE  /\ p.bounds.min_lon \in -HalfWorld..HalfWorld /\ p.bounds.max_lon \in -HalfWorld..HalfWorld
         /\ p.bounds.min_lat \in -HalfWorld..HalfWorld /\ p.bounds.max_lat \in -HalfWorld..HalfWorld
         /\ p.min_zoom \in 0..MaxZoom /\ p.max_zoom \in 0..MaxZoom /\ p.min_zoom <= p.max_zoom
         /\ ViewBounds(p.bounds)
<1>1. PICK c \in Catalogs : p \in Seqs!ToSet(c)
  BY DEF Installed
<1>2. Catalog!Valid(p)
  BY <1>1, DemoAssumption DEF Seqs!ToSet
<1> QED
  BY <1>2 DEF Catalog!Valid, Catalog!ValidBounds, Catalog!ZoomIsValid, ViewBounds

LEMMA BoxCentredView ==
  ASSUME NEW v \in Cameras, NEW p \in Installed
  PROVE  CentreOn(v, p.bounds) \in Cameras
<1> DEFINE b == p.bounds
<1>1. b.min_lon \in Int /\ b.max_lon \in Int /\ b.min_lat \in Int /\ b.max_lat \in Int
  BY InstalledAreValid, Sizes
<1> HIDE DEF b
<1>2. LonSpan(b) \in Int
  BY <1>1, Sizes DEF LonSpan
<1>3. b.min_lon + LonSpan(b) \div 2 \in Int
  BY <1>1, <1>2
<1>4. LonToX(b.min_lon + LonSpan(b) \div 2) \in Int
  BY <1>3, Sizes DEF LonToX, WrapX
<1>5. (LatToY(b.max_lat) + LatToY(b.min_lat)) \div 2 \in Int
  BY <1>1, Sizes DEF LatToY
<1>6. CentreOn(v, b) \in Cameras
  BY <1>4, <1>5, CentredView DEF CentreOn
<1> QED
  BY <1>6 DEF b

LEMMA FocusedView ==
  ASSUME NEW v \in Cameras, NEW p \in Installed
  PROVE  FocusPack(v, p) \in Cameras
<1>1. FocusWorldView(v, p) \in Cameras
  <2>1. WorldViewZoom(v) \in Int /\ p.min_zoom \in Int /\ p.max_zoom \in Int
    BY ZoomsFound, InstalledAreValid, ViewAssumption
  <2>2. Clamp(WorldViewZoom(v), p.min_zoom, p.max_zoom) \in Int
    BY <2>1 DEF Clamp
  <2>3. HalfWorld \in Int
    BY Sizes
  <2> QED
    BY <2>2, <2>3, ZoomedView, CentredView DEF FocusWorldView
<1>2. FillBounds(v, p.bounds) \in Cameras
  <2>1. MinFillZoom(v, p.bounds) \in Int
    BY ZoomsFound, ViewAssumption
  <2> QED
    BY <2>1, ZoomedView, BoxCentredView DEF FillBounds
<1>3. FitBounds(v, p.bounds, FitPadding[board]) \in Cameras
  <2> DEFINE zooms == {z \in 0..MaxZoom : Fits(v, p.bounds, z, FitPadding[board])}
             best == IF zooms = {} THEN 0 ELSE CHOOSE z \in zooms : \A y \in zooms : y <= z
  <2>1. zooms \in SUBSET (0..MaxZoom)
    OBVIOUS
  <2>2. FitBounds(v, p.bounds, FitPadding[board]) = CentreOn(SetZoom(v, best), p.bounds)
    BY DEF FitBounds
  <2> HIDE DEF zooms
  <2>3. best \in Int
    <3>1. zooms # {} => \E z \in zooms : \A y \in zooms : y <= z
      BY <2>1, GreatestUpTo, ViewAssumption
    <3>2. zooms # {} => best \in zooms
      BY <3>1
    <3>3. zooms = {} => best = 0
      OBVIOUS
    <3>4. \A z \in zooms : z \in Int
      BY <2>1
    <3> HIDE DEF best
    <3> QED
      BY <3>2, <3>3, <3>4
  <2> HIDE DEF best
  <2> QED
    BY <2>2, <2>3, ZoomedView, BoxCentredView
<1> QED
  BY <1>1, <1>2, <1>3 DEF FocusPack

LEMMA FloorIsAZoom ==
  ASSUME NEW v, NEW catalog \in Seq(Installed)
  PROVE  RecomputeZoomFloor(v, catalog) \in Nat
<1> DEFINE fill(p) == MinFillZoom(v, p.bounds)
           fills == {IF fill(p) < p.min_zoom THEN p.min_zoom ELSE fill(p) :
                       p \in {q \in Seqs!ToSet(catalog) : fill(q) <= q.max_zoom}}
<1>1. ASSUME NEW p \in Seqs!ToSet(catalog) PROVE fill(p) \in Nat /\ p.min_zoom \in Nat
  <2>1. p \in Installed
    BY <1>1 DEF Seqs!ToSet
  <2> QED
    BY <2>1, ZoomsFound, InstalledAreValid
<1>2. fills \in SUBSET Nat
  <2> HIDE DEF fill
  <2> QED
    BY <1>1
<1>3. RecomputeZoomFloor(v, catalog) = IF fills = {} THEN 0 ELSE Shallowest(fills)
  BY DEF RecomputeZoomFloor
<1> HIDE DEF fills
<1>4. fills # {} => Shallowest(fills) \in Nat
  BY <1>2, ShallowestOf
<1> QED
  BY <1>3, <1>4

-----------------------------------------------------------------------------
(* The sources that are looked for, and the list of what is measured.      *)

LEMMA LastOf ==
  ASSUME NEW n \in Nat, NEW s \in SUBSET (1..n), s # {}
  PROVE  Seqs!Max(s) \in s /\ \A i \in s : i <= Seqs!Max(s)
<1>1. s \in SUBSET (0..n)
  OBVIOUS
<1>2. PICK m \in s : \A i \in s : i <= m
  BY <1>1, GreatestUpTo
<1>3. \A i \in s : m >= i
  BY <1>2
<1> QED
  BY <1>3 DEF Seqs!Max

LEMMA WidestSourceIsInstalled ==
  ASSUME sources \in Seq(Installed)
  PROVE  WidestSource \in Installed \cup {NoPack}
<1> DEFINE n == Len(sources)
           X == Installed \cup {NoPack}
           mx == [s \in SUBSET (1..n) |-> Seqs!Max(s)]
           Wider(best, p) == IF Span(p) > (IF best = NoPack THEN -1 ELSE Span(best)) THEN p ELSE best
           Scans(h) == h = [s \in SUBSET (1..n) |->
                              IF s = {} THEN NoPack
                              ELSE Wider(h[s \ {Seqs!Max(s)}], sources[Seqs!Max(s)])]
           step == [q \in X \X (1..n) |-> Wider(q[1], sources[q[2]])]
           scan == CHOOSE h : Scans(h)
<1>1. n \in Nat /\ DOMAIN sources = 1..n /\ \A i \in 1..n : sources[i] \in Installed
  BY LenProperties
<1>2. WidestSource = scan[1..n]
  BY <1>1 DEF WidestSource, Seqs!FoldLeft, Seqs!MapThenFoldSet
<1> HIDE DEF n, scan
<1>3. ASSUME NEW best \in X, NEW i \in 1..n PROVE Wider(best, sources[i]) \in X
  BY <1>1, <1>3
<1>4. Lasts(mx, n)
  BY <1>1, LastOf DEF Lasts
<1>5. \E g : Scans(g)
  <2>1. step \in [X \X (1..n) -> X] /\ NoPack \in X
    <3> HIDE DEF X, Wider
    <3>1. step \in [X \X (1..n) -> X]
      BY <1>3
    <3> QED
      BY <3>1 DEF X
  <2>2. PICK g \in [SUBSET (1..n) -> X] : Fold(g, n, mx, NoPack, step)
    <3> HIDE DEF X, mx, step
    <3> QED
      BY <1>1, <1>4, <2>1, FoldExists
  <2>3. ASSUME NEW s \in SUBSET (1..n), s # {}
        PROVE  g[s] = Wider(g[s \ {Seqs!Max(s)}], sources[Seqs!Max(s)])
    <3>1. mx[s] = Seqs!Max(s) /\ mx[s] \in 1..n
      BY <1>4, <2>3 DEF Lasts
    <3>2. s \ {mx[s]} \in SUBSET (1..n)
      OBVIOUS
    <3> DEFINE q == <<g[s \ {mx[s]}], mx[s]>>
    <3>3. g[s] = step[q]
      BY <2>2, <2>3 DEF Fold
    <3>4. q \in X \X (1..n) /\ q[1] = g[s \ {mx[s]}] /\ q[2] = mx[s]
      <4> HIDE DEF X, mx
      <4> QED
        BY <3>1, <3>2
    <3> HIDE DEF q, mx, X, Wider
    <3> QED
      BY <3>1, <3>3, <3>4
  <2>4. g[{}] = NoPack
    <3>1. {} \in SUBSET (1..n)
      OBVIOUS
    <3> QED
      BY <2>2, <3>1 DEF Fold
  <2>5. Scans(g)
    <3> HIDE DEF Wider
    <3> QED
      BY <2>3, <2>4
  <2> HIDE DEF Scans
  <2> QED
    BY <2>5
<1>6. Scans(scan)
  <2> HIDE DEF Scans
  <2> QED
    BY <1>5 DEF scan
<1>7. \A s \in SUBSET (1..n) : scan[s] \in X
  <2>1. scan[{}] \in X
    <3>1. {} \in SUBSET (1..n)
      OBVIOUS
    <3> QED
      BY <1>6, <3>1
  <2>2. ASSUME NEW s \in SUBSET (1..n), s # {}, scan[s \ {mx[s]}] \in X PROVE scan[s] \in X
    <3>1. mx[s] = Seqs!Max(s) /\ mx[s] \in 1..n
      BY <1>4, <2>2 DEF Lasts
    <3>2. scan[s] = Wider(scan[s \ {mx[s]}], sources[mx[s]])
      BY <1>6, <2>2, <3>1
    <3> HIDE DEF mx, X, Wider
    <3> QED
      BY <1>3, <2>2, <3>1, <3>2
  <2> HIDE DEF mx, X
  <2> QED
    BY <1>1, <1>4, <2>1, <2>2, FoldStays
<1> QED
  <2>1. 1..n \in SUBSET (1..n)
    OBVIOUS
  <2> QED
    BY <1>2, <1>7, <2>1

LEMMA DeepestSourceIsInstalled ==
  ASSUME sources \in Seq(Installed)
  PROVE  /\ DeepestSource \in Installed \cup {NoPack}
         /\ sources # <<>> => DeepestSource \in Installed
<1> DEFINE n == Len(sources)
           X == Installed \cup {NoPack}
           mx == [s \in SUBSET (1..n) |-> Seqs!Max(s)]
           Deeper(best, p) == IF best = NoPack \/ p.max_zoom > best.max_zoom THEN p ELSE best
           Scans(h) == h = [s \in SUBSET (1..n) |->
                              IF s = {} THEN NoPack
                              ELSE Deeper(h[s \ {Seqs!Max(s)}], sources[Seqs!Max(s)])]
           step == [q \in X \X (1..n) |-> Deeper(q[1], sources[q[2]])]
           scan == CHOOSE h : Scans(h)
<1>1. n \in Nat /\ DOMAIN sources = 1..n /\ \A i \in 1..n : sources[i] \in Installed
  BY LenProperties
<1>2. DeepestSource = scan[1..n]
  BY <1>1 DEF DeepestSource, Seqs!FoldLeft, Seqs!MapThenFoldSet
<1> HIDE DEF n, scan
<1>3. ASSUME NEW best \in X, NEW i \in 1..n PROVE Deeper(best, sources[i]) \in X
  BY <1>1, <1>3
<1>4. Lasts(mx, n)
  BY <1>1, LastOf DEF Lasts
<1>5. \E g : Scans(g)
  <2>1. step \in [X \X (1..n) -> X] /\ NoPack \in X
    <3> HIDE DEF X, Deeper
    <3>1. step \in [X \X (1..n) -> X]
      BY <1>3
    <3> QED
      BY <3>1 DEF X
  <2>2. PICK g \in [SUBSET (1..n) -> X] : Fold(g, n, mx, NoPack, step)
    <3> HIDE DEF X, mx, step
    <3> QED
      BY <1>1, <1>4, <2>1, FoldExists
  <2>3. ASSUME NEW s \in SUBSET (1..n), s # {}
        PROVE  g[s] = Deeper(g[s \ {Seqs!Max(s)}], sources[Seqs!Max(s)])
    <3>1. mx[s] = Seqs!Max(s) /\ mx[s] \in 1..n
      BY <1>4, <2>3 DEF Lasts
    <3>2. s \ {mx[s]} \in SUBSET (1..n)
      OBVIOUS
    <3> DEFINE q == <<g[s \ {mx[s]}], mx[s]>>
    <3>3. g[s] = step[q]
      BY <2>2, <2>3 DEF Fold
    <3>4. q \in X \X (1..n) /\ q[1] = g[s \ {mx[s]}] /\ q[2] = mx[s]
      <4> HIDE DEF X, mx
      <4> QED
        BY <3>1, <3>2
    <3> HIDE DEF q, mx, X, Deeper
    <3> QED
      BY <3>1, <3>3, <3>4
  <2>4. g[{}] = NoPack
    <3>1. {} \in SUBSET (1..n)
      OBVIOUS
    <3> QED
      BY <2>2, <3>1 DEF Fold
  <2>5. Scans(g)
    <3> HIDE DEF Deeper
    <3> QED
      BY <2>3, <2>4
  <2> HIDE DEF Scans
  <2> QED
    BY <2>5
<1>6. Scans(scan)
  <2> HIDE DEF Scans
  <2> QED
    BY <1>5 DEF scan
<1>7. \A s \in SUBSET (1..n) : scan[s] \in X
  <2>1. scan[{}] \in X
    <3>1. {} \in SUBSET (1..n)
      OBVIOUS
    <3> QED
      BY <1>6, <3>1
  <2>2. ASSUME NEW s \in SUBSET (1..n), s # {}, scan[s \ {mx[s]}] \in X PROVE scan[s] \in X
    <3>1. mx[s] = Seqs!Max(s) /\ mx[s] \in 1..n
      BY <1>4, <2>2 DEF Lasts
    <3>2. scan[s] = Deeper(scan[s \ {mx[s]}], sources[mx[s]])
      BY <1>6, <2>2, <3>1
    <3> HIDE DEF mx, X, Deeper
    <3> QED
      BY <1>3, <2>2, <3>1, <3>2
  <2> HIDE DEF mx, X
  <2> QED
    BY <1>1, <1>4, <2>1, <2>2, FoldStays
<1>8. 1..n \in SUBSET (1..n)
  OBVIOUS
<1>9. ASSUME sources # <<>> PROVE scan[1..n] \in Installed
  <2>1. 1..n # {}
    <3>1. n # 0
      BY <1>9, EmptySeq DEF n
    <3>2. 1 \in 1..n
      BY <1>1, <3>1
    <3> QED
      BY <3>2
  <2>2. Seqs!Max(1..n) \in 1..n
    BY <1>1, <1>8, <2>1, LastOf
  <2>3. scan[1..n] = Deeper(scan[(1..n) \ {Seqs!Max(1..n)}], sources[Seqs!Max(1..n)])
    BY <1>6, <1>8, <2>1
  <2>4. (1..n) \ {Seqs!Max(1..n)} \in SUBSET (1..n)
    OBVIOUS
  <2> QED
    BY <1>1, <1>7, <2>2, <2>3, <2>4
<1> QED
  BY <1>2, <1>7, <1>8, <1>9

LEMMA SourcesAreInstalled ==
  ASSUME NEW catalog \in Seq(Installed), NEW readable
  PROVE  OpenSources(catalog, readable) \in Seq(Installed)
<1> DEFINE n == Len(catalog)
           X == Seq(Installed)
           Next1(opened, i) == IF catalog[i].pack_id \in readable THEN Append(opened, catalog[i])
                               ELSE opened
           Opens(f) == f = [i \in 0..n |-> IF i = 0 THEN <<>> ELSE Next1(f[i - 1], i)]
           step == [q \in X \X (1..n) |-> Next1(q[1], q[2])]
           opened == CHOOSE f : Opens(f)
<1>1. n \in Nat /\ \A i \in 1..n : catalog[i] \in Installed
  BY LenProperties
<1>2. OpenSources(catalog, readable) = opened[n]
  BY DEF OpenSources
<1> HIDE DEF n, opened
<1>3. ASSUME NEW o \in X, NEW i \in 1..n PROVE Next1(o, i) \in X
  BY <1>1
<1>4. \E g : Opens(g)
  <2> DEFINE none == <<>>
  <2>1. n \in Nat /\ none \in X /\ step \in [X \X (1..n) -> X]
    <3>1. step \in [X \X (1..n) -> X]
      <4> HIDE DEF X, Next1
      <4> QED
        BY <1>3
    <3> QED
      BY <1>1, <3>1
  <2> HIDE DEF X, step, none
  <2>2. PICK g \in [0..n -> X] : Recursion(g, n, none, step)
    BY ONLY <2>1, RecursionExists
  <2>3. ASSUME NEW i \in 0..n, i # 0 PROVE g[i] = Next1(g[i - 1], i)
    <3>1. i \in 1..n /\ i - 1 \in 0..n
      BY <1>1, <2>3
    <3> DEFINE q == <<g[i - 1], i>>
    <3>2. g[i] = step[q]
      BY <2>2, <3>1 DEF Recursion
    <3>3. q \in X \X (1..n) /\ q[1] = g[i - 1] /\ q[2] = i
      BY <3>1
    <3> HIDE DEF q, Next1
    <3> QED
      BY <3>2, <3>3 DEF step
  <2>4. g[0] = <<>>
    BY <2>2 DEF Recursion, none
  <2>5. Opens(g)
    <3> HIDE DEF Next1
    <3> QED
      BY <2>3, <2>4
  <2> HIDE DEF Opens
  <2> QED
    BY <2>5
<1>5. Opens(opened)
  <2> HIDE DEF Opens
  <2> QED
    BY <1>4 DEF opened
<1> DEFINE T == {k \in 0..n : opened[k] \in X}
<1>6. 0 \in T
  BY <1>1, <1>5
<1>7. ASSUME NEW k \in 0..n - 1, k \in T PROVE k + 1 \in T
  <2>1. k + 1 \in 0..n /\ k + 1 \in 1..n /\ k + 1 # 0 /\ (k + 1) - 1 = k
    BY <1>1
  <2>2. opened[k + 1] = Next1(opened[k], k + 1)
    BY <1>5, <2>1
  <2> HIDE DEF X, Next1
  <2>3. opened[k] \in X
    BY <1>7
  <2> QED
    BY <1>3, <2>1, <2>2, <2>3
<1>8. \A k \in 0..n : k \in T
  <2> HIDE DEF T
  <2> QED
    BY <1>1, <1>6, <1>7, UpTo
<1> QED
  BY <1>1, <1>2, <1>8

LEMMA FlattenedSeq ==
  ASSUME NEW S, NEW n \in Nat \ {0}, NEW seqs \in [1..n -> Seq(S)]
  PROVE  Seqs!FlattenSeq(seqs) \in Seq(S)
<1> DEFINE X == Seq(S)
           m == n - 1
           Flattens(f) == f = [i \in 1..n |-> IF i = 1 THEN seqs[i] ELSE f[i - 1] \o seqs[i]]
           flatten == CHOOSE f : Flattens(f)
           step == [q \in X \X (1..m) |-> q[1] \o seqs[q[2] + 1]]
           first == seqs[1]
<1>1. Len(seqs) = n
  <2>1. seqs \in Seq(Seq(S))
    BY SeqDef
  <2> QED
    BY <2>1, LenProperties
<1>2. Seqs!FlattenSeq(seqs) = flatten[n]
  BY <1>1 DEF Seqs!FlattenSeq
<1> HIDE DEF flatten
<1>3. \E h : Flattens(h)
  <2>1. m \in Nat /\ first \in X /\ step \in [X \X (1..m) -> X]
    <3>1. ASSUME NEW q \in X \X (1..m) PROVE q[1] \o seqs[q[2] + 1] \in X
      <4>1. q[2] + 1 \in 1..n /\ q[1] \in Seq(S)
        OBVIOUS
      <4>2. seqs[q[2] + 1] \in Seq(S)
        BY <4>1
      <4> QED
        BY <4>1, <4>2
    <3> HIDE DEF X
    <3>2. step \in [X \X (1..m) -> X]
      BY <3>1
    <3> QED
      BY <3>2 DEF X
  <2>2. PICK g \in [0..m -> X] : Recursion(g, m, first, step)
    <3> HIDE DEF X, m, step, first
    <3> QED
      BY ONLY <2>1, RecursionExists
  <2> DEFINE h == [i \in 1..n |-> g[i - 1]]
  <2>3. ASSUME NEW i \in 1..n, i # 1 PROVE h[i] = h[i - 1] \o seqs[i]
    <3>1. i - 1 \in 1..m /\ i - 1 \in 1..n /\ (i - 1) - 1 \in 0..m /\ (i - 1) + 1 = i
      BY <2>3
    <3> DEFINE k == i - 1
               q == <<g[k - 1], k>>
    <3>2. h[i] = g[k] /\ h[i - 1] = g[k - 1]
      BY <3>1
    <3>3. g[k] = step[q]
      <4> HIDE DEF step, m
      <4> QED
        BY <2>2, <3>1 DEF Recursion
    <3>4. q \in X \X (1..m) /\ q[1] = g[k - 1] /\ q[2] = k
      <4> HIDE DEF X, m
      <4> QED
        BY <3>1
    <3>5. step[q] = q[1] \o seqs[q[2] + 1]
      <4> HIDE DEF q, X, m
      <4> QED
        BY <3>4
    <3> QED
      BY <3>1, <3>2, <3>3, <3>4, <3>5
  <2>4. h[1] = seqs[1]
    BY <2>2 DEF Recursion
  <2>5. Flattens(h)
    <3>1. \A i \in 1..n : h[i] = IF i = 1 THEN seqs[i] ELSE h[i - 1] \o seqs[i]
      BY <2>3, <2>4
    <3>2. h = [i \in 1..n |-> h[i]]
      OBVIOUS
    <3> HIDE DEF h
    <3> QED
      BY <3>1, <3>2
  <2> HIDE DEF h, Flattens
  <2> QED
    BY <2>5
<1>4. Flattens(flatten)
  <2> HIDE DEF Flattens
  <2> QED
    BY <1>3 DEF flatten
<1> DEFINE T == {k \in 0..n : k = 0 \/ flatten[k] \in Seq(S)}
<1>5. 0 \in T
  OBVIOUS
<1>6. ASSUME NEW k \in 0..n - 1, k \in T PROVE k + 1 \in T
  <2>1. k + 1 \in 1..n /\ k + 1 \in 0..n /\ (k + 1) - 1 = k
    OBVIOUS
  <2>2. CASE k = 0
    BY <1>4, <2>1, <2>2
  <2>3. CASE k # 0
    <3>1. flatten[k + 1] = flatten[k] \o seqs[k + 1]
      <4>1. k + 1 # 1
        BY <2>3
      <4>2. \A i \in 1..n : flatten[i] = IF i = 1 THEN seqs[i] ELSE flatten[i - 1] \o seqs[i]
        <5> DEFINE e(f, i) == IF i = 1 THEN seqs[i] ELSE f[i - 1] \o seqs[i]
        <5>1. flatten = [i \in 1..n |-> e(flatten, i)]
          BY <1>4
        <5> HIDE DEF e
        <5>2. \A i \in 1..n : flatten[i] = e(flatten, i)
          BY <5>1
        <5> QED
          BY <5>2 DEF e
      <4> QED
        BY <2>1, <4>1, <4>2
    <3>2. flatten[k] \in Seq(S) /\ seqs[k + 1] \in Seq(S)
      BY <1>6, <2>1, <2>3
    <3>3. flatten[k] \o seqs[k + 1] \in Seq(S)
      BY <3>2, ConcatProperties
    <3> QED
      BY <2>1, <3>1, <3>3
  <2> QED
    BY <2>2, <2>3
<1>7. \A k \in 0..n : k \in T
  <2> HIDE DEF T
  <2> QED
    BY <1>5, <1>6, UpTo
<1> QED
  BY <1>2, <1>7

\* What a measurement does last.
EndsFinally(s, framed) == s \in Seq(Ops(framed)) /\ s # <<>> /\ s[Len(s)].op \in Finals

LEMMA FinallyEnds ==
  ASSUME NEW framed, NEW s \in Seq(Ops(framed)), NEW f \in Finals
  PROVE  EndsFinally(s \o <<[op |-> f]>>, framed)
<1> DEFINE last == [op |-> f]
           t == s \o <<last>>
<1>1. last \in Ops(framed)
  BY DEF Ops
<1>2. last.op = f
  OBVIOUS
<1> HIDE DEF last
<1>3. t \in Seq(Ops(framed)) /\ Len(t) = Len(s) + 1 /\ t[Len(s) + 1] = last /\ Len(s) \in Nat
  <2>1. <<last>> \in Seq(Ops(framed)) /\ Len(<<last>>) = 1 /\ <<last>>[1] = last
    BY <1>1
  <2>2. Len(s) \in Nat
    BY LenProperties
  <2> QED
    BY <2>1, <2>2
<1>4. t # <<>>
  <2>1. Len(t) # 0
    BY <1>3
  <2> QED
    BY <2>1
<1> HIDE DEF t
<1>5. EndsFinally(t, framed)
  BY <1>2, <1>3, <1>4 DEF EndsFinally
<1> QED
  BY <1>5 DEF t, last

LEMMA LevelOps ==
  ASSUME NEW framed, NEW z \in Int
  PROVE  SweepAtZoom(z) \in Seq(Ops(framed))
<1> DEFINE level == [op |-> "level", zoom |-> z]
           east == [op |-> "pan", by |-> 1]
           west == [op |-> "pan", by |-> -1]
<1>1. level \in Ops(framed) /\ east \in Ops(framed) /\ west \in Ops(framed)
  BY DEF Ops
<1> HIDE DEF level, east, west
<1>2. <<level>> \in Seq(Ops(framed)) /\ [i \in 1..SweepScreens |-> east] \in Seq(Ops(framed))
        /\ [i \in 1..SweepScreens |-> west] \in Seq(Ops(framed))
  <2>1. SweepScreens \in Nat
    BY DemoAssumption
  <2>2. \A x \in Ops(framed) : [i \in 1..SweepScreens |-> x] \in Seq(Ops(framed))
    BY <2>1
  <2>3. <<level>> \in Seq(Ops(framed))
    BY <1>1
  <2>4. [i \in 1..SweepScreens |-> east] \in Seq(Ops(framed))
    BY <1>1, <2>2
  <2>5. [i \in 1..SweepScreens |-> west] \in Seq(Ops(framed))
    BY <1>1, <2>2
  <2> QED
    BY ONLY <2>3, <2>4, <2>5
<1>3. \A a, b \in Seq(Ops(framed)) : a \o b \in Seq(Ops(framed))
  BY ConcatProperties
<1>4. (<<level>> \o [i \in 1..SweepScreens |-> east]) \o [i \in 1..SweepScreens |-> west] \in Seq(Ops(framed))
  BY <1>2, <1>3
<1> QED
  BY <1>4 DEF SweepAtZoom, level, east, west

LEMMA SweepOps ==
  ASSUME sources \in Seq(Installed), floor \in Nat, NEW framed
  PROVE  EndsFinally(RunZoomPanSweep, framed)
<1> DEFINE deepest == IF DeepestSource # NoPack /\ DeepestSource.max_zoom > floor
                      THEN DeepestSource.max_zoom ELSE floor
           levels == deepest - floor + 1
           zoom(i) == IF i <= levels THEN deepest + 1 - i ELSE floor + i - levels - 1
           n == 2 * levels
           seqs == [i \in 1..n |-> SweepAtZoom(zoom(i))]
<1>1. deepest \in Nat /\ deepest >= floor
  <2>1. DeepestSource # NoPack => DeepestSource.max_zoom \in Nat
    BY DeepestSourceIsInstalled, InstalledAreValid
  <2> QED
    BY <2>1
<1> HIDE DEF deepest
<1>2. n \in Nat \ {0} /\ levels \in Nat
  BY <1>1
<1>3. \A i \in 1..n : zoom(i) \in Int
  BY <1>1, <1>2
<1>4. seqs \in [1..n -> Seq(Ops(framed))]
  <2> HIDE DEF n, zoom
  <2> QED
    BY <1>3, LevelOps
<1>5. Seqs!FlattenSeq(seqs) \in Seq(Ops(framed))
  <2> HIDE DEF seqs, n
  <2> QED
    BY <1>2, <1>4, FlattenedSeq
<1>6. RunZoomPanSweep = Seqs!FlattenSeq(seqs) \o <<[op |-> "restore"]>>
  BY DEF RunZoomPanSweep, deepest
<1> HIDE DEF seqs
<1>7. "restore" \in Finals
  BY DEF Finals
<1> QED
  BY <1>5, <1>6, <1>7, FinallyEnds

LEMMA BenchmarkOps == ASSUME NEW framed PROVE EndsFinally(RunBenchmarks, framed)
<1> DEFINE n == Len(Scenarios)
           seq == [i \in 1..n |-> [op |-> "scenario", of |-> Scenarios[i]]]
<1>1. n \in Nat /\ \A i \in 1..n : Scenarios[i] \in Scenes
  BY DemoAssumption, LenProperties DEF Scenes
<1>2. seq \in Seq(Ops(framed))
  <2>1. \A i \in 1..n : [op |-> "scenario", of |-> Scenarios[i]] \in Ops(framed)
    BY <1>1 DEF Ops
  <2> QED
    BY <1>1, <2>1, IsASeq
<1>3. "redraw" \in Finals
  BY DEF Finals
<1> QED
  BY <1>2, <1>3, FinallyEnds DEF RunBenchmarks

LEMMA PlanOps ==
  ASSUME sources \in Seq(Installed), floor \in Nat
  PROVE  EndsFinally(CydPlan, Seqs!ToSet(sources))
<1> DEFINE framed == Seqs!ToSet(sources)
           n == Len(sources)
           none == <<>>
           framings == IF build = "plain" THEN none ELSE RunScenarios
           sweep == IF build = "autosweep" THEN Seqs!Front(RunZoomPanSweep) ELSE none
<1>1. RunScenarios \in Seq(Ops(framed))
  <2>1. n \in Nat /\ \A i \in 1..n : sources[i] \in framed
    BY LenProperties DEF Seqs!ToSet
  <2>2. \A i \in 1..n : [op |-> "framing", pack |-> sources[i]] \in Ops(framed)
    BY <2>1 DEF Ops
  <2> QED
    BY <2>1, <2>2, IsASeq DEF RunScenarios
<1>2. Seqs!Front(RunZoomPanSweep) \in Seq(Ops(framed))
  <2> DEFINE s == RunZoomPanSweep
  <2>1. s \in Seq(Ops(framed))
    BY SweepOps DEF EndsFinally
  <2> HIDE DEF s
  <2>2. SubSeq(s, 1, Len(s) - 1) \in Seq(Ops(framed))
    <3>1. Len(s) \in Nat /\ \A i \in 1..Len(s) : s[i] \in Ops(framed)
      BY <2>1, LenProperties
    <3>2. \A i \in 1..Len(s) - 1 : s[i] \in Ops(framed)
      BY <3>1
    <3> QED
      BY <2>1, <3>1, <3>2, SubSeqProperties
  <2> QED
    BY <2>2 DEF Seqs!Front, s
<1>3. framings \in Seq(Ops(framed)) /\ sweep \in Seq(Ops(framed))
  <2>1. none \in Seq(Ops(framed))
    OBVIOUS
  <2> HIDE DEF none
  <2> QED
    BY <1>1, <1>2, <2>1
<1>4. framings \o sweep \in Seq(Ops(framed))
  <2> HIDE DEF framings, sweep
  <2> QED
    BY <1>3, ConcatProperties
<1>5. CydPlan = (framings \o sweep) \o <<[op |-> "final"]>>
  BY DEF CydPlan
<1>6. "final" \in Finals
  BY DEF Finals
<1> HIDE DEF framings, sweep
<1> QED
  BY <1>4, <1>5, <1>6, FinallyEnds

-----------------------------------------------------------------------------
(* Choosing a pack twice for one view.                                     *)

LEMMA ResolvedOnce ==
  ASSUME NEW v, NEW c
  PROVE  ResolveActiveSource(v, ResolveActiveSource(v, c).active) = ResolveActiveSource(v, c)
  BY DEF ResolveActiveSource

\* The choice depends on nothing that changes once the packs are open.
LEMMA ChoiceStays ==
  ASSUME UNCHANGED booting, NEW v, NEW c, v = view', c = source'
  PROVE  ResolveActiveSource(view, source.active)' = ResolveActiveSource(v, c.active)
<1>1. packs' = packs /\ sources' = sources /\ board' = board
  BY DEF booting
<1>2. \A p : SourceForManifest(p)' = SourceForManifest(p)
  BY <1>1 DEF SourceForManifest
<1> QED
  BY <1>1, <1>2 DEF ResolveActiveSource

-----------------------------------------------------------------------------
(* The steps.                                                              *)

LEMMA InitInv == Init => IInv
<1> SUFFICES ASSUME Init PROVE IInv
  OBVIOUS
<1>1. board \in Boards /\ phase = "off" /\ packs = <<>> /\ sources = <<>> /\ floor = 0
      /\ todo = <<>> /\ touch = NoTouch
  BY DEF Init
<1>2. view \in Cameras /\ saved.view \in Cameras
  <2>1. Width[board] \in Nat /\ Height[board] \in Nat
    BY <1>1, DemoAssumption
  <2>2. HalfWorld \in Int /\ 0 \in 0..MaxZoom
    BY Sizes, ViewAssumption
  <2>3. view \in Cameras
    BY <2>1, <2>2 DEF Init, Cameras
  <2>4. saved.view = view
    BY DEF Init
  <2> QED
    BY <2>3, <2>4
<1>3. touch \in [down : BOOLEAN, press : Buttons \cup {"map"}, dx : Int, dy : Int] /\ ~touch.down
  BY <1>1 DEF NoTouch
<1>4. Typed
  <2>1. packs \in Seq(Installed) /\ sources \in Seq(Installed) /\ todo \in Seq(Ops(Seqs!ToSet(sources)))
    BY <1>1, EmptySeq
  <2> QED
    BY <1>1, <1>2, <1>3, <2>1 DEF Typed
<1>5. Phased
  BY <1>1, <1>3 DEF Phased
<1>6. Dragged
  BY <1>3 DEF Dragged
<1>7. Shown
  BY <1>1 DEF Shown
<1> QED
  BY <1>4, <1>5, <1>6, <1>7 DEF IInv

\* A frame that is drawn from the camera and presented shows it.
LEMMA RedrawShows ==
  ASSUME UNCHANGED booting, NEW current, Redraw(view', style', current), ~touch'.down
  PROVE  Shown'
<1> DEFINE v == view'
           c == source'
           s == ResolveActiveSource(v, current)
<1>1. c = s /\ canvas' = Frame(v, style', s) /\ panel' = [frame |-> canvas', dx |-> 0, dy |-> 0]
  BY DEF Redraw, RenderMapFrame, Present
<1>2. ResolveActiveSource(view, source.active)' = ResolveActiveSource(v, c.active)
  BY ChoiceStays
<1>3. ResolveActiveSource(v, c.active) = s
  BY <1>1, ResolvedOnce
<1>4. canvas' = Frame(view, style, ResolveActiveSource(view, source.active))'
  BY <1>1, <1>2, <1>3 DEF Frame
<1> QED
  BY <1>1, <1>4 DEF Shown

\* While there are frames to measure nothing is claimed.
LEMMA MeasuringShows ==
  ASSUME todo' # <<>>
  PROVE  Shown'
  BY DEF Shown

\* A measured frame leaves the rest of the list.
LEMMA NextOfTodo ==
  ASSUME todo # <<>>, Typed, Phased
  PROVE  /\ todo[1] \in Ops(Seqs!ToSet(sources)) /\ Tail(todo) \in Seq(Ops(Seqs!ToSet(sources)))
         /\ Tail(todo) # <<>> => Tail(todo)[Len(Tail(todo))].op \in Finals
         /\ Tail(todo) = <<>> => todo[1].op \in Finals
<1> DEFINE s == todo
           t == Tail(todo)
<1>1. s \in Seq(Ops(Seqs!ToSet(sources))) /\ s # <<>> /\ s[Len(s)].op \in Finals
  BY DEF Typed, Phased
<1>2. Len(s) \in Nat \ {0} /\ t \in Seq(Ops(Seqs!ToSet(sources))) /\ Len(t) = Len(s) - 1
      /\ (\A i \in 1..Len(t) : t[i] = s[i + 1]) /\ s[1] \in Ops(Seqs!ToSet(sources))
  BY <1>1
<1> HIDE DEF s, t
<1>3. CASE Len(s) = 1
  <2>1. Len(t) = 0
    BY <1>2, <1>3
  <2>2. t = <<>>
    BY <1>2, <2>1, EmptySeq
  <2> QED
    BY <1>1, <1>2, <1>3, <2>2 DEF s, t
<1>4. CASE Len(s) # 1
  <2>1. Len(t) \in 1..Len(t) /\ Len(t) + 1 = Len(s)
    BY <1>2, <1>4
  <2>2. t[Len(t)] = s[Len(s)]
    BY <1>2, <2>1
  <2>3. t # <<>>
    BY <2>1
  <2> QED
    BY <1>1, <1>2, <2>2, <2>3 DEF s, t
<1> QED
  BY <1>3, <1>4

\* A measured frame, apart from what it shows.
LEMMA MeasuredStep ==
  ASSUME IInv, todo # <<>>, todo' = Tail(todo), view' \in Cameras,
         UNCHANGED <<booting, phase, touch, saved>>
  PROVE  Typed' /\ Phased' /\ Dragged' /\ ~touch'.down
<1>1. Tail(todo) \in Seq(Ops(Seqs!ToSet(sources))) /\ (Tail(todo) # <<>> => Tail(todo)[Len(Tail(todo))].op \in Finals)
  BY NextOfTodo DEF IInv
<1>2. phase = "live" /\ ~touch.down
  BY DEF IInv, Phased
<1>3. Typed'
  BY <1>1 DEF IInv, Typed, booting
<1>4. Phased'
  <2>1. sources # <<>>
    BY <1>2 DEF IInv, Phased
  <2> QED
    BY <1>1, <1>2, <2>1 DEF Phased, booting
<1>5. Dragged'
  BY <1>2 DEF Dragged
<1> QED
  BY <1>2, <1>3, <1>4, <1>5

\* The same of a finger that is lifted.
LEMMA LiftedStep ==
  ASSUME IInv, Lift, view' \in Cameras, saved'.view \in Cameras, UNCHANGED <<booting, phase>>,
         todo' = todo \/ EndsFinally(todo', Seqs!ToSet(sources))
  PROVE  /\ Typed' /\ Phased' /\ Dragged' /\ ~touch'.down
         /\ phase = "live" /\ todo = <<>> /\ touch.down
<1>1. phase = "live" /\ todo = <<>> /\ touch.down
  BY DEF Lift, Idle
<1>2. /\ touch' \in [down : BOOLEAN, press : Buttons \cup {"map"}, dx : Int, dy : Int]
      /\ ~touch'.down
  BY DEF IInv, Typed, Lift
<1>3. todo' \in Seq(Ops(Seqs!ToSet(sources))) /\ (todo' # <<>> => todo'[Len(todo')].op \in Finals)
  BY <1>1 DEF IInv, Typed, EndsFinally
<1>4. Typed'
  BY <1>2, <1>3 DEF IInv, Typed, booting
<1>5. Phased'
  <2>1. sources # <<>>
    BY <1>1 DEF IInv, Phased
  <2> QED
    BY <1>1, <1>2, <1>3, <2>1 DEF Phased, booting
<1>6. Dragged'
  BY <1>2 DEF Dragged
<1> QED
  BY <1>1, <1>2, <1>4, <1>5, <1>6

LEMMA BootInv == IInv /\ (BootFails \/ Boot) => IInv'
<1> SUFFICES ASSUME IInv, BootFails \/ Boot PROVE IInv'
  OBVIOUS
<1>1. phase = "off" /\ phase' # "live" /\ todo = <<>> /\ ~touch.down
      /\ UNCHANGED <<board, view, saved, touch, todo>>
  BY DEF IInv, Phased, BootFails, Boot, booting
<1>2. CASE BootFails
  <2>1. UNCHANGED booting /\ phase' = "failed"
    BY <1>2 DEF BootFails
  <2>2. Typed' /\ Phased' /\ Dragged'
    BY <1>1, <2>1 DEF IInv, Typed, Phased, Dragged, booting
  <2> QED
    BY <1>1, <2>2 DEF IInv, Shown
<1>3. CASE Boot
  <2>1. packs' \in Seq(Installed)
    <3>1. packs' \in Catalogs
      BY <1>3 DEF Boot
    <3>2. packs' \in Seq(Seqs!ToSet(packs'))
      BY <3>1, DemoAssumption
    <3>3. \A p \in Seqs!ToSet(packs') : p \in Installed
      BY <3>1 DEF Installed
    <3> QED
      BY <3>2, <3>3, SeqMonotonic
  <2>2. sources' \in Seq(Installed)
    <3>1. PICK readable : sources' = OpenSources(packs', readable)
      BY <1>3 DEF Boot
    <3> QED
      BY <2>1, <3>1, SourcesAreInstalled
  <2>3. floor' \in Nat
    BY <1>3, <2>1, FloorIsAZoom DEF Boot
  <2>4. phase' = IF sources' = <<>> THEN "failed" ELSE "booted"
    BY <1>3 DEF Boot
  <2>5. Typed' /\ Dragged'
    BY <1>1, <2>1, <2>2, <2>3 DEF IInv, Typed, Dragged
  <2>6. Phased'
    BY <1>1, <2>4 DEF Phased
  <2> QED
    BY <1>1, <2>5, <2>6 DEF IInv, Shown
<1> QED
  BY <1>2, <1>3

LEMMA OpenInv == IInv /\ (OpenTab5 \/ OpenCyd) => IInv'
<1> SUFFICES ASSUME IInv, OpenTab5 \/ OpenCyd PROVE IInv'
  OBVIOUS
<1>1. /\ phase = "booted" /\ phase' = "live" /\ sources # <<>> /\ ~touch.down /\ todo = <<>>
      /\ UNCHANGED <<booting, style, touch>> /\ saved'.view = view'
      /\ Redraw(view', style, source.active)
  BY DEF IInv, Phased, OpenTab5, OpenCyd, Remember
<1>2. view \in Cameras /\ sources \in Seq(Installed) /\ floor \in Nat
  BY DEF IInv, Typed
<1>3. view' \in Cameras
  <2>1. WidestSource # NoPack => FocusPack(view, WidestSource) \in Cameras
    BY <1>2, WidestSourceIsInstalled, FocusedView
  <2>2. SetZoom(SetCenter(view, HalfWorld, HalfWorld), floor) \in Cameras
    <3>1. HalfWorld \in Int /\ floor \in Int
      BY <1>2, Sizes
    <3> QED
      BY <1>2, <3>1, CentredView, ZoomedView
  <2> QED
    BY <1>2, <2>1, <2>2 DEF OpenTab5, OpenCyd
<1>4. todo' = <<>> \/ EndsFinally(todo', Seqs!ToSet(sources))
  <2>1. todo' = <<>> \/ todo' = RunZoomPanSweep \/ todo' = CydPlan
    BY DEF OpenTab5, OpenCyd
  <2>2. EndsFinally(RunZoomPanSweep, Seqs!ToSet(sources)) /\ EndsFinally(CydPlan, Seqs!ToSet(sources))
    BY <1>2, SweepOps, PlanOps
  <2> QED
    BY <2>1, <2>2 DEF EndsFinally
<1>5. Typed'
  <2>1. todo' \in Seq(Ops(Seqs!ToSet(sources)))
    BY <1>4, EmptySeq DEF EndsFinally
  <2> QED
    BY <1>1, <1>3, <2>1 DEF IInv, Typed, booting
<1>6. Phased'
  BY <1>1, <1>4 DEF Phased, EndsFinally, booting
<1>7. Dragged'
  BY <1>1 DEF Dragged
<1>8. Shown'
  BY <1>1, RedrawShows
<1> QED
  BY <1>5, <1>6, <1>7, <1>8 DEF IInv

LEMMA MeasureInv == IInv /\ Measure => IInv'
<1> SUFFICES ASSUME IInv, Measure PROVE IInv'
  OBVIOUS
<1>1. /\ todo # <<>> /\ todo' = Tail(todo) /\ ~touch.down /\ phase = "live"
      /\ UNCHANGED <<booting, phase, style, touch, saved>>
  BY DEF IInv, Phased, Measure, Level, PanScreen, Scenario, Restore, RedrawAfter, Framing, FinalView
<1>2. /\ view \in Cameras /\ saved.view \in Cameras /\ sources \in Seq(Installed) /\ sources # <<>>
  BY <1>1 DEF IInv, Typed, Phased
<1>3. todo[1] \in Ops(Seqs!ToSet(sources))
  BY <1>1, NextOfTodo DEF IInv
<1>4. view' \in Cameras
  <2>1. CASE Level
    <3> DEFINE b == DeepestSource.bounds
    <3>1. b.min_lon \in Int /\ b.max_lon \in Int /\ MeanLat(b.min_lat, b.max_lat) \in Int
      <4>1. /\ b.min_lon \in Int /\ b.max_lon \in Int
            /\ b.min_lat \in -HalfWorld..HalfWorld /\ b.max_lat \in -HalfWorld..HalfWorld
        BY <1>2, DeepestSourceIsInstalled, InstalledAreValid, Sizes
      <4>2. MeanLat(b.min_lat, b.max_lat) \in -HalfWorld..HalfWorld
        BY <4>1, MeanAssumption
      <4> QED
        BY <4>1, <4>2, Sizes
    <3>2. todo[1].zoom \in Int
      BY <1>3, <2>1 DEF Level, Ops, Finals
    <3>3. view' = SetCenter(SetZoom(view, todo[1].zoom), LonToX((b.min_lon + b.max_lon) \div 2),
                            LatToY(MeanLat(b.min_lat, b.max_lat)))
      BY <2>1 DEF Level
    <3> HIDE DEF b
    <3>4. LonToX((b.min_lon + b.max_lon) \div 2) \in Int /\ LatToY(MeanLat(b.min_lat, b.max_lat)) \in Int
      BY <3>1, Sizes DEF LonToX, WrapX, LatToY
    <3> QED
      BY <1>2, <3>2, <3>3, <3>4, ZoomedView, CentredView
  <2>2. CASE PanScreen
    <3>1. todo[1].by \in Int
      BY <1>3, <2>2 DEF PanScreen, Ops, Finals
    <3>2. todo[1].by * view.width \in Int
      BY <1>2, <3>1 DEF Cameras
    <3> QED
      BY <1>2, <2>2, <3>2, PannedView DEF PanScreen
  <2>3. CASE Scenario \/ Restore \/ RedrawAfter
    BY <1>2, <2>3 DEF Scenario, Restore, RedrawAfter
  <2>4. CASE Framing
    <3>1. todo[1].pack \in Seqs!ToSet(sources)
      BY <1>3, <2>4 DEF Framing, Ops, Finals
    <3>2. todo[1].pack \in Installed
      BY <1>2, <3>1 DEF Seqs!ToSet
    <3> QED
      BY <1>2, <2>4, <3>2, FocusedView DEF Framing
  <2>5. CASE FinalView
    BY <1>2, <2>5, WidestSourceIsInstalled, FocusedView DEF FinalView
  <2> QED
    BY <2>1, <2>2, <2>3, <2>4, <2>5 DEF Measure
<1>5. Typed' /\ Phased' /\ Dragged' /\ ~touch'.down
  BY <1>1, <1>4, MeasuredStep
<1>6. Shown'
  <2>1. CASE Level \/ PanScreen \/ Restore \/ FinalView
    <3>1. \E current : Redraw(view', style, current)
      BY <2>1 DEF Level, PanScreen, Restore, FinalView
    <3> QED
      BY <1>1, <1>5, <3>1, RedrawShows
  <2>2. CASE RedrawAfter
    <3>1. Redraw(view, style, source.active) /\ view' = view
      BY <2>2 DEF RedrawAfter
    <3> QED
      BY <1>1, <1>5, <3>1, RedrawShows
  <2>3. CASE Scenario \/ Framing
    <3>1. todo[1].op \notin Finals
      BY <2>3 DEF Scenario, Framing, Finals
    <3>2. todo' # <<>>
      BY <1>1, <3>1, NextOfTodo DEF IInv
    <3> QED
      BY <3>2, MeasuringShows
  <2> QED
    BY <2>1, <2>2, <2>3 DEF Measure
<1> QED
  BY <1>5, <1>6 DEF IInv

LEMMA TouchInv ==
  IInv /\ (\/ \E where \in Buttons \cup {"map"} : Press(where)
           \/ \E d \in Drags : Move(d[1], d[2])
           \/ ReleaseDrag \/ TapZoom \/ TapPack \/ TapStyle \/ TapInfo \/ TapMeasure \/ TapNothing)
    => IInv'
<1> SUFFICES ASSUME IInv,
                    \/ \E where \in Buttons \cup {"map"} : Press(where)
                    \/ \E d \in Drags : Move(d[1], d[2])
                    \/ ReleaseDrag \/ TapZoom \/ TapPack \/ TapStyle \/ TapInfo \/ TapMeasure
                    \/ TapNothing
             PROVE  IInv'
  OBVIOUS
<1>1. view \in Cameras /\ saved.view \in Cameras /\ sources \in Seq(Installed) /\ floor \in Nat
      /\ touch \in [down : BOOLEAN, press : Buttons \cup {"map"}, dx : Int, dy : Int]
  BY DEF IInv, Typed
<1>2. ASSUME NEW where \in Buttons \cup {"map"}, Press(where) PROVE IInv'
  <2>1. phase = "live" /\ todo = <<>> /\ ~touch.down
        /\ touch' = [down |-> TRUE, press |-> where, dx |-> 0, dy |-> 0]
        /\ UNCHANGED <<booting, phase, view, source, style, canvas, panel, todo, saved>>
    BY <1>2 DEF Press, Idle
  <2>2. Typed' /\ Dragged'
    BY <2>1 DEF IInv, Typed, Dragged, booting
  <2>3. Phased'
    BY <2>1 DEF IInv, Phased, booting
  <2>4. Shown'
    <3>1. ResolveActiveSource(view, source.active)' = ResolveActiveSource(view, source.active)
      BY <2>1, ChoiceStays
    <3> QED
      BY <2>1, <3>1 DEF IInv, Shown, Frame
  <2> QED
    BY <2>2, <2>3, <2>4 DEF IInv
<1>3. ASSUME NEW d \in Drags, Move(d[1], d[2]) PROVE IInv'
  <2>1. phase = "live" /\ todo = <<>> /\ touch.down /\ Beyond(d[1], d[2])
        /\ panel' = [frame |-> canvas, dx |-> d[1], dy |-> d[2]]
        /\ touch' = [touch EXCEPT !.dx = d[1], !.dy = d[2]]
        /\ UNCHANGED <<booting, phase, view, source, style, canvas, todo, saved>>
    BY <1>3 DEF Move, Idle
  <2>2. d[1] \in Int /\ d[2] \in Int
    BY DemoAssumption
  <2>3. /\ touch' \in [down : BOOLEAN, press : Buttons \cup {"map"}, dx : Int, dy : Int]
        /\ touch'.down /\ touch'.dx = d[1] /\ touch'.dy = d[2]
    BY <1>1, <2>1, <2>2
  <2>4. Typed'
    BY <2>1, <2>3 DEF IInv, Typed, booting
  <2>5. Phased'
    BY <2>1 DEF IInv, Phased, booting
  <2>6. Dragged'
    BY <2>1, <2>3 DEF Dragged
  <2>7. Shown'
    <3>1. ResolveActiveSource(view, source.active)' = ResolveActiveSource(view, source.active)
      BY <2>1, ChoiceStays
    <3> QED
      BY <2>1, <2>3, <3>1 DEF IInv, Shown, Frame
  <2> QED
    BY <2>4, <2>5, <2>6, <2>7 DEF IInv
<1>4. CASE ReleaseDrag \/ TapZoom \/ TapPack \/ TapStyle
  <2>1. Lift /\ UNCHANGED <<booting, phase, todo>> /\ Redraw(view', style', source.active)
    BY <1>4 DEF ReleaseDrag, TapZoom, TapPack, TapStyle, Tap
  <2>2. view' \in Cameras
    <3>1. CASE ReleaseDrag
      BY <1>1, <3>1, PannedView DEF ReleaseDrag
    <3>2. CASE TapZoom
      <4>1. view.zoom + 1 \in Int /\ view.zoom - 1 \in Int
        BY <1>1, ViewAssumption DEF Cameras
      <4> QED
        BY <1>1, <3>2, <4>1, ZoomedView DEF TapZoom, ZoomIn, ZoomOut
    <3>3. CASE TapPack
      <4>1. sources # <<>>
        BY <2>1 DEF IInv, Phased, Lift, Idle
      <4>2. SetCenter(SetZoom(view, floor), HalfWorld, HalfWorld) \in Cameras
        <5>1. HalfWorld \in Int /\ floor \in Int
          BY <1>1, Sizes
        <5> QED
          BY <1>1, <5>1, CentredView, ZoomedView
      <4>3. FocusPack(view, DeepestSource) \in Cameras
        BY <1>1, <4>1, DeepestSourceIsInstalled, FocusedView
      <4>4. WidestSource # NoPack => FocusPack(view, WidestSource) \in Cameras
        BY <1>1, WidestSourceIsInstalled, FocusedView
      <4> QED
        BY <3>3, <4>2, <4>3, <4>4 DEF TapPack
    <3>4. CASE TapStyle
      BY <1>1, <3>4 DEF TapStyle
    <3> QED
      BY <1>4, <3>1, <3>2, <3>3, <3>4
  <2>3. saved'.view \in Cameras
    BY <1>1, <1>4, <2>2 DEF ReleaseDrag, TapZoom, TapPack, TapStyle, Remember
  <2>4. Typed' /\ Phased' /\ Dragged' /\ ~touch'.down
    BY <2>1, <2>2, <2>3, LiftedStep
  <2>5. Shown'
    BY <2>1, <2>4, RedrawShows
  <2> QED
    BY <2>4, <2>5 DEF IInv
<1>5. CASE TapInfo \/ TapNothing
  <2>1. /\ Lift /\ ~Beyond(touch.dx, touch.dy)
        /\ UNCHANGED <<booting, phase, view, source, style, canvas, todo, saved>>
        /\ panel' = panel \/ panel' = [frame |-> canvas, dx |-> 0, dy |-> 0]
    BY <1>5 DEF TapInfo, TapNothing, Tap, Present
  <2>2. /\ Typed' /\ Phased' /\ Dragged' /\ ~touch'.down
        /\ phase = "live" /\ todo = <<>> /\ touch.down
    BY <1>1, <2>1, LiftedStep
  <2>3. touch.dx = 0 /\ touch.dy = 0
    BY <2>1, <2>2 DEF IInv, Dragged
  <2>4. panel' = [frame |-> canvas, dx |-> 0, dy |-> 0]
    BY <2>1, <2>2, <2>3 DEF IInv, Shown
  <2>5. Shown'
    <3>1. ResolveActiveSource(view, source.active)' = ResolveActiveSource(view, source.active)
      BY <2>1, ChoiceStays
    <3> QED
      BY <2>1, <2>2, <2>4, <3>1 DEF IInv, Shown, Frame
  <2> QED
    BY <2>2, <2>5 DEF IInv
<1>6. CASE TapMeasure
  <2>1. /\ Lift /\ UNCHANGED <<booting, phase, view>> /\ saved'.view = view
        /\ todo' = RunBenchmarks \/ todo' = RunZoomPanSweep
    BY <1>6 DEF TapMeasure, Tap, Remember
  <2>2. EndsFinally(todo', Seqs!ToSet(sources))
    <3>1. EndsFinally(RunBenchmarks, Seqs!ToSet(sources)) /\ EndsFinally(RunZoomPanSweep, Seqs!ToSet(sources))
      BY <1>1, BenchmarkOps, SweepOps
    <3> QED
      BY <2>1, <3>1 DEF EndsFinally
  <2>3. Typed' /\ Phased' /\ Dragged'
    BY <1>1, <2>1, <2>2, LiftedStep
  <2>4. Shown'
    BY <2>2, MeasuringShows DEF EndsFinally
  <2> QED
    BY <2>3, <2>4 DEF IInv
<1> QED
  BY <1>2, <1>3, <1>4, <1>5, <1>6

LEMMA StepInv == IInv /\ [Next]_vars => IInv'
<1> SUFFICES ASSUME IInv, [Next]_vars PROVE IInv'
  OBVIOUS
<1>1. CASE UNCHANGED vars
  <2>1. UNCHANGED booting /\ UNCHANGED <<phase, view, source, style, canvas, panel, touch, todo, saved>>
    BY <1>1 DEF vars, booting
  <2>2. Typed' /\ Phased' /\ Dragged'
    BY <2>1 DEF IInv, Typed, Phased, Dragged, booting
  <2>3. ResolveActiveSource(view, source.active)' = ResolveActiveSource(view, source.active)
    BY <2>1, ChoiceStays
  <2>4. Shown'
    BY <2>1, <2>3 DEF IInv, Shown, Frame
  <2> QED
    BY <2>2, <2>4 DEF IInv
<1>2. CASE Next
  BY <1>2, BootInv, OpenInv, MeasureInv, TouchInv DEF Next
<1> QED
  BY <1>1, <1>2

LEMMA Invariance == Spec => []IInv
<1> QED
  BY InitInv, StepInv, PTL DEF Spec

\* What is on the panel is always what drawing the camera's view would show.
THEOREM PanelIsTheCamera == Spec => []PanelShowsTheCamera
<1>1. IInv => PanelShowsTheCamera
  BY DEF IInv, Shown, PanelShowsTheCamera
<1> QED
  BY <1>1, Invariance, PTL

-----------------------------------------------------------------------------
(* Lifting the finger.                                                     *)

\* The camera moves by exactly what the finger has shown.
LEMMA ReleasedWhereShown ==
  ASSUME NEW v \in Cameras, NEW dx \in Int, NEW dy \in Int, NEW u, u = PanByPixels(v, -dx, -dy),
         v.y - dy * Px(v.zoom) \in 0..World
  PROVE  ProjectLatLon(u, <<v.x, v.y>>) = <<WrappedDelta(dx * Px(v.zoom)), dy * Px(v.zoom)>>
<1> DEFINE a == dx * Px(v.zoom)
           b == dy * Px(v.zoom)
           m == (v.x - a) % World
           q == (v.x - a) \div World
<1>1. v.x \in Int /\ v.y \in Int /\ Px(v.zoom) \in Int /\ World \in Nat \ {0} /\ HalfWorld \in Int
  BY Sizes DEF Cameras
<1>2. a \in Int /\ b \in Int /\ (-dx) * Px(v.zoom) = -a /\ (-dy) * Px(v.zoom) = -b
  BY <1>1
<1>3. v.y - b \in 0..World
  OBVIOUS
<1>4. u.x = m /\ u.y = v.y - b
  <2>1. u = SetCenter(v, v.x + (-a), v.y + (-b))
    BY <1>2 DEF PanByPixels
  <2> HIDE DEF a, b
  <2>2. v.x + (-a) = v.x - a /\ v.y + (-b) = v.y - b
    BY <1>1, <1>2
  <2>3. u.x = WrapX(v.x - a) /\ u.y = ClampY(v.y - b)
    BY <2>1, <2>2 DEF SetCenter, Cameras
  <2>4. ClampY(v.y - b) = v.y - b
    BY <1>1, <1>2, <1>3 DEF ClampY, Clamp
  <2> QED
    BY <2>3, <2>4 DEF WrapX
<1> HIDE DEF a, b
<1>5. m \in Int /\ q \in Int /\ v.x - a = World * q + m
  <2>1. v.x - a \in Int
    BY <1>1, <1>2
  <2> QED
    BY <1>1, <2>1, QuotientAndRest DEF m, q
<1> HIDE DEF m, q
<1>6. v.x - m + HalfWorld = (a + HalfWorld) + World * q
  <2>1. PICK t \in Int : t = World * q
    BY <1>1, <1>5
  <2>2. v.x - a = t + m
    BY <1>5, <2>1
  <2>3. m \in Int /\ v.x \in Int /\ a \in Int /\ HalfWorld \in Int
    BY <1>1, <1>2, <1>5
  <2>4. v.x - m + HalfWorld = (a + HalfWorld) + t
    BY ONLY <2>2, <2>3, t \in Int
  <2> QED
    BY <2>1, <2>4
<1>7. WrappedDelta(v.x - m) = WrappedDelta(a)
  <2>1. a + HalfWorld \in Int
    BY <1>1, <1>2
  <2>2. ((a + HalfWorld) + World * q) % World = (a + HalfWorld) % World
    BY <1>1, <1>5, <2>1, TurnsDoNotCount
  <2> QED
    BY <1>6, <2>2 DEF WrappedDelta
<1>8. v.y - (v.y - b) = b
  BY <1>1, <1>2
<1> QED
  BY <1>4, <1>7, <1>8 DEF ProjectLatLon, a, b

\* When the finger leaves the map, the map stays where the panel showed it.
THEOREM MapStaysUnderTheFinger == Spec => NothingJumps
<1> DEFINE Stays ==
             touch.down /\ ~touch'.down /\ view.zoom = view'.zoom /\ touch.press = "map"
               /\ view.y - panel.dy * Px(view.zoom) \in 0..World =>
                 ProjectLatLon(view', <<view.x, view.y>>)
                   = <<WrappedDelta(panel.dx * Px(view.zoom)), panel.dy * Px(view.zoom)>>
<1>1. IInv /\ [Next]_vars => Stays
  <2> SUFFICES ASSUME IInv, [Next]_vars, touch.down, ~touch'.down, touch.press = "map",
                      view.y - panel.dy * Px(view.zoom) \in 0..World
               PROVE  ProjectLatLon(view', <<view.x, view.y>>)
                        = <<WrappedDelta(panel.dx * Px(view.zoom)), panel.dy * Px(view.zoom)>>
    OBVIOUS
  <2>1. phase = "live" /\ todo = <<>>
    BY DEF IInv, Phased
  <2>2. view \in Cameras /\ touch.dx \in Int /\ touch.dy \in Int
    BY DEF IInv, Typed
  <2>3. panel.dx = touch.dx /\ panel.dy = touch.dy
    BY <2>1 DEF IInv, Shown
  <2>4. ReleaseDrag \/ TapNothing \/ TapZoom \/ TapPack \/ TapStyle \/ TapInfo \/ TapMeasure
    <3>1. ~UNCHANGED touch
      OBVIOUS
    <3>2. ~(BootFails \/ Boot \/ OpenTab5 \/ OpenCyd) /\ ~Measure
      BY <2>1, <3>1 DEF BootFails, Boot, OpenTab5, OpenCyd, Measure, Level, PanScreen, Scenario,
                        Restore, RedrawAfter, Framing, FinalView
    <3>3. ~(\E where \in Buttons \cup {"map"} : Press(where))
      BY DEF Press
    <3>4. ~(\E d \in Drags : Move(d[1], d[2]))
      BY DEF IInv, Typed, Move
    <3> QED
      BY <3>1, <3>2, <3>3, <3>4 DEF Next, vars
  <2>5. CASE ReleaseDrag
    BY <2>2, <2>3, <2>5, ReleasedWhereShown DEF ReleaseDrag
  <2>6. CASE TapNothing
    <3>1. view' = view /\ panel.dx = 0 /\ panel.dy = 0
      BY <2>3, <2>6 DEF TapNothing, Tap, IInv, Dragged
    <3>2. view.x \in Int /\ view.y \in Int /\ Px(view.zoom) \in Int
      BY <2>2, Sizes DEF Cameras
    <3>3. view.x - view.x = 0 /\ view.y - view.y = 0 /\ 0 * Px(view.zoom) = 0
      BY <3>2
    <3> QED
      BY <3>1, <3>3 DEF ProjectLatLon
  <2>7. CASE TapZoom \/ TapPack \/ TapStyle \/ TapInfo \/ TapMeasure
    BY <2>7 DEF TapZoom, TapPack, TapStyle, TapInfo, TapMeasure, Tap
  <2> QED
    BY <2>4, <2>5, <2>6, <2>7
<1>2. NothingJumps <=> [][Stays]_vars
  BY DEF NothingJumps
<1> QED
  BY <1>1, Invariance, PTL DEF Spec, NothingJumps

-----------------------------------------------------------------------------
(* Filling and fitting.                                                    *)

LEMMA ZoomOfView ==
  ASSUME NEW v \in Cameras
  PROVE  /\ v.zoom \in 0..MaxZoom /\ v.x \in Int /\ v.y \in Int /\ v.width \in Nat /\ v.height \in Nat
         /\ Px(v.zoom) \in Nat \ {0} /\ Px(v.zoom) \div 2 \in Nat \ {0}
         /\ Px(v.zoom) = 2 * (Px(v.zoom) \div 2)
  BY Sizes DEF Cameras

\* Half a screen, in units.
HalfWidth(v) == v.width * (Px(v.zoom) \div 2)
HalfHeight(v) == v.height * (Px(v.zoom) \div 2)

LEMMA Halves ==
  ASSUME NEW v \in Cameras
  PROVE  /\ HalfWidth(v) \in Nat /\ HalfHeight(v) \in Nat
         /\ OffX(v, 0) = -HalfWidth(v) /\ OffX(v, v.width) = HalfWidth(v)
         /\ OffY(v, 0) = -HalfHeight(v) /\ OffY(v, v.height) = HalfHeight(v)
         /\ v.width * Px(v.zoom) = 2 * HalfWidth(v) /\ v.height * Px(v.zoom) = 2 * HalfHeight(v)
<1> DEFINE h == Px(v.zoom) \div 2
<1>1. h \in Nat /\ Px(v.zoom) = 2 * h /\ v.width \in Nat /\ v.height \in Nat
  BY ZoomOfView
<1> HIDE DEF h
<1>2. \A n \in Nat : /\ n * h \in Nat /\ (2 * 0 - n) * h = -(n * h) /\ (2 * n - n) * h = n * h
                     /\ n * (2 * h) = 2 * (n * h)
  <2> SUFFICES ASSUME NEW n \in Nat
               PROVE  /\ n * h \in Nat /\ (2 * 0 - n) * h = -(n * h) /\ (2 * n - n) * h = n * h
                      /\ n * (2 * h) = 2 * (n * h)
    OBVIOUS
  <2>1. 2 * 0 - n = -n /\ 2 * n - n = n
    OBVIOUS
  <2>2. n * h \in Nat /\ (-n) * h = -(n * h) /\ n * (2 * h) = 2 * (n * h)
    BY <1>1
  <2> QED
    BY <2>1, <2>2
<1>3. /\ OffX(v, 0) = (2 * 0 - v.width) * h /\ OffX(v, v.width) = (2 * v.width - v.width) * h
      /\ OffY(v, 0) = (2 * 0 - v.height) * h /\ OffY(v, v.height) = (2 * v.height - v.height) * h
      /\ HalfWidth(v) = v.width * h /\ HalfHeight(v) = v.height * h
  BY DEF OffX, OffY, HalfWidth, HalfHeight, h
<1> QED
  BY <1>1, <1>2, <1>3

\* A box on the map: its spans and its edges.
LEMMA BoxOnMap ==
  ASSUME NEW b, ViewBounds(b)
  PROVE  /\ b.min_lon \in Int /\ LonSpan(b) \in 0..World /\ LatSpan(b) \in 0..World
         /\ LatToY(b.max_lat) \in 0..World /\ LatToY(b.min_lat) = LatToY(b.max_lat) + LatSpan(b)
         /\ LatToY(b.min_lat) \in 0..World
<1>1. /\ b.min_lon \in -HalfWorld..HalfWorld /\ b.max_lon \in -HalfWorld..HalfWorld
      /\ b.min_lat \in -HalfWorld..HalfWorld /\ b.max_lat \in -HalfWorld..HalfWorld
      /\ b.min_lat <= b.max_lat
  BY DEF ViewBounds
<1>2. HalfWorld \in Nat /\ World = 2 * HalfWorld
  BY Sizes
<1>3. LonSpan(b) \in 0..World
  BY <1>1, <1>2 DEF LonSpan
<1> QED
  BY <1>1, <1>2, <1>3 DEF LatSpan, LatToY

\* What is left after whole turns.
LEMMA RestOf ==
  ASSUME NEW w \in Nat \ {0}, NEW d \in 0..w - 1, NEW q \in Int
  PROVE  (d + w * q) % w = d
<1>1. d % w = d
  OBVIOUS
<1>2. (d + w * q) % w = d % w
  <2>1. d \in Int
    OBVIOUS
  <2> QED
    BY ONLY <2>1, w \in Nat \ {0}, q \in Int, TurnsDoNotCount
<1> QED
  BY <1>1, <1>2

\* From the western edge of a box to the left edge of a screen centred on it.
LEMMA LeftOfCentre ==
  ASSUME NEW b, ViewBounds(b), NEW hw \in Nat, hw <= LonSpan(b) \div 2, LonSpan(b) < World,
         NEW x, x = WrapX(LonToX(b.min_lon + LonSpan(b) \div 2)), NEW off, off = -hw
  PROVE  WrapX(x + off - LonToX(b.min_lon)) = LonSpan(b) \div 2 - hw
<1> DEFINE half == LonSpan(b) \div 2
           west == b.min_lon + HalfWorld
           c == LonToX(b.min_lon + half)
           y == LonToX(b.min_lon)
<1>1. b.min_lon \in Int /\ LonSpan(b) \in 0..World - 1 /\ half \in 0..World - 1 /\ west \in Int
      /\ World \in Nat \ {0} /\ HalfWorld \in Int /\ hw <= half
  BY BoxOnMap, Sizes
<1> HIDE DEF half
<1>2. PICK p \in Int : west + half = World * p + c /\ c \in 0..World - 1
  <2> DEFINE t == west + half
  <2>1. t \in Int /\ c = t % World
    <3>1. (b.min_lon + half) + HalfWorld = west + half
      BY <1>1
    <3> QED
      BY <1>1, <3>1 DEF LonToX, WrapX
  <2> HIDE DEF t, c
  <2>2. t = World * (t \div World) + c /\ t \div World \in Int /\ c \in 0..World - 1
    BY <1>1, <2>1, QuotientAndRest
  <2> QED
    BY <2>2 DEF t
<1>3. x = c
  <2>1. c % World = c
    <3> HIDE DEF c
    <3> QED
      BY <1>1, <1>2
  <2>2. x = WrapX(c)
    BY DEF c, half
  <2> QED
    BY <2>1, <2>2 DEF WrapX
<1>4. PICK q \in Int : west = World * q + y /\ y \in 0..World - 1
  <2>1. y = west % World
    BY DEF LonToX, WrapX
  <2> HIDE DEF west, y
  <2>2. west = World * (west \div World) + y /\ west \div World \in Int /\ y \in 0..World - 1
    BY <1>1, <2>1, QuotientAndRest
  <2> QED
    BY <2>2
<1> HIDE DEF y, c, west
<1>5. x + off - y = (half - hw) + World * (q - p)
  <2>1. World * (q - p) = World * q - World * p /\ World * q \in Int /\ World * p \in Int
    BY <1>1
  <2>2. PICK wq \in Int, wp \in Int : wq = World * q /\ wp = World * p
    BY <2>1
  <2>3. west + half = wp + c /\ west = wq + y
    BY <1>2, <1>4, <2>2
  <2>4. x \in Int /\ y \in Int /\ c \in Int /\ half \in Int /\ west \in Int /\ hw \in Int
    BY <1>1, <1>2, <1>3, <1>4
  <2>5. x + off - y = (half - hw) + (wq - wp)
    BY ONLY <1>3, off = -hw, <2>3, <2>4, wq \in Int, wp \in Int
  <2> QED
    BY <2>1, <2>2, <2>5
<1> DEFINE d == half - hw
           m == q - p
<1>6. d \in 0..World - 1 /\ m \in Int
  BY <1>1
<1>7. (d + World * m) % World = d
  <2> HIDE DEF d, m
  <2> QED
    BY <1>1, <1>6, RestOf
<1>8. WrapX(x + off - y) = half - hw
  BY <1>5, <1>7 DEF WrapX
<1> QED
  BY <1>8 DEF y, half

LEMMA Centred ==
  ASSUME NEW v \in Cameras, NEW b, ViewBounds(b), NEW u, u = CentreOn(v, b)
  PROVE  /\ u \in Cameras /\ u.zoom = v.zoom /\ u.width = v.width /\ u.height = v.height
         /\ HalfWidth(u) = HalfWidth(v) /\ HalfHeight(u) = HalfHeight(v)
         /\ u.x = WrapX(LonToX(b.min_lon + LonSpan(b) \div 2))
         /\ u.y = LatToY(b.max_lat) + LatSpan(b) \div 2
         /\ u.x \in 0..World - 1 /\ u.y \in 0..World
<1> DEFINE x == LonToX(b.min_lon + LonSpan(b) \div 2)
           y == (LatToY(b.max_lat) + LatToY(b.min_lat)) \div 2
           top == LatToY(b.max_lat)
           span == LatSpan(b)
<1>1. u = SetCenter(v, x, y)
  BY DEF CentreOn
<1>2. top \in Int /\ span \in Nat /\ LatToY(b.min_lat) = top + span /\ top \in 0..World
      /\ top + span \in 0..World
  BY BoxOnMap, Sizes
<1>3. y = top + span \div 2 /\ y \in 0..World
  <2> HIDE DEF top, span
  <2>1. y = (top + (top + span)) \div 2
    BY <1>2 DEF top
  <2>2. (top + (top + span)) \div 2 = top + span \div 2
    <3>1. \A t \in Int, n \in Nat : (t + (t + n)) \div 2 = t + n \div 2
      OBVIOUS
    <3> QED
      BY <1>2, <3>1
  <2>3. top + span \div 2 \in 0..World
    BY <1>2, Sizes
  <2> QED
    BY <2>1, <2>2, <2>3
<1>4. ClampY(y) = y
  BY <1>3, Sizes DEF ClampY, Clamp
<1>5. x \in Int
  <2>1. b.min_lon \in Int /\ LonSpan(b) \div 2 \in Int
    BY BoxOnMap, Sizes
  <2>2. (b.min_lon + LonSpan(b) \div 2) + HalfWorld \in Int
    BY <2>1, Sizes
  <2> QED
    BY <2>2, Sizes DEF LonToX, WrapX
<1>6. u \in Cameras
  <2> HIDE DEF x, y
  <2>1. y \in Int
    BY <1>3
  <2> QED
    BY <1>1, <1>5, <2>1, CentredView
<1>7. WrapX(x) \in 0..World - 1
  <2> HIDE DEF x
  <2> QED
    BY <1>5, Sizes DEF WrapX
<1> HIDE DEF x, y
<1>8. /\ u.zoom = v.zoom /\ u.width = v.width /\ u.height = v.height
      /\ u.x = WrapX(x) /\ u.y = ClampY(y)
  BY <1>1 DEF SetCenter, Cameras
<1>9. HalfWidth(u) = HalfWidth(v) /\ HalfHeight(u) = HalfHeight(v)
  BY <1>8 DEF HalfWidth, HalfHeight
<1> QED
  BY <1>3, <1>4, <1>6, <1>7, <1>8, <1>9 DEF x

\* A screen inside a box is no larger than it.
LEMMA InsideFills ==
  ASSUME NEW u \in Cameras, NEW b, ViewBounds(b), Inside(u, b)
  PROVE  Fills(u, b, u.zoom)
<1> DEFINE hw == HalfWidth(u)
           hh == HalfHeight(u)
           top == LatToY(b.max_lat)
           span == LatSpan(b)
           left == WrapX(u.x + OffX(u, 0) - LonToX(b.min_lon))
<1>1. hw \in Nat /\ hh \in Nat /\ OffX(u, 0) = -hw /\ OffY(u, 0) = -hh /\ OffY(u, u.height) = hh
      /\ u.width * Px(u.zoom) = 2 * hw /\ u.height * Px(u.zoom) = 2 * hh
  BY Halves
<1>2. u.x \in Int /\ u.y \in Int /\ World \in Nat \ {0}
  BY ZoomOfView, Sizes
<1>3. top \in Int /\ span \in Int /\ LatToY(b.min_lat) = top + span
  BY BoxOnMap, Sizes
<1>4. LonToX(b.min_lon) \in Int /\ LonSpan(b) \in Int
  BY BoxOnMap, Sizes DEF LonToX, WrapX
<1>5. left \in 0..World - 1
  BY <1>1, <1>2, <1>4 DEF WrapX
<1> HIDE DEF hw, hh, top, span
<1>6. top <= u.y + (-hh) /\ u.y + hh <= top + span
  BY <1>1, <1>3 DEF Inside, top
<1>7. 2 * hh <= span
  BY <1>1, <1>2, <1>3, <1>6
<1>8. LonSpan(b) >= World \/ left + 2 * hw <= LonSpan(b)
  BY <1>1 DEF Inside
<1>9. LonSpan(b) >= World \/ 2 * hw <= LonSpan(b)
  <2> HIDE DEF left
  <2> QED
    BY <1>1, <1>4, <1>5, <1>8
<1> QED
  BY <1>1, <1>7, <1>9 DEF Fills, span

\* A screen no larger than a box is inside it once it is centred on it.
LEMMA FillIsInside ==
  ASSUME NEW v \in Cameras, NEW b, ViewBounds(b), Fills(v, b, v.zoom)
  PROVE  Inside(CentreOn(v, b), b)
<1> DEFINE u == CentreOn(v, b)
           hw == HalfWidth(v)
           hh == HalfHeight(v)
           top == LatToY(b.max_lat)
           span == LatSpan(b)
<1>1. /\ u \in Cameras /\ u.zoom = v.zoom /\ u.width = v.width /\ u.height = v.height
      /\ HalfWidth(u) = hw /\ HalfHeight(u) = hh
      /\ u.x = WrapX(LonToX(b.min_lon + LonSpan(b) \div 2)) /\ u.y = top + span \div 2
  BY Centred
<1> HIDE DEF u
<1>2. hw \in Nat /\ hh \in Nat /\ OffX(u, 0) = -hw /\ OffY(u, 0) = -hh /\ OffY(u, u.height) = hh
      /\ u.width * Px(u.zoom) = 2 * hw
      /\ v.width * Px(v.zoom) = 2 * hw /\ v.height * Px(v.zoom) = 2 * hh
  BY <1>1, Halves
<1>3. top \in Int /\ span \in Nat /\ LatToY(b.min_lat) = top + span /\ LonSpan(b) \in 0..World
      /\ World \in Nat
  BY BoxOnMap, Sizes
<1>4. 2 * hh <= span /\ (LonSpan(b) >= World \/ 2 * hw <= LonSpan(b))
  BY <1>2 DEF Fills
<1>5. LatToY(b.max_lat) <= u.y + OffY(u, 0) /\ u.y + OffY(u, u.height) <= LatToY(b.min_lat)
  <2> HIDE DEF hh, top, span
  <2>1. top <= (top + span \div 2) + (-hh) /\ (top + span \div 2) + hh <= top + span
    BY <1>2, <1>3, <1>4
  <2> QED
    BY <1>1, <1>2, <1>3, <2>1 DEF top
<1>6. ASSUME ~(LonSpan(b) >= World)
      PROVE  WrapX(u.x + OffX(u, 0) - LonToX(b.min_lon)) + u.width * Px(u.zoom) <= LonSpan(b)
  <2> HIDE DEF hw
  <2>1. 2 * hw <= LonSpan(b) /\ LonSpan(b) < World /\ LonSpan(b) \in Nat
    BY <1>3, <1>4, <1>6
  <2>2. hw <= LonSpan(b) \div 2
    BY <1>2, <2>1
  <2>3. WrapX(u.x + OffX(u, 0) - LonToX(b.min_lon)) = LonSpan(b) \div 2 - hw
    <3> DEFINE x == u.x
               off == OffX(u, 0)
    <3>1. /\ ViewBounds(b) /\ hw \in Nat /\ hw <= LonSpan(b) \div 2 /\ LonSpan(b) < World
          /\ x = WrapX(LonToX(b.min_lon + LonSpan(b) \div 2)) /\ off = -hw
      BY <1>1, <1>2, <2>1, <2>2
    <3> HIDE DEF x, off
    <3>2. WrapX(x + off - LonToX(b.min_lon)) = LonSpan(b) \div 2 - hw
      BY ONLY <3>1, LeftOfCentre
    <3> QED
      BY <3>2 DEF x, off
  <2>4. (LonSpan(b) \div 2 - hw) + 2 * hw <= LonSpan(b)
    BY <1>2, <2>1, <2>2
  <2> QED
    BY <1>2, <2>3, <2>4
<1>7. Inside(u, b)
  BY <1>5, <1>6 DEF Inside
<1> QED
  BY <1>7 DEF u

\* A screen that shows all of a box.
Around(u, b) ==
  /\ u.y + OffY(u, 0) <= LatToY(b.max_lat)
  /\ LatToY(b.min_lat) <= u.y + OffY(u, u.height)
  /\ LonSpan(b) <= u.width * Px(u.zoom)

LEMMA FitIsAround ==
  ASSUME NEW v \in Cameras, NEW b, ViewBounds(b)
  PROVE  Around(CentreOn(v, b), b) <=> Fits(v, b, v.zoom, 0)
<1> DEFINE u == CentreOn(v, b)
           hw == HalfWidth(v)
           hh == HalfHeight(v)
           top == LatToY(b.max_lat)
           span == LatSpan(b)
<1>1. /\ u \in Cameras /\ u.zoom = v.zoom /\ u.width = v.width /\ u.height = v.height
      /\ HalfWidth(u) = hw /\ HalfHeight(u) = hh /\ u.y = top + span \div 2
  BY Centred
<1> HIDE DEF u
<1>2. hw \in Nat /\ hh \in Nat /\ OffY(u, 0) = -hh /\ OffY(u, u.height) = hh
      /\ u.width * Px(u.zoom) = 2 * hw
      /\ v.width * Px(v.zoom) = 2 * hw /\ v.height * Px(v.zoom) = 2 * hh
  BY <1>1, Halves
<1>3. top \in Int /\ span \in Nat /\ LatToY(b.min_lat) = top + span
  BY BoxOnMap, Sizes
<1>4. Fits(v, b, v.zoom, 0) <=> (LonSpan(b) <= 2 * hw /\ span <= 2 * hh)
  <2>1. v.width - 2 * 0 = v.width /\ v.height - 2 * 0 = v.height
    BY ZoomOfView
  <2> QED
    BY <1>2, <2>1 DEF Fits
<1>5. (u.y + OffY(u, 0) <= LatToY(b.max_lat) /\ LatToY(b.min_lat) <= u.y + OffY(u, u.height))
        <=> span <= 2 * hh
  <2> HIDE DEF hh, top, span
  <2>1. ((top + span \div 2) + (-hh) <= top /\ top + span <= (top + span \div 2) + hh)
          <=> span <= 2 * hh
    BY <1>2, <1>3
  <2> QED
    BY <1>1, <1>2, <1>3, <2>1 DEF top
<1>6. Around(u, b) <=> (LonSpan(b) <= 2 * hw /\ span <= 2 * hh)
  BY <1>2, <1>5 DEF Around
<1> QED
  BY <1>4, <1>6 DEF u

\* A larger pixel needs a larger box.
LEMMA FillsDeeper ==
  ASSUME NEW v \in Cameras, NEW b, ViewBounds(b), NEW y \in 0..MaxZoom, NEW z \in 0..MaxZoom, y <= z,
         Fills(v, b, y)
  PROVE  Fills(v, b, z)
<1>1. Px(z) <= Px(y) /\ Px(z) \in Nat /\ Px(y) \in Nat /\ v.width \in Nat /\ v.height \in Nat
  BY PixelsShrink, Sizes, ZoomOfView
<1>2. LonSpan(b) \in Int /\ LatSpan(b) \in Int
  BY BoxOnMap, Sizes
<1>3. \A n \in Nat : n * Px(z) <= n * Px(y) /\ n * Px(z) \in Nat /\ n * Px(y) \in Nat
  <2>1. \A n, i, j \in Nat : i <= j => n * i <= n * j /\ n * i \in Nat /\ n * j \in Nat
    <3> SUFFICES ASSUME NEW n \in Nat, NEW i \in Nat, NEW j \in Nat, i <= j
                 PROVE  n * i <= n * j /\ n * i \in Nat /\ n * j \in Nat
      OBVIOUS
    <3>1. n * i \in Nat /\ n * j \in Nat /\ n * (j - i) \in Nat /\ n * (j - i) = n * j - n * i
      OBVIOUS
    <3> QED
      BY <3>1
  <2> QED
    BY <1>1, <2>1
<1>4. /\ v.height * Px(z) <= v.height * Px(y) /\ v.width * Px(z) <= v.width * Px(y)
      /\ v.height * Px(z) \in Nat /\ v.height * Px(y) \in Nat
      /\ v.width * Px(z) \in Nat /\ v.width * Px(y) \in Nat
  BY <1>1, <1>3
<1>5. v.height * Px(y) <= LatSpan(b) /\ (LonSpan(b) >= World \/ v.width * Px(y) <= LonSpan(b))
  BY DEF Fills
<1>6. v.height * Px(z) <= LatSpan(b)
  BY <1>2, <1>4, <1>5
<1>7. LonSpan(b) >= World \/ v.width * Px(z) <= LonSpan(b)
  BY <1>2, <1>4, <1>5
<1> QED
  BY <1>6, <1>7 DEF Fills

\* The zoom that is found fills, if there is one, and no shallower one does.
LEMMA LeastFill ==
  ASSUME NEW v, NEW b, ViewBounds(b)
  PROVE  /\ MinFillZoom(v, b) # NoZoom => MinFillZoom(v, b) \in 0..MaxZoom /\ Fills(v, b, MinFillZoom(v, b))
         /\ \A z \in 0..MaxZoom : Fills(v, b, z) => MinFillZoom(v, b) <= z
<1> DEFINE zooms == {z \in 0..MaxZoom : Fills(v, b, z)}
<1>1. MinFillZoom(v, b) = Shallowest(zooms)
  BY DEF MinFillZoom
<1>2. zooms \in SUBSET Nat
  OBVIOUS
<1>3. \A z : z \in zooms <=> z \in 0..MaxZoom /\ Fills(v, b, z)
  OBVIOUS
<1> HIDE DEF zooms
<1>4. CASE zooms = {}
  BY <1>1, <1>3, <1>4 DEF Shallowest
<1>5. CASE zooms # {}
  <2>1. Shallowest(zooms) \in zooms /\ \A z \in zooms : Shallowest(zooms) <= z
    BY <1>2, <1>5, ShallowestOf
  <2> QED
    BY <1>1, <1>3, <2>1
<1> QED
  BY <1>4, <1>5

LEMMA AtZoom ==
  ASSUME NEW v \in Cameras, NEW z \in 0..MaxZoom, NEW u, u = SetZoom(v, z)
  PROVE  /\ u \in Cameras /\ u.zoom = z /\ u.width = v.width /\ u.height = v.height
         /\ u = [v EXCEPT !.zoom = z]
         /\ \A b : Fills(u, b, z) <=> Fills(v, b, z)
         /\ \A b : Fits(u, b, z, 0) <=> Fits(v, b, z, 0)
<1>1. Clamp(z, 0, MaxZoom) = z
  BY ViewAssumption DEF Clamp
<1>2. u = [v EXCEPT !.zoom = z]
  BY <1>1 DEF SetZoom
<1>3. u \in Cameras /\ u.zoom = z /\ u.width = v.width /\ u.height = v.height
  BY <1>2 DEF Cameras
<1> QED
  BY <1>2, <1>3 DEF Fills, Fits

\* Filling a screen with a box and fitting a box into a screen, for any screen
\* and any box: no margin and nothing cut off, at the zoom that does it and at
\* no zoom beyond it (viewport.cpp, FillBounds and FitBounds).
THEOREM FilledOrFitted == \A v \in Cameras : \A b : FillLeavesNoMargin(v, b)
<1> SUFFICES ASSUME NEW v \in Cameras, NEW b PROVE FillLeavesNoMargin(v, b)
  OBVIOUS
<1> DEFINE at(z) == CentreOn(SetZoom(v, z), b)
<1>1. ASSUME ViewBounds(b), NEW z \in 0..MaxZoom
      PROVE  /\ at(z).zoom = z
             /\ Inside(at(z), b) <=> Fills(v, b, z)
             /\ Around(at(z), b) <=> Fits(v, b, z, 0)
  <2> DEFINE s == SetZoom(v, z)
             u == at(z)
  <2>1. /\ s \in Cameras /\ s.zoom = z
        /\ Fills(s, b, z) <=> Fills(v, b, z)
        /\ Fits(s, b, z, 0) <=> Fits(v, b, z, 0)
    BY AtZoom
  <2>2. u = CentreOn(s, b)
    OBVIOUS
  <2> HIDE DEF s, u
  <2>3. u \in Cameras /\ u.zoom = z /\ u.width = s.width /\ u.height = s.height
    BY <1>1, <2>1, <2>2, Centred
  <2>4. Fills(u, b, z) <=> Fills(s, b, z)
    BY <2>3 DEF Fills
  <2>5. Inside(u, b) => Fills(u, b, z)
    BY <1>1, <2>3, InsideFills
  <2>6. Fills(s, b, z) => Inside(u, b)
    BY <1>1, <2>1, <2>2, FillIsInside
  <2>7. Around(u, b) <=> Fits(s, b, z, 0)
    BY <1>1, <2>1, <2>2, FitIsAround
  <2>8. /\ u.zoom = z
        /\ Inside(u, b) <=> Fills(v, b, z)
        /\ Around(u, b) <=> Fits(v, b, z, 0)
    BY <2>1, <2>3, <2>4, <2>5, <2>6, <2>7
  <2> QED
    BY <2>8 DEF u
<1>2. ASSUME CanFill(v, b)
      PROVE  /\ Inside(FillBounds(v, b), b)
             /\ \A z \in 0..FillBounds(v, b).zoom - 1 : ~Inside(at(z), b)
  <2> DEFINE m == MinFillZoom(v, b)
  <2>1. ViewBounds(b) /\ m # NoZoom
    BY <1>2 DEF CanFill, MinFillZoom
  <2>2. m \in 0..MaxZoom /\ Fills(v, b, m) /\ \A z \in 0..MaxZoom : Fills(v, b, z) => m <= z
    BY <2>1, LeastFill
  <2>3. FillBounds(v, b) = at(m)
    BY DEF FillBounds
  <2> HIDE DEF m, at
  <2>4. ASSUME NEW z \in 0..m - 1 PROVE ~Inside(at(z), b)
    <3>1. z \in 0..MaxZoom /\ ~(m <= z)
      BY <2>2, ViewAssumption
    <3> QED
      BY <1>1, <2>1, <2>2, <3>1
  <2>5. Inside(at(m), b) /\ at(m).zoom = m
    BY <1>1, <2>1, <2>2
  <2> QED
    BY <2>3, <2>4, <2>5
<1>3. ASSUME CanFit(v, b, 0)
      PROVE  /\ \A z \in FitBounds(v, b, 0).zoom + 1..MaxZoom : ~Around(at(z), b)
             /\ Around(FitBounds(v, b, 0), b) \/ \A z \in 0..MaxZoom : ~Around(at(z), b)
  <2> DEFINE zooms == {z \in 0..MaxZoom : Fits(v, b, z, 0)}
             best == IF zooms = {} THEN 0 ELSE CHOOSE z \in zooms : \A y \in zooms : y <= z
  <2>1. ViewBounds(b)
    BY <1>3 DEF CanFit
  <2>2. FitBounds(v, b, 0) = at(best)
    BY DEF FitBounds
  <2>3. zooms \in SUBSET (0..MaxZoom) /\ \A z : z \in zooms <=> z \in 0..MaxZoom /\ Fits(v, b, z, 0)
    OBVIOUS
  <2> HIDE DEF zooms
  <2>4. zooms # {} => best \in zooms /\ \A y \in zooms : y <= best
    <3>1. zooms # {} => \E z \in zooms : \A y \in zooms : y <= z
      BY <2>3, GreatestUpTo, ViewAssumption
    <3> QED
      BY <3>1
  <2>5. zooms = {} => best = 0
    OBVIOUS
  <2> HIDE DEF best, at
  <2>6. best \in 0..MaxZoom
    <3>1. 0 \in 0..MaxZoom
      BY ViewAssumption
    <3> QED
      BY <2>3, <2>4, <2>5, <3>1
  <2>7. at(best).zoom = best
    BY <1>1, <2>1, <2>6
  <2>8. \A z \in 0..MaxZoom : Around(at(z), b) => z \in zooms
    BY <1>1, <2>1, <2>3
  <2>9. ASSUME NEW z \in best + 1..MaxZoom PROVE ~Around(at(z), b)
    <3>1. z \in 0..MaxZoom /\ ~(z <= best)
      BY <2>6, ViewAssumption
    <3> QED
      BY <2>4, <2>8, <3>1
  <2>10. Around(at(best), b) \/ \A z \in 0..MaxZoom : ~Around(at(z), b)
    BY <1>1, <2>1, <2>3, <2>4, <2>6, <2>8
  <2> QED
    BY <2>2, <2>7, <2>9, <2>10
<1> HIDE DEF at
<1> QED
  BY <1>2, <1>3 DEF FillLeavesNoMargin, Around, at

-----------------------------------------------------------------------------
(* Zooming and panning at a point.                                         *)

\* To the left by as much as to the right, whatever turns lie between.
LEMMA ThereAndBack ==
  ASSUME NEW a \in 0..World - 1, NEW o \in Int
  PROVE  WrapX(WrapX(a - o) + o) = a
<1> DEFINE m == WrapX(a - o)
           q == (a - o) \div World
<1>1. World \in Nat \ {0} /\ a \in Int /\ a - o \in Int
  BY Sizes
<1>2. a - o = World * q + m /\ m \in Int /\ q \in Int
  BY <1>1, QuotientAndRest DEF WrapX
<1> HIDE DEF m, q
<1>3. m + o = a + World * (-q)
  <2>1. PICK t \in Int : t = World * q /\ World * (-q) = -t
    BY <1>1, <1>2
  <2>2. a - o = t + m
    BY <1>2, <2>1
  <2>3. m + o = a + (-t)
    BY <1>1, <1>2, <2>2
  <2> QED
    BY <2>1, <2>3
<1> DEFINE n == -q
<1>4. n \in Int
  BY <1>2
<1>5. m + o = a + World * n
  BY <1>3
<1> HIDE DEF n
<1>6. (a + World * n) % World = a
  BY <1>1, <1>4, RestOf
<1>7. WrapX(m + o) = a
  BY <1>5, <1>6 DEF WrapX
<1> QED
  BY <1>7 DEF m

LEMMA OnMap == \A y \in 0..World : ClampY(y) = y
  BY Sizes DEF ClampY, Clamp

\* Zooming at a point and panning by a point, for any screen, point and number
\* of zooms: the point stays where it is seen, and the map moves by what the
\* point moved, as long as no pole is reached (viewport.cpp, ZoomAtScreenPoint
\* and PanByPixels).
THEOREM PointsStay == \A v \in Cameras : \A sx, sy, delta \in Int : AnchorStays(v, sx, sy, delta)
<1> SUFFICES ASSUME NEW v \in Cameras, NEW sx \in Int, NEW sy \in Int, NEW delta \in Int
             PROVE  AnchorStays(v, sx, sy, delta)
  OBVIOUS
<1>1. v.zoom \in 0..MaxZoom /\ v.x \in Int /\ v.y \in Int /\ Px(v.zoom) \in Int
  BY ZoomOfView
<1>2. \A u \in Cameras : OffX(u, sx) \in Int /\ OffY(u, sy) \in Int
  BY ZoomOfView DEF OffX, OffY
<1> DEFINE w == ZoomAtScreenPoint(v, sx, sy, delta)
           s == SetZoom(v, v.zoom + delta)
           a == ScreenToLatLon(v, sx, sy)
           ox == OffX(s, sx)
           oy == OffY(s, sy)
<1>3. s \in Cameras /\ ox \in Int /\ oy \in Int
  <2>1. v.zoom + delta \in Int
    BY <1>1
  <2> QED
    BY <1>2, <2>1, ZoomedView
<1>4. a[1] \in 0..World - 1 /\ a[2] \in 0..World
  <2>1. v.x + OffX(v, sx) \in Int /\ v.y + OffY(v, sy) \in Int
    BY <1>1, <1>2
  <2> QED
    BY <2>1, Sizes DEF ScreenToLatLon, WrapX, ClampY, Clamp
<1>5. w = SetCenter(s, a[1] - ox, a[2] - oy)
  BY DEF ZoomAtScreenPoint
<1>6. a = <<a[1], a[2]>>
  BY DEF ScreenToLatLon
<1> HIDE DEF w, s, a
<1>7. w.x = WrapX(a[1] - ox) /\ w.y = ClampY(a[2] - oy) /\ OffX(w, sx) = ox /\ OffY(w, sy) = oy
  BY <1>3, <1>5 DEF SetCenter, Cameras, OffX, OffY
<1> HIDE DEF ox, oy
<1>8. ASSUME a[2] - OffY(w, sy) \in 0..World PROVE ScreenToLatLon(w, sx, sy) = a
  <2>1. WrapX(w.x + OffX(w, sx)) = a[1]
    BY <1>3, <1>4, <1>7, ThereAndBack
  <2>2. w.y = a[2] - oy
    BY <1>7, <1>8, OnMap
  <2>3. (a[2] - oy) + oy = a[2]
    BY <1>3, <1>4, Sizes
  <2>4. ClampY(w.y + OffY(w, sy)) = a[2]
    BY <1>4, <1>7, <2>2, <2>3, OnMap
  <2> QED
    BY <1>6, <2>1, <2>4 DEF ScreenToLatLon
<1>9. ASSUME v.y + sy * Px(v.zoom) \in 0..World
      PROVE  ProjectLatLon(PanByPixels(v, sx, sy), <<v.x, v.y>>)
               = <<WrappedDelta(-sx * Px(v.zoom)), -sy * Px(v.zoom)>>
  <2> DEFINE dx == -sx
             dy == -sy
             u == PanByPixels(v, sx, sy)
  <2>1. dx \in Int /\ dy \in Int /\ sx = -dx /\ sy = -dy
    OBVIOUS
  <2>2. u = PanByPixels(v, -dx, -dy)
    <3> HIDE DEF dx, dy
    <3> QED
      BY <2>1
  <2>3. dx * Px(v.zoom) = -sx * Px(v.zoom) /\ dy * Px(v.zoom) = -sy * Px(v.zoom)
    BY <1>1
  <2>4. v.y - dy * Px(v.zoom) \in 0..World
    <3>1. v.y - dy * Px(v.zoom) = v.y + sy * Px(v.zoom)
      BY <1>1
    <3> QED
      BY <1>9, <3>1
  <2> HIDE DEF dx, dy, u
  <2>5. ProjectLatLon(u, <<v.x, v.y>>) = <<WrappedDelta(dx * Px(v.zoom)), dy * Px(v.zoom)>>
    BY ONLY <2>1, <2>2, <2>4, v \in Cameras, ReleasedWhereShown
  <2> QED
    BY <2>3, <2>5 DEF u
<1> QED
  BY <1>8, <1>9 DEF AnchorStays, w, a

-----------------------------------------------------------------------------
(* The tiles of a screen.                                                  *)

\* What lies at or before a grid line, and what before the next one.
LEMMA FloorAt ==
  ASSUME NEW a \in Int, NEW s \in Nat \ {0}, NEW c \in Int
  PROVE  /\ c <= a \div s <=> c * s <= a
         /\ a \div s <= c <=> a < (c + 1) * s
<1> DEFINE q == a \div s
           r == a % s
<1>1. r \in 0..s - 1 /\ q \in Int /\ a = s * q + r
  BY QuotientAndRest
<1> HIDE DEF q, r
<1>2. \A d \in Int : /\ d >= 0 => s * d >= 0
                     /\ d >= 1 => s * d >= s
                     /\ d <= -1 => s * d <= -s
  OBVIOUS
<1> DEFINE d == c - q
<1>3. d \in Int /\ c = q + d
  BY <1>1
<1>4. c * s = s * q + s * d /\ (c + 1) * s = s * q + s * d + s /\ s * q \in Int /\ s * d \in Int
  BY <1>1
<1> HIDE DEF d
<1>5. PICK sq \in Int, sd \in Int : sq = s * q /\ sd = s * d
  BY <1>4
<1>6. /\ d >= 0 => sd >= 0
      /\ d >= 1 => sd >= s
      /\ d <= -1 => sd <= -s
  BY <1>2, <1>3, <1>5
<1>7. a = sq + r /\ c * s = sq + sd /\ (c + 1) * s = sq + sd + s
  BY <1>1, <1>4, <1>5
<1>8. c <= q <=> sq + sd <= sq + r
  BY <1>1, <1>3, <1>5, <1>6
<1>9. q <= c <=> sq + r < sq + sd + s
  BY <1>1, <1>3, <1>5, <1>6
<1> QED
  BY <1>7, <1>8, <1>9 DEF q

\* What begins before a place, on a grid whose last line before it CeilDiv counts.
LEMMA CeilAt ==
  ASSUME NEW a \in Int, NEW s \in Nat \ {0}, NEW c \in Int
  PROVE  CeilDiv(a, s) \in Int /\ (c <= CeilDiv(a, s) - 1 <=> c * s < a)
<1> DEFINE m == -a
           k == -c
           q == m \div s
<1>1. m \in Int /\ k \in Int /\ k - 1 \in Int
  OBVIOUS
<1>2. q \in Int /\ CeilDiv(a, s) = -q
  BY <1>1, QuotientAndRest DEF CeilDiv
<1>3. q <= k - 1 <=> m < ((k - 1) + 1) * s
  <2> DEFINE j == k - 1
  <2>1. j \in Int /\ m \in Int
    BY <1>1
  <2> HIDE DEF j, m
  <2> QED
    BY <2>1, FloorAt DEF j
<1>4. ((k - 1) + 1) * s = -(c * s) /\ c * s \in Int
  <2>1. (k - 1) + 1 = -c
    OBVIOUS
  <2>2. (-c) * s = -(c * s) /\ c * s \in Int
    OBVIOUS
  <2> QED
    BY <2>1, <2>2
<1> HIDE DEF q
<1>5. m < -(c * s) <=> c * s < a
  BY <1>4
<1>6. q <= k - 1 <=> c <= -q - 1
  BY <1>2
<1> QED
  BY <1>2, <1>3, <1>4, <1>5, <1>6

\* The world is as many tiles wide as a zoom has.
LEMMA Grid ==
  \A z \in 0..MaxZoom : /\ TilesPerAxis(z) \in Nat \ {0} /\ Side(z) \in Nat \ {0}
                        /\ World = Side(z) * TilesPerAxis(z)
<1>1. ASSUME NEW z \in 0..MaxZoom PROVE TilesPerAxis(z) \in Nat \ {0} /\ Side(z) \in Nat \ {0}
  <2>1. z \in 0..MaxZoom + 1
    BY ViewAssumption
  <2>2. TilesPerAxis(z) \in Nat \ {0}
    BY <2>1, Powers DEF TilesPerAxis
  <2>3. Px(z) \in Nat \ {0} /\ Tile \in Nat \ {0}
    BY Sizes, ViewAssumption
  <2>4. \A a, b \in Nat \ {0} : a * b \in Nat \ {0}
    OBVIOUS
  <2> QED
    BY <2>2, <2>3, <2>4 DEF Side
<1> DEFINE T == {z \in 0..MaxZoom : World = Side(z) * TilesPerAxis(z)}
<1>2. 0 \in T
  <2>1. 0 \in 0..MaxZoom
    BY ViewAssumption
  <2>2. Side(0) = World /\ World * 1 = World
    BY Sizes DEF Side, World
  <2> QED
    BY <2>1, <2>2, Powers DEF TilesPerAxis
<1>3. ASSUME NEW z \in 0..MaxZoom - 1, z \in T PROVE z + 1 \in T
  <2> DEFINE m == MaxZoom - z + 1
  <2>1. /\ z \in 0..MaxZoom /\ z + 1 \in 0..MaxZoom /\ z + 1 \in 1..MaxZoom + 1
        /\ m \in 1..MaxZoom + 1 /\ MaxZoom - (z + 1) + 1 = m - 1 /\ (z + 1) - 1 = z
    BY ViewAssumption
  <2>2. Px(z) = PowerOfTwo[m] /\ Px(z + 1) = PowerOfTwo[m - 1]
    BY <2>1 DEF Px
  <2>3. Px(z) = 2 * Px(z + 1)
    <3> HIDE DEF m
    <3> QED
      BY <2>1, <2>2, Powers
  <2>4. TilesPerAxis(z + 1) = 2 * TilesPerAxis(z)
    BY <2>1, Powers DEF TilesPerAxis
  <2>5. \A a, b, c \in Nat : (a * (2 * b)) * c = (a * b) * (2 * c)
    <3> SUFFICES ASSUME NEW a \in Nat, NEW b \in Nat, NEW c \in Nat PROVE (a * (2 * b)) * c = (a * b) * (2 * c)
      OBVIOUS
    <3>1. PICK t \in Nat : t = a * b
      OBVIOUS
    <3>2. a * (2 * b) = 2 * t
      BY <3>1
    <3>3. (2 * t) * c = t * (2 * c)
      OBVIOUS
    <3> QED
      BY <3>1, <3>2, <3>3
  <2>6. Tile \in Nat /\ Px(z + 1) \in Nat /\ TilesPerAxis(z) \in Nat
    BY <1>1, <2>1, Sizes, ViewAssumption
  <2>7. World = (Tile * (2 * Px(z + 1))) * TilesPerAxis(z)
    BY <1>3, <2>3 DEF Side
  <2>8. World = Side(z + 1) * TilesPerAxis(z + 1)
    BY <2>4, <2>5, <2>6, <2>7 DEF Side
  <2> QED
    BY <2>1, <2>8
<1>4. \A z \in 0..MaxZoom : z \in T
  <2> HIDE DEF T
  <2> QED
    BY <1>2, <1>3, ViewAssumption, UpTo
<1> QED
  BY <1>1, <1>4

\* The tile of a point around the world.
LEMMA TileAround ==
  ASSUME NEW a \in Int, NEW z \in 0..MaxZoom
  PROVE  WrapX(a) \div Side(z) = (a \div Side(z)) % TilesPerAxis(z)
<1> DEFINE s == Side(z)
           t == TilesPerAxis(z)
           q == a \div s
           r == a % s
           k == q \div t
           m == q % t
<1>1. s \in Nat \ {0} /\ t \in Nat \ {0} /\ World = s * t
  BY Grid
<1> HIDE DEF s, t
<1>2. r \in 0..s - 1 /\ q \in Int /\ a = s * q + r
  BY <1>1, QuotientAndRest
<1> HIDE DEF q, r
<1>3. m \in 0..t - 1 /\ k \in Int /\ q = t * k + m
  BY <1>1, <1>2, QuotientAndRest
<1> HIDE DEF k, m
<1> DEFINE d == s * m + r
<1>4. s * (t * k + m) = (s * t) * k + s * m
  <2>1. \A x \in Int, y \in Int : s * (x + y) = s * x + s * y
    BY <1>1
  <2>2. t * k \in Int /\ m \in Int
    BY <1>1, <1>3
  <2>3. s * (t * k) = (s * t) * k
    BY <1>1, <1>3
  <2> QED
    BY <2>1, <2>2, <2>3
<1>5. s * m \in Nat /\ s * m <= World - s
  <2>1. t - 1 - m \in Nat
    BY <1>1, <1>3
  <2>2. s * (t - 1 - m) \in Nat /\ s * (t - 1 - m) = s * t - s - s * m /\ s * m \in Nat /\ s * t \in Nat
    BY <1>1, <1>3, <2>1
  <2> QED
    BY <1>1, <2>2
<1>6. d \in 0..World - 1 /\ World \in Nat \ {0}
  BY <1>1, <1>2, <1>5, Sizes
<1>7. a = d + World * k
  <2>1. s * q = World * k + s * m
    BY <1>1, <1>3, <1>4
  <2>2. World * k \in Int /\ s * m \in Int /\ r \in Int
    BY <1>2, <1>3, <1>5, <1>6
  <2> QED
    BY <1>2, <2>1, <2>2
<1>8. WrapX(a) = d
  <2> HIDE DEF d
  <2>1. (d + World * k) % World = d
    BY <1>3, <1>6, RestOf
  <2> QED
    BY <1>7, <2>1 DEF WrapX
<1>9. d \div s = m
  <2> DEFINE p == d \div s
  <2>1. d \in Int /\ m \in Int
    BY <1>3, <1>6
  <2>2. m * s <= d /\ d < (m + 1) * s
    <3>1. m * s = s * m /\ (m + 1) * s = s * m + s /\ s * m \in Int
      BY <1>1, <2>1
    <3> QED
      BY <1>1, <1>2, <3>1
  <2> HIDE DEF d
  <2>3. m <= p /\ p <= m /\ p \in Int
    BY <1>1, <2>1, <2>2, FloorAt, QuotientAndRest
  <2> QED
    BY <2>1, <2>3
<1> QED
  BY <1>8, <1>9 DEF s, t, q, m

\* A pixel begins before the right and the lower edge of the screen.
LEMMA PixelStarts ==
  ASSUME NEW v \in Cameras
  PROVE  /\ \A sx \in 0..v.width - 1 : OffX(v, sx) \in -HalfWidth(v)..HalfWidth(v) - 1
         /\ \A sy \in 0..v.height - 1 : OffY(v, sy) \in -HalfHeight(v)..HalfHeight(v) - 1
<1> DEFINE h == Px(v.zoom) \div 2
<1>1. h \in Nat \ {0} /\ v.width \in Nat /\ v.height \in Nat
  BY ZoomOfView
<1> HIDE DEF h
<1>2. \A w \in Nat : \A s \in 0..w - 1 : (2 * s - w) * h \in -(w * h)..w * h - 1
  <2> SUFFICES ASSUME NEW w \in Nat, NEW s \in 0..w - 1 PROVE (2 * s - w) * h \in -(w * h)..w * h - 1
    OBVIOUS
  <2>1. (2 * s - w) * h = 2 * (s * h) - w * h /\ s * h \in Nat /\ w * h \in Nat
    BY <1>1
  <2>2. w - s \in Nat \ {0}
    OBVIOUS
  <2>3. (w - s) * h \in Nat \ {0} /\ (w - s) * h = w * h - s * h
    <3>1. \A a, b \in Nat \ {0} : a * b \in Nat \ {0}
      OBVIOUS
    <3> QED
      BY <1>1, <2>2, <3>1
  <2> DEFINE a == s * h
             b == w * h
             c == (w - s) * h
             d == (2 * s - w) * h
  <2>4. a \in Nat /\ b \in Nat /\ c \in Nat \ {0} /\ c = b - a /\ d = 2 * a - b
    BY <2>1, <2>3
  <2> HIDE DEF a, b, c, d
  <2>5. d \in -b..b - 1
    BY <2>4
  <2> QED
    BY <2>5 DEF b, d
<1>3. /\ \A sx \in 0..v.width - 1 : OffX(v, sx) = (2 * sx - v.width) * h
      /\ \A sy \in 0..v.height - 1 : OffY(v, sy) = (2 * sy - v.height) * h
      /\ HalfWidth(v) = v.width * h /\ HalfHeight(v) = v.height * h
  BY DEF OffX, OffY, HalfWidth, HalfHeight, h
<1> QED
  BY <1>1, <1>2, <1>3

\* The columns and rows enumerated are those that meet the screen.
LEMMA ColumnsOf ==
  ASSUME NEW v \in Cameras
  PROVE  /\ FirstColumn(v) \in Int /\ LastColumn(v) \in Int
         /\ \A c \in Int :
              c \in FirstColumn(v)..LastColumn(v)
                <=> v.x - HalfWidth(v) < (c + 1) * Side(v.zoom) /\ c * Side(v.zoom) < v.x + HalfWidth(v)
         /\ \A r \in Int :
              r \in Rows(v)
                <=> /\ r \in 0..TilesPerAxis(v.zoom) - 1
                    /\ v.y - HalfHeight(v) < (r + 1) * Side(v.zoom)
                    /\ r * Side(v.zoom) < v.y + HalfHeight(v)
<1> DEFINE s == Side(v.zoom)
           hw == HalfWidth(v)
           hh == HalfHeight(v)
           west == v.x + OffX(v, 0)
           east == v.x + OffX(v, v.width)
           north == v.y + OffY(v, 0)
           south == v.y + OffY(v, v.height)
<1>1. s \in Nat \ {0} /\ hw \in Nat /\ hh \in Nat /\ v.x \in Int /\ v.y \in Int
  BY Grid, Halves, ZoomOfView
<1>2. west = v.x - hw /\ east = v.x + hw /\ north = v.y - hh /\ south = v.y + hh
  <2> HIDE DEF hw, hh
  <2>1. /\ OffX(v, 0) = -hw /\ OffX(v, v.width) = hw
        /\ OffY(v, 0) = -hh /\ OffY(v, v.height) = hh
    BY Halves DEF hw, hh
  <2> QED
    BY <1>1, <2>1
<1> HIDE DEF s, hw, hh, west, east, north, south
<1>3. west \in Int /\ east \in Int /\ north \in Int /\ south \in Int
  BY <1>1, <1>2
<1>4. west \div s \in Int /\ north \div s \in Int /\ CeilDiv(east, s) \in Int /\ CeilDiv(south, s) \in Int
  BY <1>1, <1>3, QuotientAndRest, CeilAt
<1>5. /\ FirstColumn(v) = west \div s /\ LastColumn(v) = CeilDiv(east, s) - 1
      /\ Rows(v) = {r \in (north \div s)..(CeilDiv(south, s) - 1) : r \in 0..TilesPerAxis(v.zoom) - 1}
  BY DEF FirstColumn, LastColumn, Rows, west, east, north, south, s
<1>6. ASSUME NEW c \in Int
      PROVE  /\ west \div s <= c <=> west < (c + 1) * s
             /\ c <= CeilDiv(east, s) - 1 <=> c * s < east
             /\ north \div s <= c <=> north < (c + 1) * s
             /\ c <= CeilDiv(south, s) - 1 <=> c * s < south
  BY <1>1, <1>3, FloorAt, CeilAt
<1>7. \A c \in Int : c \in FirstColumn(v)..LastColumn(v) <=> v.x - hw < (c + 1) * s /\ c * s < v.x + hw
  BY <1>2, <1>4, <1>5, <1>6
<1>8. \A r \in Int : r \in Rows(v) <=> /\ r \in 0..TilesPerAxis(v.zoom) - 1
                                       /\ v.y - hh < (r + 1) * s /\ r * s < v.y + hh
  BY <1>2, <1>4, <1>5, <1>6
<1> QED
  BY <1>4, <1>5, <1>7, <1>8 DEF s, hw, hh

PlacedAt(v, c, r) == Placement(c, r, v.zoom)

LEMMA Placed ==
  ASSUME NEW v
  PROVE  /\ EnumerateVisibleTilePlacements(v)
              = {PlacedAt(v, c, r) : c \in FirstColumn(v)..LastColumn(v), r \in Rows(v)}
         /\ \A c, r : /\ PlacedAt(v, c, r).column = c /\ PlacedAt(v, c, r).y = r
                      /\ PlacedAt(v, c, r).x = c % TilesPerAxis(v.zoom) /\ PlacedAt(v, c, r).z = v.zoom
  BY DEF EnumerateVisibleTilePlacements, PlacedAt, Placement

\* What lies under a point of the screen.
Under(v, left, top) ==
  {p \in EnumerateVisibleTilePlacements(v) :
     /\ p.column * Side(v.zoom) <= left /\ left < (p.column + 1) * Side(v.zoom)
     /\ p.y * Side(v.zoom) <= top /\ top < (p.y + 1) * Side(v.zoom)}

LEMMA OneUnder ==
  ASSUME NEW v \in Cameras, NEW left \in Int, NEW top \in Int,
         v.x - HalfWidth(v) <= left, left < v.x + HalfWidth(v),
         v.y - HalfHeight(v) <= top, top < v.y + HalfHeight(v)
  PROVE  IF top \in 0..World - 1
         THEN \E only \in Under(v, left, top) :
                /\ Under(v, left, top) = {only}
                /\ <<only.x, only.y>> = LatLonToTile(WrapX(left), ClampY(top), v.zoom)
         ELSE Under(v, left, top) = {}
<1> DEFINE s == Side(v.zoom)
           t == TilesPerAxis(v.zoom)
           column == left \div s
           row == top \div s
           columns == FirstColumn(v)..LastColumn(v)
           only == PlacedAt(v, column, row)
<1>1. /\ s \in Nat \ {0} /\ t \in Nat \ {0} /\ World = s * t /\ v.zoom \in 0..MaxZoom
      /\ HalfWidth(v) \in Nat /\ HalfHeight(v) \in Nat /\ v.x \in Int /\ v.y \in Int
  BY Grid, ZoomOfView, Halves
<1>2. columns \subseteq Int /\ Rows(v) \subseteq 0..t - 1
  <2>1. Rows(v) \subseteq 0..t - 1
    BY DEF Rows
  <2> QED
    BY <2>1, ColumnsOf
<1> HIDE DEF columns
<1>3. column \in Int /\ row \in Int
  BY <1>1, QuotientAndRest DEF s
<1>4. /\ column * s <= left /\ left < (column + 1) * s
      /\ row * s <= top /\ top < (row + 1) * s
  <2>1. column <= column /\ row <= row
    BY <1>3
  <2> HIDE DEF s
  <2>2. /\ column * s <= left /\ left < (column + 1) * s
    BY <1>1, <1>3, <2>1, FloorAt
  <2>3. /\ row * s <= top /\ top < (row + 1) * s
    BY <1>1, <1>3, <2>1, FloorAt
  <2> QED
    BY <2>2, <2>3
<1>5. ASSUME NEW c \in Int, c * s <= left, left < (c + 1) * s PROVE c = column
  <2> HIDE DEF s
  <2>1. c <= column /\ column <= c
    BY <1>1, <1>5, FloorAt
  <2> QED
    BY <1>3, <2>1
<1>6. ASSUME NEW r \in Int, r * s <= top, top < (r + 1) * s PROVE r = row
  <2> HIDE DEF s
  <2>1. r <= row /\ row <= r
    BY <1>1, <1>6, FloorAt
  <2> QED
    BY <1>3, <2>1
<1>7. row \in 0..t - 1 <=> top \in 0..World - 1
  <2> HIDE DEF s, t
  <2>1. 0 <= row <=> 0 * s <= top
    <3> DEFINE none == 0
    <3>1. none \in Int
      OBVIOUS
    <3> HIDE DEF none
    <3>2. none <= row <=> none * s <= top
      BY <1>1, <3>1, FloorAt
    <3> QED
      BY <3>2 DEF none
  <2>2. row <= t - 1 <=> top < ((t - 1) + 1) * s
    <3> DEFINE c == t - 1
    <3>1. c \in Int
      BY <1>1
    <3> HIDE DEF c
    <3>2. row <= c <=> top < (c + 1) * s
      BY <1>1, <3>1, FloorAt
    <3> QED
      BY <3>2 DEF c
  <2>3. 0 * s = 0 /\ ((t - 1) + 1) * s = World /\ World \in Int
    <3>1. (t - 1) + 1 = t /\ t * s = s * t /\ s * t \in Int
      BY <1>1
    <3> QED
      BY <1>1, <3>1
  <2> QED
    BY <1>1, <1>3, <2>1, <2>2, <2>3
<1>8. \A p \in Under(v, left, top) : p = only /\ row \in 0..t - 1
  <2> SUFFICES ASSUME NEW p \in Under(v, left, top) PROVE p = only /\ row \in 0..t - 1
    OBVIOUS
  <2>1. /\ p \in EnumerateVisibleTilePlacements(v)
        /\ p.column * s <= left /\ left < (p.column + 1) * s
        /\ p.y * s <= top /\ top < (p.y + 1) * s
    BY DEF Under
  <2>2. PICK c \in columns, r \in Rows(v) : p = PlacedAt(v, c, r)
    BY <2>1, Placed DEF columns
  <2>3. p.column = c /\ p.y = r
    BY <2>2, Placed
  <2>4. c = column /\ r = row
    <3>1. c \in Int /\ r \in Int
      BY <1>2
    <3> HIDE DEF s, column, row
    <3> QED
      BY <1>5, <1>6, <2>1, <2>3, <3>1
  <2> QED
    BY <1>2, <2>2, <2>4
<1>9. CASE top \notin 0..World - 1
  BY <1>7, <1>8, <1>9
<1>10. CASE top \in 0..World - 1
  <2>1. row \in 0..t - 1
    BY <1>7, <1>10
  <2>2. column \in columns
    <3>1. v.x - HalfWidth(v) < (column + 1) * s /\ column * s < v.x + HalfWidth(v)
      <4>1. column * s \in Int /\ (column + 1) * s \in Int
        BY <1>1, <1>3
      <4> QED
        BY <1>1, <1>4, <4>1
    <3> QED
      BY <1>3, <3>1, ColumnsOf DEF columns
  <2>3. row \in Rows(v)
    <3>1. v.y - HalfHeight(v) < (row + 1) * s /\ row * s < v.y + HalfHeight(v)
      <4>1. row * s \in Int /\ (row + 1) * s \in Int
        BY <1>1, <1>3
      <4> QED
        BY <1>1, <1>4, <4>1
    <3> QED
      BY <1>3, <2>1, <3>1, ColumnsOf
  <2>4. only \in EnumerateVisibleTilePlacements(v)
    BY <2>2, <2>3, Placed DEF columns
  <2>5. only.column = column /\ only.y = row /\ only.x = column % t
    BY Placed
  <2>6. only \in Under(v, left, top)
    BY <1>4, <2>4, <2>5 DEF Under
  <2>7. Under(v, left, top) = {only}
    BY <1>8, <2>6
  <2>8. LatLonToTile(WrapX(left), ClampY(top), v.zoom) = <<column % t, row>>
    <3>1. WrapX(left) \div s = column % t
      BY <1>1, TileAround
    <3>2. ClampY(top) = top
      BY <1>10, OnMap, Sizes
    <3>3. Clamp(row, 0, t - 1) = row
      BY <1>1, <2>1 DEF Clamp
    <3> QED
      BY <3>1, <3>2, <3>3 DEF LatLonToTile
  <2> QED
    BY <1>10, <2>5, <2>6, <2>7, <2>8
<1> QED
  BY <1>9, <1>10

\* The tiles enumerated once are those that are placed.
LEMMA TilesArePlaced ==
  ASSUME NEW v \in Cameras
  PROVE  EnumerateVisibleTiles(v) = {[x |-> p.x, y |-> p.y, z |-> p.z] : p \in EnumerateVisibleTilePlacements(v)}
<1> DEFINE t == TilesPerAxis(v.zoom)
           first == FirstColumn(v)
           last == LastColumn(v)
           TileOf(c, r) == [x |-> c % t, y |-> r, z |-> v.zoom]
<1>1. t \in Nat \ {0} /\ first \in Int /\ last \in Int
  BY Grid, ZoomOfView, ColumnsOf
<1>2. EnumerateVisibleTiles(v) = {TileOf(c, r) : c \in ColumnsOnce(v), r \in Rows(v)}
  BY DEF EnumerateVisibleTiles
<1>3. ColumnsOnce(v) = first..(IF last - first >= t THEN first + t - 1 ELSE last)
  BY DEF ColumnsOnce
<1>4. {[x |-> p.x, y |-> p.y, z |-> p.z] : p \in EnumerateVisibleTilePlacements(v)}
        = {TileOf(c, r) : c \in first..last, r \in Rows(v)}
  <2>1. \A c, r : [x |-> PlacedAt(v, c, r).x, y |-> PlacedAt(v, c, r).y, z |-> PlacedAt(v, c, r).z] = TileOf(c, r)
    BY Placed
  <2> HIDE DEF TileOf
  <2> QED
    BY <2>1, Placed
<1> HIDE DEF t, first, last
<1>5. ColumnsOnce(v) \subseteq first..last
  BY <1>1, <1>3
<1>6. ASSUME NEW c \in first..last PROVE \E d \in ColumnsOnce(v) : d % t = c % t
  <2>1. CASE last - first < t
    <3>1. ~(last - first >= t)
      BY <1>1, <2>1
    <3>2. c \in ColumnsOnce(v)
      BY <1>3, <3>1
    <3> QED
      BY <3>2
  <2>2. CASE last - first >= t
    <3> DEFINE n == c - first
               m == n % t
               k == n \div t
               d == first + m
    <3>1. n \in Int /\ c \in Int /\ c = first + n
      BY <1>1
    <3> HIDE DEF n
    <3>2. m \in 0..t - 1 /\ k \in Int /\ n = t * k + m
      BY <1>1, <3>1, QuotientAndRest
    <3> HIDE DEF m, k
    <3>3. d \in ColumnsOnce(v) /\ d \in Int
      BY <1>1, <1>3, <2>2, <3>2
    <3>4. c = d + t * k
      <4>1. t * k \in Int
        BY <1>1, <3>2
      <4> QED
        BY <1>1, <3>1, <3>2, <4>1
    <3> HIDE DEF d
    <3>5. (d + t * k) % t = d % t
      BY <1>1, <3>2, <3>3, TurnsDoNotCount
    <3> QED
      BY <3>3, <3>4, <3>5
  <2> QED
    BY <1>1, <2>1, <2>2
<1>7. \A c, d, r : c % t = d % t => TileOf(c, r) = TileOf(d, r)
  OBVIOUS
<1> HIDE DEF TileOf
<1>8. {TileOf(c, r) : c \in first..last, r \in Rows(v)} \subseteq {TileOf(c, r) : c \in ColumnsOnce(v), r \in Rows(v)}
  <2> SUFFICES ASSUME NEW c \in first..last, NEW r \in Rows(v)
               PROVE  \E d \in ColumnsOnce(v) : TileOf(c, r) = TileOf(d, r)
    OBVIOUS
  <2> QED
    BY <1>6, <1>7
<1> QED
  BY <1>2, <1>4, <1>5, <1>8

\* On a screen with room for two more tiles in the world, the nearest copy of a
\* tile that is placed is where it is placed.
LEMMA NearestIsPlaced ==
  ASSUME NEW v \in Cameras, v.width * Px(v.zoom) + 2 * Side(v.zoom) <= World,
         NEW c \in FirstColumn(v)..LastColumn(v), NEW r, NEW tile,
         tile.x = c % TilesPerAxis(v.zoom), tile.y = r
  PROVE  NearestTilePlacement(v, tile) = PlacedAt(v, c, r)
<1> DEFINE s == Side(v.zoom)
           t == TilesPerAxis(v.zoom)
           hw == HalfWidth(v)
           d == c * s - v.x
           m == c % t
           q == c \div t
<1>1. /\ s \in Nat \ {0} /\ t \in Nat \ {0} /\ World = s * t /\ v.x \in Int /\ hw \in Nat
      /\ World = 2 * HalfWorld /\ HalfWorld \in Nat /\ World \in Nat \ {0}
      /\ v.width * Px(v.zoom) = 2 * hw
  BY Grid, ZoomOfView, Halves, Sizes
<1>2. c \in Int /\ v.x - hw < (c + 1) * s /\ c * s < v.x + hw
  BY ColumnsOf
<1>3. 2 * hw + 2 * s <= World
  BY <1>1
<1> HIDE DEF s, t, hw
<1>4. PICK cs \in Int : cs = c * s /\ (c + 1) * s = cs + s
  BY <1>1, <1>2
<1>5. d \in Int /\ d = cs - v.x /\ d + HalfWorld \in 0..World - 1
  BY <1>1, <1>2, <1>3, <1>4
<1>6. m \in 0..t - 1 /\ q \in Int /\ c = t * q + m
  BY <1>1, <1>2, QuotientAndRest
<1> HIDE DEF m, q
<1> DEFINE n == -q
<1>7. n \in Int /\ m * s - v.x = d + World * n
  <2>1. c * s = (s * t) * q + m * s
    <3>1. (t * q + m) * s = (t * q) * s + m * s
      <4>1. t * q \in Int /\ m \in Int
        BY <1>1, <1>6
      <4> QED
        BY <1>1, <4>1
    <3>2. (t * q) * s = (s * t) * q
      BY <1>1, <1>6
    <3> QED
      BY <1>6, <3>1, <3>2
  <2>2. World * n = -(World * q) /\ World * q \in Int /\ m * s \in Int
    BY <1>1, <1>6
  <2>3. cs = World * q + m * s
    BY <1>1, <1>4, <2>1
  <2> QED
    BY <1>1, <1>5, <1>6, <2>2, <2>3
<1> HIDE DEF n, d
<1>8. WrappedDelta(m * s - v.x) = d
  <2> DEFINE f == d + HalfWorld
  <2>1. (d + World * n) + HalfWorld = f + World * n
    <3>1. World * n \in Int
      BY <1>1, <1>7
    <3> QED
      BY <1>1, <1>5, <3>1
  <2>2. f \in 0..World - 1
    BY <1>5
  <2>3. f - HalfWorld = d
    BY <1>1, <1>5
  <2> HIDE DEF f
  <2>4. (f + World * n) % World = f
    BY <1>1, <1>7, <2>2, RestOf
  <2> QED
    BY <1>7, <2>1, <2>3, <2>4 DEF WrappedDelta
<1>9. v.x + d = cs /\ cs \div s = c
  <2>1. c * s <= cs /\ cs < (c + 1) * s
    BY <1>1, <1>4
  <2>2. c <= cs \div s /\ cs \div s <= c /\ cs \div s \in Int
    BY <1>1, <1>2, <1>4, <2>1, FloorAt, QuotientAndRest
  <2>3. cs \div s = c
    BY <1>2, <2>2
  <2>4. v.x + d = cs
    BY <1>1, <1>5
  <2> QED
    BY <2>3, <2>4
<1>10. tile.x = m
  BY DEF m, t
<1> QED
  BY <1>8, <1>9, <1>10 DEF NearestTilePlacement, PlacedAt, s

\* Every pixel on the map is painted by one placement, with the tile that is
\* found there, for any screen and camera, across the antimeridian and on
\* screens wider than the world too; and on a screen with room for two more
\* tiles each tile is placed at its nearest copy (viewport.cpp,
\* EnumerateVisibleTilePlacements and NearestTilePlacement).
THEOREM TilesPaintTheScreen == \A v \in Cameras : PlacementsPaintTheScreen(v)
<1> SUFFICES ASSUME NEW v \in Cameras PROVE PlacementsPaintTheScreen(v)
  OBVIOUS
<1> DEFINE placed == EnumerateVisibleTilePlacements(v)
           tile(p) == [x |-> p.x, y |-> p.y, z |-> p.z]
           left(sx) == v.x + OffX(v, sx)
           top(sy) == v.y + OffY(v, sy)
<1>1. ASSUME NEW sx \in 0..v.width - 1, NEW sy \in 0..v.height - 1
      PROVE  IF top(sy) \in 0..World - 1
             THEN \E only \in Under(v, left(sx), top(sy)) :
                    /\ Under(v, left(sx), top(sy)) = {only}
                    /\ <<only.x, only.y>> = LatLonToTile(WrapX(left(sx)), ClampY(top(sy)), v.zoom)
             ELSE Under(v, left(sx), top(sy)) = {}
  <2> DEFINE l == left(sx)
             o == top(sy)
  <2>1. /\ v.x \in Int /\ v.y \in Int /\ HalfWidth(v) \in Nat /\ HalfHeight(v) \in Nat
        /\ OffX(v, sx) \in -HalfWidth(v)..HalfWidth(v) - 1
        /\ OffY(v, sy) \in -HalfHeight(v)..HalfHeight(v) - 1
    BY ZoomOfView, Halves, PixelStarts
  <2>2. /\ l \in Int /\ o \in Int /\ v.x - HalfWidth(v) <= l /\ l < v.x + HalfWidth(v)
        /\ v.y - HalfHeight(v) <= o /\ o < v.y + HalfHeight(v)
    BY <2>1
  <2> HIDE DEF l, o
  <2>3. IF o \in 0..World - 1
        THEN \E only \in Under(v, l, o) :
               /\ Under(v, l, o) = {only}
               /\ <<only.x, only.y>> = LatLonToTile(WrapX(l), ClampY(o), v.zoom)
        ELSE Under(v, l, o) = {}
    BY <2>2, OneUnder
  <2> QED
    BY <2>3 DEF l, o
<1>2. EnumerateVisibleTiles(v) = {tile(p) : p \in placed}
  BY TilesArePlaced
<1>3. ASSUME v.width * Px(v.zoom) + 2 * Side(v.zoom) <= World
      PROVE  placed = {NearestTilePlacement(v, u) : u \in EnumerateVisibleTiles(v)}
  <2>1. \A p \in placed : NearestTilePlacement(v, tile(p)) = p
    <3> SUFFICES ASSUME NEW p \in placed PROVE NearestTilePlacement(v, tile(p)) = p
      OBVIOUS
    <3>1. PICK c \in FirstColumn(v)..LastColumn(v), r \in Rows(v) : p = PlacedAt(v, c, r)
      BY Placed
    <3>2. tile(p).x = c % TilesPerAxis(v.zoom) /\ tile(p).y = r
      BY <3>1, Placed
    <3> DEFINE u == tile(p)
    <3> HIDE DEF u
    <3>3. NearestTilePlacement(v, u) = PlacedAt(v, c, r)
      BY <1>3, <3>2, NearestIsPlaced DEF u
    <3> QED
      BY <3>1, <3>3 DEF u
  <2> HIDE DEF placed, tile
  <2> QED
    BY <1>2, <2>1
<1>4. \A sx \in 0..v.width - 1, sy \in 0..v.height - 1 :
        /\ ScreenToLatLon(v, sx, sy) = <<WrapX(left(sx)), ClampY(top(sy))>>
        /\ Under(v, left(sx), top(sy))
             = {p \in placed :
                  /\ p.column * Side(v.zoom) <= left(sx) /\ left(sx) < (p.column + 1) * Side(v.zoom)
                  /\ p.y * Side(v.zoom) <= top(sy) /\ top(sy) < (p.y + 1) * Side(v.zoom)}
  BY DEF ScreenToLatLon, Under
<1> QED
  <2> HIDE DEF placed
  <2>1. /\ \A sx \in 0..v.width - 1, sy \in 0..v.height - 1 :
             LET here == {p \in placed :
                            /\ p.column * Side(v.zoom) <= left(sx) /\ left(sx) < (p.column + 1) * Side(v.zoom)
                            /\ p.y * Side(v.zoom) <= top(sy) /\ top(sy) < (p.y + 1) * Side(v.zoom)}
                 p == ScreenToLatLon(v, sx, sy)
             IN  IF top(sy) \in 0..World - 1
                 THEN \E only \in here : here = {only}
                        /\ <<only.x, only.y>> = LatLonToTile(p[1], p[2], v.zoom)
                 ELSE here = {}
    <3> SUFFICES ASSUME NEW sx \in 0..v.width - 1, NEW sy \in 0..v.height - 1
                 PROVE  LET here == Under(v, left(sx), top(sy))
                            p == ScreenToLatLon(v, sx, sy)
                        IN  IF top(sy) \in 0..World - 1
                            THEN \E only \in here : here = {only}
                                   /\ <<only.x, only.y>> = LatLonToTile(p[1], p[2], v.zoom)
                            ELSE here = {}
      BY <1>4
    <3>1. /\ ScreenToLatLon(v, sx, sy)[1] = WrapX(left(sx))
          /\ ScreenToLatLon(v, sx, sy)[2] = ClampY(top(sy))
      BY <1>4
    <3> HIDE DEF left, top
    <3> QED
      BY <1>1, <3>1
  <2> QED
    BY <1>2, <1>3, <2>1 DEF PlacementsPaintTheScreen, placed

-----------------------------------------------------------------------------
(* The floor.                                                              *)

Floored == phase = "booted" => floor = RecomputeZoomFloor(view, packs)

LEMMA FlooredStays == IInv /\ Floored /\ [Next]_vars => Floored'
<1> SUFFICES ASSUME IInv, Floored, [Next]_vars, phase' = "booted"
             PROVE  floor' = RecomputeZoomFloor(view', packs')
  BY DEF Floored
<1>1. CASE Boot
  BY <1>1 DEF Boot
<1>2. CASE ~Boot
  <2>1. phase' = phase
    BY <1>2 DEF Next, vars, BootFails, OpenTab5, OpenCyd, Measure, Level, PanScreen, Scenario,
                Restore, RedrawAfter, Framing, FinalView, Press, Move, ReleaseDrag, TapZoom, TapPack,
                TapStyle, TapInfo, TapMeasure, TapNothing
  <2>2. phase = "booted" /\ phase # "live" /\ phase # "off" /\ todo = <<>>
    BY <2>1 DEF IInv, Phased
  <2>3. ~BootFails /\ ~OpenTab5 /\ ~OpenCyd
    BY <2>1, <2>2 DEF BootFails, OpenTab5, OpenCyd
  <2>4. ~Measure
    BY <2>2 DEF Measure, Level, PanScreen, Scenario, Restore, RedrawAfter, Framing, FinalView
  <2>5. ~(\E where \in Buttons \cup {"map"} : Press(where)) /\ ~(\E d \in Drags : Move(d[1], d[2]))
    BY <2>2 DEF Press, Move, Idle
  <2>6. ~ReleaseDrag /\ ~TapZoom /\ ~TapPack /\ ~TapStyle /\ ~TapInfo /\ ~TapMeasure /\ ~TapNothing
    BY <2>2 DEF ReleaseDrag, TapZoom, TapPack, TapStyle, TapInfo, TapMeasure, TapNothing, Tap, Lift, Idle
  <2>7. UNCHANGED vars
    BY <1>2, <2>3, <2>4, <2>5, <2>6 DEF Next
  <2> QED
    BY <2>2, <2>7 DEF Floored, vars
<1> QED
  BY <1>1, <1>2

LEMMA FlooredAlways == Spec => []Floored
<1>1. Init => Floored
  BY DEF Init, Floored
<1> QED
  BY <1>1, FlooredStays, Invariance, PTL DEF Spec

Moved(v, x, y, z) == [v EXCEPT !.x = x, !.y = y, !.zoom = z]
Filled(v, catalog, z) ==
  \E x \in 0..World - 1, y \in 0..World, p \in Seqs!ToSet(catalog) :
    z \in p.min_zoom..p.max_zoom /\ Inside(Moved(v, x, y, z), p.bounds)

\* The zooms among which the floor is chosen: where a pack begins to fill the
\* screen and to have data.
Starts(v, catalog) ==
  {IF MinFillZoom(v, p.bounds) < p.min_zoom THEN p.min_zoom ELSE MinFillZoom(v, p.bounds) :
     p \in {q \in Seqs!ToSet(catalog) : MinFillZoom(v, q.bounds) <= q.max_zoom}}

\* A screen filled by a pack lies at or below the place where that pack starts.
LEMMA FilledHasStart ==
  ASSUME NEW v \in Cameras, NEW catalog \in Seq(Installed), NEW z \in Nat, Filled(v, catalog, z)
  PROVE  \E e \in Starts(v, catalog) : e <= z
<1>1. PICK x \in 0..World - 1, y \in 0..World, p \in Seqs!ToSet(catalog) :
        z \in p.min_zoom..p.max_zoom /\ Inside(Moved(v, x, y, z), p.bounds)
  BY DEF Filled
<1> DEFINE u == Moved(v, x, y, z)
<1>2. p \in Installed
  BY <1>1 DEF Seqs!ToSet
<1>3. /\ p.min_zoom \in 0..MaxZoom /\ p.max_zoom \in 0..MaxZoom /\ ViewBounds(p.bounds)
  BY <1>2, InstalledAreValid
<1>4. z \in 0..MaxZoom /\ p.min_zoom <= z /\ z <= p.max_zoom
  BY <1>1, <1>3, ViewAssumption
<1>5. u \in Cameras /\ u.zoom = z /\ u.width = v.width /\ u.height = v.height
  <2>1. x \in Int /\ y \in Int
    BY Sizes
  <2> QED
    BY <1>4, <2>1 DEF Cameras, Moved
<1> HIDE DEF u
<1>6. Fills(u, p.bounds, z)
  <2>1. Inside(u, p.bounds)
    BY <1>1 DEF u
  <2> QED
    BY <1>3, <1>5, <2>1, InsideFills
<1>7. Fills(v, p.bounds, z)
  BY <1>5, <1>6 DEF Fills
<1>8. MinFillZoom(v, p.bounds) <= z /\ MinFillZoom(v, p.bounds) \in Nat
  BY <1>3, <1>4, <1>7, LeastFill, ZoomsFound
<1>9. MinFillZoom(v, p.bounds) <= p.max_zoom
  BY <1>3, <1>4, <1>8
<1> DEFINE e == IF MinFillZoom(v, p.bounds) < p.min_zoom THEN p.min_zoom ELSE MinFillZoom(v, p.bounds)
<1>10. e \in Starts(v, catalog)
  BY <1>1, <1>9 DEF Starts
<1>11. e <= z
  BY <1>4, <1>8
<1> QED
  BY <1>10, <1>11

\* Where a pack starts, it fills the screen.
LEMMA StartIsFilled ==
  ASSUME NEW v \in Cameras, NEW catalog \in Seq(Installed), NEW e \in Starts(v, catalog)
  PROVE  e \in Nat /\ Filled(v, catalog, e)
<1>1. PICK p \in Seqs!ToSet(catalog) :
        /\ MinFillZoom(v, p.bounds) <= p.max_zoom
        /\ e = IF MinFillZoom(v, p.bounds) < p.min_zoom THEN p.min_zoom ELSE MinFillZoom(v, p.bounds)
  BY DEF Starts
<1> DEFINE b == p.bounds
           f == MinFillZoom(v, b)
<1>2. p \in Installed
  BY <1>1 DEF Seqs!ToSet
<1>3. /\ p.min_zoom \in 0..MaxZoom /\ p.max_zoom \in 0..MaxZoom /\ p.min_zoom <= p.max_zoom
      /\ ViewBounds(b)
  BY <1>2, InstalledAreValid
<1>4. f <= p.max_zoom /\ e = IF f < p.min_zoom THEN p.min_zoom ELSE f
  BY <1>1
<1>5. f \in 0..MaxZoom + 1
  BY ZoomsFound
<1> HIDE DEF f, b
<1>6. f # NoZoom /\ f <= e /\ e \in 0..MaxZoom /\ e \in p.min_zoom..p.max_zoom
  BY <1>3, <1>4, <1>5, ViewAssumption DEF NoZoom
<1>7. f \in 0..MaxZoom /\ Fills(v, b, f)
  BY <1>3, <1>6, LeastFill DEF f
<1>8. Fills(v, b, e)
  BY <1>3, <1>6, <1>7, FillsDeeper
<1> DEFINE s == SetZoom(v, e)
           u == CentreOn(s, b)
<1>9. s \in Cameras /\ s.zoom = e /\ s = [v EXCEPT !.zoom = e] /\ Fills(s, b, s.zoom)
  BY <1>6, <1>8, AtZoom
<1> HIDE DEF s
<1>10. Inside(u, b)
  BY <1>3, <1>9, FillIsInside
<1>11. u.x \in 0..World - 1 /\ u.y \in 0..World
  BY <1>3, <1>9, Centred
<1>12. u = [s EXCEPT !.x = u.x, !.y = u.y]
  <2>1. PICK x, y : u = [s EXCEPT !.x = x, !.y = y]
    BY DEF CentreOn, SetCenter
  <2> QED
    BY <1>9, <2>1 DEF Cameras
<1>13. u = [v EXCEPT !.x = u.x, !.y = u.y, !.zoom = e]
  BY <1>9, <1>12 DEF Cameras
<1> HIDE DEF u
<1>14. u = Moved(v, u.x, u.y, e)
  BY <1>13 DEF Moved
<1>15. Inside(Moved(v, u.x, u.y, e), p.bounds)
  BY <1>10, <1>14 DEF b
<1>16. \E x \in 0..World - 1, y \in 0..World, q \in Seqs!ToSet(catalog) :
         e \in q.min_zoom..q.max_zoom /\ Inside(Moved(v, x, y, e), q.bounds)
  BY <1>1, <1>6, <1>11, <1>15
<1> QED
  BY <1>6, <1>16, ViewAssumption DEF Filled

\* Below the zoom floor no pack covers the screen wherever it is panned to, and
\* at the floor one does, unless none covers it at any zoom: what the Tab5's
\* lowest zoom is for (Tab5 main.cpp, RecomputeZoomFloor).
THEOREM FloorWhereItFills == Spec => []FloorIsTight
<1>1. IInv /\ Floored => FloorIsTight
  <2> SUFFICES ASSUME IInv, Floored, phase = "booted"
               PROVE  /\ \A z \in 0..floor - 1 : ~Filled(view, packs, z)
                      /\ Filled(view, packs, floor) \/ floor = 0
    BY DEF FloorIsTight, Filled, Moved
  <2>1. view \in Cameras /\ packs \in Seq(Installed) /\ floor \in Nat
    BY DEF IInv, Typed
  <2>2. floor = IF Starts(view, packs) = {} THEN 0 ELSE Shallowest(Starts(view, packs))
    BY DEF Floored, RecomputeZoomFloor, Starts
  <2>3. Starts(view, packs) \in SUBSET Nat
    BY <2>1, StartIsFilled
  <2>4. CASE Starts(view, packs) = {}
    BY <2>2, <2>4
  <2>5. CASE Starts(view, packs) # {}
    <3>1. floor \in Starts(view, packs) /\ \A e \in Starts(view, packs) : floor <= e
      BY <2>2, <2>3, <2>5, ShallowestOf
    <3>2. ASSUME NEW z \in 0..floor - 1, Filled(view, packs, z) PROVE FALSE
      <4>1. PICK e \in Starts(view, packs) : e <= z
        BY <2>1, <3>2, FilledHasStart
      <4> QED
        BY <2>1, <2>3, <3>1, <4>1
    <3> QED
      BY <2>1, <3>1, <3>2, StartIsFilled
  <2> QED
    BY <2>4, <2>5
<1> QED
  BY <1>1, Invariance, FlooredAlways, PTL

-----------------------------------------------------------------------------
(* What is on the screen, and what a box has of it.                        *)

Seen(v) == {ScreenToLatLon(v, sx, sy) : sx \in 0..v.width, sy \in 0..v.height}
Crosses(b) == b.min_lon > b.max_lon
Serves(p, z) == z \in p.min_zoom..p.max_zoom

\* Within one turn of the world.
LEMMA WrapNear ==
  ASSUME NEW a \in Int
  PROVE  /\ a \in 0..World - 1 => WrapX(a) = a
         /\ a \in World..2 * World - 1 => WrapX(a) = a - World
         /\ a \in -World..-1 => WrapX(a) = a + World
<1>1. World \in Nat \ {0}
  BY Sizes
<1>2. ASSUME NEW q \in Int, NEW d \in 0..World - 1, a = d + World * q PROVE WrapX(a) = d
  <2>1. (d + World * q) % World = d
    BY <1>1, RestOf
  <2> QED
    BY <1>2, <2>1 DEF WrapX
<1>3. ASSUME a \in 0..World - 1 PROVE WrapX(a) = a
  <2>1. a = a + World * 0
    BY <1>1
  <2> QED
    BY <1>2, <1>3, <2>1
<1>4. ASSUME a \in World..2 * World - 1 PROVE WrapX(a) = a - World
  <2>1. a = (a - World) + World * 1 /\ a - World \in 0..World - 1
    BY <1>1, <1>4
  <2> QED
    BY <1>2, <2>1
<1>5. ASSUME a \in -World..-1 PROVE WrapX(a) = a + World
  <2>1. a = (a + World) + World * (-1) /\ a + World \in 0..World - 1
    BY <1>1, <1>5
  <2> QED
    BY <1>2, <2>1
<1> QED
  BY <1>3, <1>4, <1>5

\* No pixel of the screen is further from its middle than an edge.
LEMMA OnScreen ==
  ASSUME NEW v \in Cameras
  PROVE  /\ \A sx \in 0..v.width : OffX(v, sx) \in -HalfWidth(v)..HalfWidth(v)
         /\ \A sy \in 0..v.height : OffY(v, sy) \in -HalfHeight(v)..HalfHeight(v)
<1> DEFINE h == Px(v.zoom) \div 2
<1>1. h \in Nat /\ v.width \in Nat /\ v.height \in Nat
  BY ZoomOfView
<1> HIDE DEF h
<1>2. \A w \in Nat : \A s \in 0..w : (2 * s - w) * h \in -(w * h)..w * h
  <2> SUFFICES ASSUME NEW w \in Nat, NEW s \in 0..w PROVE (2 * s - w) * h \in -(w * h)..w * h
    OBVIOUS
  <2>1. (2 * s - w) * h = 2 * (s * h) - w * h /\ s * h \in Nat /\ w * h \in Nat
    BY <1>1
  <2>2. (w - s) * h \in Nat /\ (w - s) * h = w * h - s * h
    BY <1>1
  <2> DEFINE a == s * h
             b == w * h
             c == (w - s) * h
             d == (2 * s - w) * h
  <2>3. a \in Nat /\ b \in Nat /\ c \in Nat /\ c = b - a /\ d = 2 * a - b
    BY <2>1, <2>2
  <2> HIDE DEF a, b, c, d
  <2>4. d \in -b..b
    BY <2>3
  <2> QED
    BY <2>4 DEF b, d
<1>3. /\ \A sx \in 0..v.width : OffX(v, sx) = (2 * sx - v.width) * h
      /\ \A sy \in 0..v.height : OffY(v, sy) = (2 * sy - v.height) * h
      /\ HalfWidth(v) = v.width * h /\ HalfHeight(v) = v.height * h
  BY DEF OffX, OffY, HalfWidth, HalfHeight, h
<1> QED
  BY <1>1, <1>2, <1>3

\* The rows of the screen lie between those of its corners.
LEMMA SeenRows ==
  ASSUME NEW v \in Cameras, NEW sy \in 0..v.height, NEW vis, vis = GetVisibleBounds(v),
         NEW y, y = ClampY(v.y + OffY(v, sy))
  PROVE  /\ y \in 0..World
         /\ vis.min_lat \in -HalfWorld..HalfWorld /\ vis.max_lat \in -HalfWorld..HalfWorld
         /\ vis.min_lat <= HalfWorld - y /\ HalfWorld - y <= vis.max_lat
<1> DEFINE o == OffY(v, sy)
           hh == HalfHeight(v)
           n == ClampY(v.y + (-hh))
           s == ClampY(v.y + hh)
<1>1. o \in -hh..hh /\ hh \in Nat /\ v.y \in Int /\ World \in Nat /\ HalfWorld \in Nat /\ World = 2 * HalfWorld
  BY OnScreen, Halves, ZoomOfView, Sizes
<1>2. vis.min_lat = HalfWorld - s /\ vis.max_lat = HalfWorld - n
  BY Halves DEF GetVisibleBounds, ScreenToLatLon, LatToY
<1>3. y = ClampY(v.y + o)
  OBVIOUS
<1> HIDE DEF o, hh
<1>4. n \in 0..World /\ s \in 0..World /\ y \in 0..World /\ n <= y /\ y <= s
  BY <1>1, <1>3 DEF ClampY, Clamp
<1> HIDE DEF n, s
<1> QED
  BY <1>1, <1>2, <1>4

\* The columns of the screen lie between those of its corners, on this side of
\* the antimeridian or on that.
LEMMA SeenColumns ==
  ASSUME NEW v \in Cameras, NEW sx \in 0..v.width, NEW vis, vis = GetVisibleBounds(v),
         NEW x, x = WrapX(v.x + OffX(v, sx))
  PROVE  /\ x \in 0..World - 1
         /\ vis.min_lon \in -HalfWorld..HalfWorld /\ vis.max_lon \in -HalfWorld..HalfWorld
         /\ \E i \in Catalog!SplitLongitude(vis) : i.min <= x - HalfWorld /\ x - HalfWorld <= i.max
<1> DEFINE o == OffX(v, sx)
           hw == HalfWidth(v)
           w == WrapX(v.x + (-hw))
           e == WrapX(v.x + hw)
           k == (v.x + (-hw)) \div World
           t == o + hw
<1>1. /\ o \in -hw..hw /\ hw \in Nat /\ v.x \in Int
      /\ World \in Nat \ {0} /\ HalfWorld \in Nat /\ World = 2 * HalfWorld
  BY OnScreen, Halves, ZoomOfView, Sizes
<1>2. /\ OffX(v, 0) = -hw /\ OffX(v, v.width) = hw /\ v.width * Px(v.zoom) = 2 * hw
  BY Halves
<1>3. /\ vis.min_lon = IF 2 * hw >= World THEN -HalfWorld ELSE w - HalfWorld
      /\ vis.max_lon = IF 2 * hw >= World THEN HalfWorld ELSE e - HalfWorld
  BY <1>2 DEF GetVisibleBounds, ScreenToLatLon
<1>4. x = WrapX(v.x + o)
  OBVIOUS
<1> HIDE DEF o, hw
<1>5. x \in 0..World - 1 /\ w \in 0..World - 1 /\ e \in 0..World - 1
  BY <1>1, <1>4 DEF WrapX
<1>6. v.x + (-hw) = World * k + w /\ k \in Int /\ v.x + (-hw) \in Int
  <2> DEFINE c == v.x + (-hw)
  <2>1. c \in Int
    BY <1>1
  <2> HIDE DEF c
  <2>2. c % World \in 0..World - 1 /\ c \div World \in Int /\ c = World * (c \div World) + (c % World)
    BY <1>1, <2>1, QuotientAndRest
  <2> QED
    BY <2>1, <2>2 DEF WrapX, c
<1>7. t \in 0..2 * hw
  BY <1>1
<1>8. \A d \in Int : WrapX((v.x + (-hw)) + d) = WrapX(w + d)
  <2> SUFFICES ASSUME NEW d \in Int PROVE WrapX((v.x + (-hw)) + d) = WrapX(w + d)
    OBVIOUS
  <2> HIDE DEF w, k
  <2>1. PICK wk \in Int : wk = World * k
    BY <1>1, <1>6
  <2>2. (v.x + (-hw)) + d = (w + d) + World * k /\ w + d \in Int
    BY <1>5, <1>6, <2>1
  <2>3. ((w + d) + World * k) % World = (w + d) % World
    BY <1>1, <1>6, <2>2, TurnsDoNotCount
  <2> QED
    BY <2>2, <2>3 DEF WrapX
<1>9. x = WrapX(w + t) /\ e = WrapX(w + 2 * hw)
  <2>1. v.x + o = (v.x + (-hw)) + t /\ v.x + hw = (v.x + (-hw)) + 2 * hw
    BY <1>1
  <2>2. t \in Int /\ 2 * hw \in Int
    BY <1>1
  <2> HIDE DEF t, w
  <2> QED
    BY <1>4, <1>8, <2>1, <2>2
<1> HIDE DEF w, e, k, t
<1>10. /\ vis.min_lon \in -HalfWorld..HalfWorld /\ vis.max_lon \in -HalfWorld..HalfWorld
  BY <1>1, <1>3, <1>5
<1>11. CASE 2 * hw >= World
  <2>1. vis.min_lon = -HalfWorld /\ vis.max_lon = HalfWorld
    BY <1>3, <1>11
  <2>2. vis.min_lon <= vis.max_lon /\ vis.min_lon <= x - HalfWorld /\ x - HalfWorld <= vis.max_lon
    BY <1>1, <1>5, <2>1
  <2>3. [min |-> vis.min_lon, max |-> vis.max_lon] \in Catalog!SplitLongitude(vis)
    BY <2>2 DEF Catalog!SplitLongitude
  <2> QED
    BY <1>5, <1>10, <2>2, <2>3
<1>12. CASE 2 * hw < World /\ w + 2 * hw < World
  <2>1. e = w + 2 * hw
    BY <1>1, <1>5, <1>9, <1>12, WrapNear
  <2>2. x = w + t
    BY <1>1, <1>5, <1>7, <1>9, <1>12, WrapNear
  <2>3. vis.min_lon = w - HalfWorld /\ vis.max_lon = e - HalfWorld
    BY <1>1, <1>3, <1>12
  <2>4. vis.min_lon <= vis.max_lon /\ vis.min_lon <= x - HalfWorld /\ x - HalfWorld <= vis.max_lon
    BY <1>1, <1>5, <1>7, <2>1, <2>2, <2>3
  <2>5. [min |-> vis.min_lon, max |-> vis.max_lon] \in Catalog!SplitLongitude(vis)
    BY <2>4 DEF Catalog!SplitLongitude
  <2> QED
    BY <1>5, <1>10, <2>4, <2>5
<1>13. CASE 2 * hw < World /\ w + 2 * hw >= World
  <2>1. e = w + 2 * hw - World
    <3>1. PICK a \in Int : a = w + 2 * hw
      BY <1>1, <1>5
    <3>2. a \in World..2 * World - 1
      BY <1>1, <1>5, <1>13, <3>1
    <3>3. WrapX(a) = a - World
      BY <3>2, WrapNear
    <3> QED
      BY <1>1, <1>5, <1>9, <3>1, <3>3
  <2>2. vis.min_lon = w - HalfWorld /\ vis.max_lon = e - HalfWorld
    BY <1>1, <1>3, <1>13
  <2>3. ~(vis.min_lon <= vis.max_lon)
    BY <1>1, <1>5, <1>13, <2>1, <2>2
  <2>4. Catalog!SplitLongitude(vis) = {[min |-> vis.min_lon, max |-> HalfWorld],
                                       [min |-> -HalfWorld, max |-> vis.max_lon]}
    BY <2>3 DEF Catalog!SplitLongitude
  <2>5. CASE w + t < World
    <3>1. x = w + t
      BY <1>1, <1>5, <1>7, <1>9, <2>5, WrapNear
    <3>2. vis.min_lon <= x - HalfWorld /\ x - HalfWorld <= HalfWorld
      BY <1>1, <1>5, <1>7, <2>2, <3>1
    <3>3. \E i \in Catalog!SplitLongitude(vis) : i.min = vis.min_lon /\ i.max = HalfWorld
      BY <2>4
    <3> QED
      BY <1>5, <1>10, <3>2, <3>3
  <2>6. CASE w + t >= World
    <3>1. x = w + t - World
      <4>1. PICK a \in Int : a = w + t
        BY <1>1, <1>5, <1>7
      <4>2. a \in World..2 * World - 1
        BY <1>1, <1>5, <1>7, <1>13, <2>6, <4>1
      <4>3. WrapX(a) = a - World
        BY <4>2, WrapNear
      <4> QED
        BY <1>1, <1>5, <1>7, <1>9, <4>1, <4>3
    <3>2. -HalfWorld <= x - HalfWorld /\ x - HalfWorld <= vis.max_lon
      BY <1>1, <1>5, <1>7, <2>1, <2>2, <3>1
    <3>3. \E i \in Catalog!SplitLongitude(vis) : i.min = -HalfWorld /\ i.max = vis.max_lon
      BY <2>4
    <3> QED
      BY <1>5, <1>10, <3>2, <3>3
  <2> QED
    BY <1>1, <1>5, <1>7, <2>5, <2>6
<1> QED
  BY <1>1, <1>5, <1>11, <1>12, <1>13
\* Where a box begins, counted from the antimeridian eastwards.
LEMMA WestOfBox ==
  ASSUME NEW b, ViewBounds(b), NEW m, m = b.min_lon + HalfWorld
  PROVE  /\ m \in 0..World
         /\ m = World => LonToX(b.min_lon) = 0
         /\ m # World => LonToX(b.min_lon) = m
<1>1. b.min_lon \in -HalfWorld..HalfWorld /\ HalfWorld \in Nat /\ World = 2 * HalfWorld /\ World \in Nat \ {0}
  BY Sizes DEF ViewBounds
<1>2. m \in 0..World
  BY <1>1
<1>3. LonToX(b.min_lon) = WrapX(m)
  BY DEF LonToX
<1>4. m = World => WrapX(m) = 0
  <2>1. World - World = 0 /\ World \in World..2 * World - 1 /\ World \in Int
    BY <1>1
  <2> QED
    BY <2>1, WrapNear
<1>5. m # World => WrapX(m) = m
  <2>1. m # World => m \in 0..World - 1 /\ m \in Int
    BY <1>1, <1>2
  <2> QED
    BY <2>1, WrapNear
<1> QED
  BY <1>2, <1>3, <1>4, <1>5

\* From the western edge of a box to a column.
LEMMA EastOfEdge ==
  ASSUME NEW b, ViewBounds(b), NEW x \in 0..World - 1, NEW m, m = b.min_lon + HalfWorld
  PROVE  WrapX(x - LonToX(b.min_lon)) = IF m = World THEN x ELSE IF x < m THEN x - m + World ELSE x - m
<1>1. World \in Nat \ {0} /\ m \in 0..World
  BY WestOfBox, Sizes
<1>2. CASE m = World
  <2>1. x - LonToX(b.min_lon) = x /\ x \in Int
    BY <1>2, WestOfBox
  <2> QED
    BY <1>2, <2>1, WrapNear
<1>3. CASE m # World
  <2>1. PICK d \in Int : d = x - m
    BY <1>1
  <2>2. x - LonToX(b.min_lon) = d
    BY <1>3, <2>1, WestOfBox
  <2>3. IF x < m THEN d \in -World..-1 ELSE d \in 0..World - 1
    BY <1>1, <1>3, <2>1
  <2>4. WrapX(d) = IF x < m THEN d + World ELSE d
    BY <2>3, WrapNear
  <2> QED
    BY <1>1, <1>3, <2>1, <2>2, <2>4
<1> QED
  BY <1>2, <1>3

\* A column within one of the two parts of a box is no further east of its
\* western edge than the eastern one.
LEMMA PartOfBox ==
  ASSUME NEW b, ViewBounds(b), NEW x \in 0..World - 1, NEW o \in Catalog!SplitLongitude(b),
         o.min <= x - HalfWorld, x - HalfWorld <= o.max
  PROVE  WrapX(x - LonToX(b.min_lon)) <= LonSpan(b)
<1> DEFINE m == b.min_lon + HalfWorld
           w == WrapX(x - LonToX(b.min_lon))
<1>1. /\ b.min_lon \in -HalfWorld..HalfWorld /\ b.max_lon \in -HalfWorld..HalfWorld
      /\ HalfWorld \in Nat /\ World = 2 * HalfWorld /\ World \in Nat \ {0}
  BY Sizes DEF ViewBounds
<1>2. w = IF m = World THEN x ELSE IF x < m THEN x - m + World ELSE x - m
  BY EastOfEdge
<1> HIDE DEF w
<1>3. CASE b.min_lon <= b.max_lon
  <2>1. o.min = b.min_lon /\ o.max = b.max_lon
    BY <1>3 DEF Catalog!SplitLongitude
  <2>2. LonSpan(b) = b.max_lon - b.min_lon
    BY <1>1, <1>3 DEF LonSpan
  <2>3. b.min_lon <= x - HalfWorld /\ x - HalfWorld <= b.max_lon
    BY <2>1
  <2>4. w <= LonSpan(b)
    BY <1>1, <1>2, <2>2, <2>3
  <2> QED
    BY <2>4 DEF w
<1>4. CASE ~(b.min_lon <= b.max_lon)
  <2>1. \/ o.min = b.min_lon /\ o.max = HalfWorld
        \/ o.min = -HalfWorld /\ o.max = b.max_lon
    BY <1>4 DEF Catalog!SplitLongitude
  <2>2. LonSpan(b) = (b.max_lon - b.min_lon) + World
    BY <1>1, <1>4 DEF LonSpan
  <2>3. b.min_lon <= x - HalfWorld \/ x - HalfWorld <= b.max_lon
    BY <2>1
  <2>4. w <= LonSpan(b)
    BY <1>1, <1>2, <1>4, <2>2, <2>3
  <2> QED
    BY <2>4 DEF w
<1> QED
  BY <1>3, <1>4

\* What of a box that does not cross the antimeridian lies off it.
LEMMA BetweenEdges ==
  ASSUME NEW b, ViewBounds(b), ~Crosses(b), NEW x \in 1..World - 1,
         WrapX(x - LonToX(b.min_lon)) <= LonSpan(b)
  PROVE  b.min_lon <= x - HalfWorld /\ x - HalfWorld <= b.max_lon
<1> DEFINE m == b.min_lon + HalfWorld
           w == WrapX(x - LonToX(b.min_lon))
<1>1. /\ b.min_lon \in -HalfWorld..HalfWorld /\ b.max_lon \in -HalfWorld..HalfWorld
      /\ HalfWorld \in Nat /\ World = 2 * HalfWorld /\ World \in Nat \ {0} /\ b.min_lon <= b.max_lon
  BY Sizes DEF ViewBounds, Crosses
<1>2. x \in 0..World - 1
  BY <1>1
<1>3. w = IF m = World THEN x ELSE IF x < m THEN x - m + World ELSE x - m
  BY <1>2, EastOfEdge
<1>4. w <= LonSpan(b)
  OBVIOUS
<1> HIDE DEF w
<1>5. LonSpan(b) = b.max_lon - b.min_lon
  BY <1>1 DEF LonSpan
<1> QED
  BY <1>1, <1>3, <1>4, <1>5

\* A point of the screen, as SeenRows and SeenColumns have it.
LEMMA SeenPoint ==
  ASSUME NEW v \in Cameras, NEW q \in Seen(v), NEW vis, vis = GetVisibleBounds(v)
  PROVE  /\ q[1] \in 0..World - 1 /\ q[2] \in 0..World
         /\ vis.min_lat \in -HalfWorld..HalfWorld /\ vis.max_lat \in -HalfWorld..HalfWorld
         /\ vis.min_lon \in -HalfWorld..HalfWorld /\ vis.max_lon \in -HalfWorld..HalfWorld
         /\ vis.min_lat <= HalfWorld - q[2] /\ HalfWorld - q[2] <= vis.max_lat
         /\ \E i \in Catalog!SplitLongitude(vis) : i.min <= q[1] - HalfWorld /\ q[1] - HalfWorld <= i.max
<1>1. PICK sx \in 0..v.width, sy \in 0..v.height : q = ScreenToLatLon(v, sx, sy)
  BY DEF Seen
<1> DEFINE x == WrapX(v.x + OffX(v, sx))
           y == ClampY(v.y + OffY(v, sy))
<1>2. q = <<x, y>>
  BY <1>1 DEF ScreenToLatLon
<1> HIDE DEF x, y
<1>3. q[1] = x /\ q[2] = y
  BY <1>2
<1>4. x = WrapX(v.x + OffX(v, sx)) /\ y = ClampY(v.y + OffY(v, sy))
  BY DEF x, y
<1>5. /\ x \in 0..World - 1
      /\ vis.min_lon \in -HalfWorld..HalfWorld /\ vis.max_lon \in -HalfWorld..HalfWorld
      /\ \E i \in Catalog!SplitLongitude(vis) : i.min <= x - HalfWorld /\ x - HalfWorld <= i.max
  BY <1>4, SeenColumns
<1>6. /\ y \in 0..World
      /\ vis.min_lat \in -HalfWorld..HalfWorld /\ vis.max_lat \in -HalfWorld..HalfWorld
      /\ vis.min_lat <= HalfWorld - y /\ HalfWorld - y <= vis.max_lat
  BY <1>4, SeenRows
<1> QED
  BY <1>3, <1>5, <1>6

\* A box that contains the bounds of the screen has every point of it.
LEMMA CoverSees ==
  ASSUME NEW v \in Cameras, NEW b, ViewBounds(b), Catalog!Contains(b, GetVisibleBounds(v)),
         NEW q \in Seen(v)
  PROVE  InBounds(q, b)
<1> DEFINE vis == GetVisibleBounds(v)
           x == q[1]
           y == q[2]
<1>1. /\ x \in 0..World - 1 /\ y \in 0..World
      /\ vis.min_lat \in -HalfWorld..HalfWorld /\ vis.max_lat \in -HalfWorld..HalfWorld
      /\ vis.min_lat <= HalfWorld - y /\ HalfWorld - y <= vis.max_lat
  BY SeenPoint
<1>2. PICK i \in Catalog!SplitLongitude(vis) : i.min <= x - HalfWorld /\ x - HalfWorld <= i.max
  BY SeenPoint
<1>3. i.min \in Int /\ i.max \in Int
  <2>1. vis.min_lon \in -HalfWorld..HalfWorld /\ vis.max_lon \in -HalfWorld..HalfWorld /\ HalfWorld \in Nat
    BY SeenPoint, Sizes
  <2> HIDE DEF vis
  <2> QED
    BY <1>2, <2>1 DEF Catalog!SplitLongitude
<1>4. /\ vis.min_lat >= b.min_lat /\ vis.max_lat <= b.max_lat
      /\ \E o \in Catalog!SplitLongitude(b) : i.min >= o.min /\ i.max <= o.max
  BY <1>2 DEF Catalog!Contains
<1>5. PICK o \in Catalog!SplitLongitude(b) : i.min >= o.min /\ i.max <= o.max
  BY <1>4
<1> HIDE DEF vis
<1>6. /\ b.min_lon \in -HalfWorld..HalfWorld /\ b.max_lon \in -HalfWorld..HalfWorld
      /\ b.min_lat \in -HalfWorld..HalfWorld /\ b.max_lat \in -HalfWorld..HalfWorld
      /\ HalfWorld \in Nat /\ World = 2 * HalfWorld
  BY Sizes DEF ViewBounds
<1>7. o.min \in Int /\ o.max \in Int
  BY <1>5, <1>6 DEF Catalog!SplitLongitude
<1>8. o.min <= x - HalfWorld /\ x - HalfWorld <= o.max
  BY <1>1, <1>2, <1>3, <1>5, <1>6, <1>7
<1> HIDE DEF x, y
<1>9. WrapX(x - LonToX(b.min_lon)) <= LonSpan(b)
  BY <1>1, <1>5, <1>8, PartOfBox
<1>10. y \in HalfWorld - b.max_lat..HalfWorld - b.min_lat
  BY <1>1, <1>4, <1>6
<1> QED
  BY <1>9, <1>10 DEF InBounds, LatToY, x, y

\* A box that does not overlap the bounds of the screen has none of it, if
\* neither crosses the antimeridian and the point does not lie on it.
LEMMA Unseen ==
  ASSUME NEW v \in Cameras, NEW b, ViewBounds(b), ~Crosses(b), ~Crosses(GetVisibleBounds(v)),
         NEW q \in Seen(v), q[1] # 0, InBounds(q, b)
  PROVE  BoundsOverlap(b, GetVisibleBounds(v))
<1> DEFINE vis == GetVisibleBounds(v)
           x == q[1]
           y == q[2]
<1>1. /\ x \in 0..World - 1 /\ y \in 0..World
      /\ vis.min_lat \in -HalfWorld..HalfWorld /\ vis.max_lat \in -HalfWorld..HalfWorld
      /\ vis.min_lon \in -HalfWorld..HalfWorld /\ vis.max_lon \in -HalfWorld..HalfWorld
      /\ vis.min_lat <= HalfWorld - y /\ HalfWorld - y <= vis.max_lat
  BY SeenPoint
<1>2. PICK i \in Catalog!SplitLongitude(vis) : i.min <= x - HalfWorld /\ x - HalfWorld <= i.max
  BY SeenPoint
<1>3. ~Crosses(vis)
  OBVIOUS
<1> HIDE DEF vis
<1>4. /\ b.min_lon \in -HalfWorld..HalfWorld /\ b.max_lon \in -HalfWorld..HalfWorld
      /\ b.min_lat \in -HalfWorld..HalfWorld /\ b.max_lat \in -HalfWorld..HalfWorld
      /\ HalfWorld \in Nat /\ World = 2 * HalfWorld
  BY Sizes DEF ViewBounds
<1>5. vis.min_lon <= vis.max_lon
  BY <1>1, <1>3, <1>4 DEF Crosses
<1>6. vis.min_lon <= x - HalfWorld /\ x - HalfWorld <= vis.max_lon
  BY <1>2, <1>5 DEF Catalog!SplitLongitude
<1>7. y \in HalfWorld - b.max_lat..HalfWorld - b.min_lat /\ WrapX(x - LonToX(b.min_lon)) <= LonSpan(b)
  BY DEF InBounds, LatToY
<1>8. x \in 1..World - 1
  BY <1>1, <1>4
<1> HIDE DEF x, y
<1>9. b.min_lon <= x - HalfWorld /\ x - HalfWorld <= b.max_lon
  BY <1>7, <1>8, BetweenEdges
<1>10. BoundsOverlap(b, vis)
  BY <1>1, <1>4, <1>6, <1>7, <1>8, <1>9 DEF BoundsOverlap
<1> QED
  BY <1>10 DEF vis
-----------------------------------------------------------------------------
(* What the two searches of the catalogue find.                            *)

Scanned(g, n, base, step) ==
  \A s \in SUBSET (1..n) :
    g[s] = IF s = {} THEN base ELSE step[<<g[s \ {Seqs!Max(s)}], Seqs!Max(s)>>]

\* A search that goes through the positions from the first to the last.
LEMMA ScanExists ==
  ASSUME NEW n \in Nat, NEW X, NEW base \in X, NEW step \in [X \X (1..n) -> X]
  PROVE  \E g \in [SUBSET (1..n) -> X] : Scanned(g, n, base, step)
<1> DEFINE mx == [s \in SUBSET (1..n) |-> Seqs!Max(s)]
<1>1. Lasts(mx, n)
  BY LastOf DEF Lasts
<1>2. \A s \in SUBSET (1..n) : mx[s] = Seqs!Max(s)
  OBVIOUS
<1> HIDE DEF mx
<1>3. PICK g \in [SUBSET (1..n) -> X] : Fold(g, n, mx, base, step)
  BY <1>1, FoldExists
<1> QED
  BY <1>2, <1>3 DEF Fold, Scanned

Found(p, catalog, req, z) ==
  p = NoPack \/ (p \in Seqs!ToSet(catalog) /\ Catalog!Eligible(p, req, z))

\* The pack that the catalogue resolves is one of its packs and eligible.
LEMMA ResolvedIsEligible ==
  ASSUME NEW catalog \in Seq(Installed), NEW req, NEW z
  PROVE  Found(Catalog!ResolvePack(catalog, req, z), catalog, req, z)
<1> DEFINE n == Len(catalog)
           X == {NoPack} \cup {p \in Seqs!ToSet(catalog) : Catalog!Eligible(p, req, z)}
           mx == [s \in SUBSET (1..n) |-> Seqs!Max(s)]
           Better(best, p) == IF Catalog!Eligible(p, req, z) /\ Catalog!Beats(p, best) THEN p ELSE best
           Scans(h) == h = [s \in SUBSET (1..n) |->
                              IF s = {} THEN NoPack
                              ELSE Better(h[s \ {Catalog!Seqs!Max(s)}], catalog[Catalog!Seqs!Max(s)])]
           step == [q \in X \X (1..n) |-> Better(q[1], catalog[q[2]])]
           scan == CHOOSE h : Scans(h)
<1>1. n \in Nat /\ DOMAIN catalog = 1..n /\ \A i \in 1..n : catalog[i] \in Seqs!ToSet(catalog)
  BY LenProperties DEF Seqs!ToSet
<1>2. Catalog!ResolvePack(catalog, req, z) \in {NoPack, scan[1..n]}
  <2>1. \/ Catalog!ResolvePack(catalog, req, z) = NoPack
        \/ Catalog!ResolvePack(catalog, req, z) = scan[DOMAIN catalog]
    BY <1>1 DEF Catalog!ResolvePack, Catalog!Seqs!FoldLeft, Catalog!Seqs!MapThenFoldSet
  <2> QED
    BY <1>1, <2>1
<1>3. \A s : Catalog!Seqs!Max(s) = Seqs!Max(s)
  BY DEF Catalog!Seqs!Max, Seqs!Max
<1> HIDE DEF n, scan
<1>4. ASSUME NEW best \in X, NEW i \in 1..n PROVE Better(best, catalog[i]) \in X
  BY <1>1, <1>4
<1>5. Lasts(mx, n)
  BY <1>1, LastOf DEF Lasts
<1>6. Scans(scan)
  <2>1. step \in [X \X (1..n) -> X] /\ NoPack \in X
    <3> HIDE DEF X, Better
    <3>1. step \in [X \X (1..n) -> X]
      BY <1>4
    <3> QED
      BY <3>1 DEF X
  <2>2. PICK g \in [SUBSET (1..n) -> X] : Scanned(g, n, NoPack, step)
    <3> DEFINE base == NoPack
    <3>1. n \in Nat /\ base \in X /\ step \in [X \X (1..n) -> X]
      BY <1>1, <2>1
    <3> HIDE DEF X, step, base
    <3>2. \E g \in [SUBSET (1..n) -> X] : Scanned(g, n, base, step)
      BY ONLY <3>1, ScanExists
    <3> QED
      BY <3>2 DEF base
  <2>3. ASSUME NEW s \in SUBSET (1..n), s # {}
        PROVE  g[s] = Better(g[s \ {Seqs!Max(s)}], catalog[Seqs!Max(s)])
    <3>1. Seqs!Max(s) \in 1..n /\ s \ {Seqs!Max(s)} \in SUBSET (1..n)
      BY <1>1, <2>3, LastOf
    <3> DEFINE q == <<g[s \ {Seqs!Max(s)}], Seqs!Max(s)>>
    <3>2. g[s] = step[q]
      BY <2>2, <2>3 DEF Scanned
    <3>3. q \in X \X (1..n) /\ q[1] = g[s \ {Seqs!Max(s)}] /\ q[2] = Seqs!Max(s)
      <4> HIDE DEF X
      <4> QED
        BY <3>1
    <3> HIDE DEF q, X, Better
    <3> QED
      BY <3>2, <3>3
  <2>4. g[{}] = NoPack
    <3>1. {} \in SUBSET (1..n)
      OBVIOUS
    <3> QED
      BY <2>2, <3>1 DEF Scanned
  <2>5. Scans(g)
    <3> HIDE DEF Better
    <3> QED
      BY <1>3, <2>3, <2>4
  <2> HIDE DEF Scans
  <2> QED
    BY <2>5 DEF scan
<1>7. \A s \in SUBSET (1..n) : scan[s] \in X
  <2>1. scan[{}] \in X
    <3>1. {} \in SUBSET (1..n)
      OBVIOUS
    <3> QED
      BY <1>6, <3>1
  <2>2. ASSUME NEW s \in SUBSET (1..n), s # {}, scan[s \ {mx[s]}] \in X PROVE scan[s] \in X
    <3>1. mx[s] = Seqs!Max(s) /\ mx[s] \in 1..n
      BY <1>5, <2>2 DEF Lasts
    <3>2. scan[s] = Better(scan[s \ {mx[s]}], catalog[mx[s]])
      BY <1>6, <1>3, <2>2, <3>1
    <3> HIDE DEF mx, X, Better
    <3> QED
      BY <1>4, <2>2, <3>1, <3>2
  <2> HIDE DEF mx, X
  <2> QED
    BY <1>1, <1>5, <2>1, <2>2, FoldStays
<1>8. scan[1..n] \in X
  <2>1. 1..n \in SUBSET (1..n)
    OBVIOUS
  <2> HIDE DEF X
  <2> QED
    BY <1>7, <2>1
<1> QED
  BY <1>2, <1>8 DEF Found

Overlaps(p, visible, z) == Serves(p, z) /\ BoundsOverlap(p.bounds, visible)

\* The search for an overlap finds one of the packs when any overlaps.
LEMMA OverlapIsFound ==
  ASSUME NEW catalog \in Seq(Installed), NEW visible, NEW z
  PROVE  LET p == BestOverlap(catalog, visible, z)
         IN  /\ p \in Seqs!ToSet(catalog) \cup {NoPack}
             /\ p = NoPack => \A q \in Seqs!ToSet(catalog) : ~Overlaps(q, visible, z)
<1> DEFINE n == Len(catalog)
           X == {NoPack} \cup Seqs!ToSet(catalog)
           mx == [s \in SUBSET (1..n) |-> Seqs!Max(s)]
           Some(p) == z \in p.min_zoom..p.max_zoom /\ BoundsOverlap(p.bounds, visible)
           Better(best, p) == IF Some(p) /\ (best = NoPack \/ p.priority > best.priority) THEN p ELSE best
           Scans(h) == h = [s \in SUBSET (1..n) |->
                              IF s = {} THEN NoPack
                              ELSE Better(h[s \ {Seqs!Max(s)}], catalog[Seqs!Max(s)])]
           step == [q \in X \X (1..n) |-> Better(q[1], catalog[q[2]])]
           scan == CHOOSE h : Scans(h)
<1>1. n \in Nat /\ DOMAIN catalog = 1..n /\ \A i \in 1..n : catalog[i] \in Seqs!ToSet(catalog)
  BY LenProperties DEF Seqs!ToSet
<1>2. BestOverlap(catalog, visible, z) = scan[1..n]
  BY <1>1 DEF BestOverlap, Seqs!FoldLeft, Seqs!MapThenFoldSet
<1>3. \A p \in Seqs!ToSet(catalog) : p # NoPack
  <2>1. \A i \in 1..n : catalog[i] \in Installed
    BY <1>1
  <2>2. \A p \in Installed : p # NoPack
    BY DemoAssumption DEF Installed, Seqs!ToSet
  <2> QED
    BY <1>1, <2>1, <2>2 DEF Seqs!ToSet
<1> HIDE DEF n, scan
<1>4. ASSUME NEW best \in X, NEW i \in 1..n PROVE Better(best, catalog[i]) \in X
  BY <1>1, <1>4
<1>5. Lasts(mx, n)
  BY <1>1, LastOf DEF Lasts
<1>6. Scans(scan)
  <2>1. step \in [X \X (1..n) -> X] /\ NoPack \in X
    <3> HIDE DEF X, Better
    <3>1. step \in [X \X (1..n) -> X]
      BY <1>4
    <3> QED
      BY <3>1 DEF X
  <2>2. PICK g \in [SUBSET (1..n) -> X] : Scanned(g, n, NoPack, step)
    <3> DEFINE base == NoPack
    <3>1. n \in Nat /\ base \in X /\ step \in [X \X (1..n) -> X]
      BY <1>1, <2>1
    <3> HIDE DEF X, step, base
    <3>2. \E g \in [SUBSET (1..n) -> X] : Scanned(g, n, base, step)
      BY ONLY <3>1, ScanExists
    <3> QED
      BY <3>2 DEF base
  <2>3. ASSUME NEW s \in SUBSET (1..n), s # {}
        PROVE  g[s] = Better(g[s \ {Seqs!Max(s)}], catalog[Seqs!Max(s)])
    <3>1. Seqs!Max(s) \in 1..n /\ s \ {Seqs!Max(s)} \in SUBSET (1..n)
      BY <1>1, <2>3, LastOf
    <3> DEFINE q == <<g[s \ {Seqs!Max(s)}], Seqs!Max(s)>>
    <3>2. g[s] = step[q]
      BY <2>2, <2>3 DEF Scanned
    <3>3. q \in X \X (1..n) /\ q[1] = g[s \ {Seqs!Max(s)}] /\ q[2] = Seqs!Max(s)
      <4> HIDE DEF X
      <4> QED
        BY <3>1
    <3> HIDE DEF q, X, Better
    <3> QED
      BY <3>2, <3>3
  <2>4. g[{}] = NoPack
    <3>1. {} \in SUBSET (1..n)
      OBVIOUS
    <3> QED
      BY <2>2, <3>1 DEF Scanned
  <2>5. Scans(g)
    <3> HIDE DEF Better
    <3> QED
      BY <2>3, <2>4
  <2> HIDE DEF Scans
  <2> QED
    BY <2>5 DEF scan
<1> DEFINE Y == {q \in X \X SUBSET (1..n) : q[1] = NoPack => \A i \in q[2] : ~Some(catalog[i])}
           h == [s \in SUBSET (1..n) |-> <<scan[s], s>>]
<1>7. \A s \in SUBSET (1..n) : h[s] \in Y
  <2>1. h[{}] \in Y
    <3>1. {} \in SUBSET (1..n)
      OBVIOUS
    <3>2. scan[{}] = NoPack
      BY <1>6, <3>1
    <3> QED
      BY <3>1, <3>2
  <2>2. ASSUME NEW s \in SUBSET (1..n), s # {}, h[s \ {mx[s]}] \in Y PROVE h[s] \in Y
    <3>1. mx[s] = Seqs!Max(s) /\ mx[s] \in s /\ mx[s] \in 1..n
      BY <1>5, <2>2 DEF Lasts
    <3> DEFINE r == s \ {mx[s]}
               p == catalog[mx[s]]
    <3>2. r \in SUBSET (1..n) /\ h[r] = <<scan[r], r>> /\ h[s] = <<scan[s], s>>
      OBVIOUS
    <3>3. scan[s] = Better(scan[r], p)
      BY <1>6, <2>2, <3>1
    <3> HIDE DEF mx, X, Better
    <3>4. scan[r] \in X /\ (scan[r] = NoPack => \A i \in r : ~Some(catalog[i]))
      BY <2>2, <3>2
    <3>5. scan[s] \in X
      BY <1>4, <3>1, <3>3, <3>4
    <3>6. p # NoPack
      BY <1>1, <1>3, <3>1
    <3>7. ASSUME scan[s] = NoPack, NEW i \in s PROVE ~Some(catalog[i])
      <4> HIDE DEF r, h, Y, Some
      <4>1. ~Some(p) /\ scan[r] = NoPack
        BY <3>3, <3>6, <3>7 DEF Better
      <4>2. i = mx[s] \/ i \in r
        BY DEF r
      <4> QED
        BY <3>4, <4>1, <4>2
    <3>8. <<scan[s], s>> \in Y
      <4> HIDE DEF Some, r, h
      <4>1. <<scan[s], s>> \in X \X SUBSET (1..n)
        BY <2>2, <3>5
      <4>2. <<scan[s], s>>[1] = scan[s] /\ <<scan[s], s>>[2] = s
        OBVIOUS
      <4>3. scan[s] = NoPack => \A i \in s : ~Some(catalog[i])
        BY <3>7
      <4> QED
        BY <4>1, <4>2, <4>3
    <3> HIDE DEF Y, h
    <3> QED
      BY <3>2, <3>8
  <2> HIDE DEF mx, h, Y
  <2> QED
    BY <1>1, <1>5, <2>1, <2>2, FoldStays
<1>8. scan[1..n] \in X /\ (scan[1..n] = NoPack => \A i \in 1..n : ~Some(catalog[i]))
  <2>1. 1..n \in SUBSET (1..n)
    OBVIOUS
  <2>2. h[1..n] = <<scan[1..n], 1..n>> /\ h[1..n] \in Y
    BY <1>7, <2>1
  <2> DEFINE all == 1..n
             w == <<scan[all], all>>
  <2>3. w \in Y /\ w[1] = scan[all] /\ w[2] = all
    BY <2>2
  <2> HIDE DEF X, h, Some, w, all
  <2>4. w[1] \in X /\ (w[1] = NoPack => \A i \in w[2] : ~Some(catalog[i]))
    BY <2>3
  <2> QED
    BY <2>3, <2>4 DEF all
<1>9. \A q \in Seqs!ToSet(catalog) : \E i \in 1..n : q = catalog[i]
  BY <1>1 DEF Seqs!ToSet
<1> QED
  BY <1>2, <1>8, <1>9 DEF Overlaps, Serves
-----------------------------------------------------------------------------
(* What a frame tells of its pack.                                         *)

Tells(f, opened, catalog, b) ==
  IF f.pack # NoPack
  THEN /\ f.pack \in Seqs!ToSet(opened)
       /\ b = "tab5" /\ ~f.partial => /\ Serves(f.pack, f.view.zoom)
                                     /\ \A q \in Seen(f.view) : InBounds(q, f.pack.bounds)
  ELSE opened = catalog /\ ~Crosses(GetVisibleBounds(f.view)) =>
         \A p \in Seqs!ToSet(catalog) :
           Serves(p, f.view.zoom) /\ ~Crosses(p.bounds) =>
             \A q \in Seen(f.view) : q[1] # 0 => ~InBounds(q, p.bounds)

\* The pack in the canvas was chosen when the canvas was drawn, and nothing
\* that the choice went by has changed since.
Told == phase = "live" => Tells(canvas, sources, packs, board)

\* A frame of what is chosen for its view tells the truth.
LEMMA ChosenFrameTells ==
  ASSUME packs \in Seq(Installed), sources \in Seq(Installed), NEW v \in Cameras, NEW st, NEW c
  PROVE  Tells(Frame(v, st, ResolveActiveSource(v, c)), sources, packs, board)
<1> DEFINE visible == GetVisibleBounds(v)
           cover == Catalog!ResolvePack(packs, visible, v.zoom)
           over == BestOverlap(packs, visible, v.zoom)
           f == Frame(v, st, ResolveActiveSource(v, c))
<1>1. \A p : SourceForManifest(p) # NoPack => SourceForManifest(p) = p /\ p \in Seqs!ToSet(sources)
  BY DEF SourceForManifest, Seqs!ToSet
<1>2. f.view = v
  BY DEF Frame
<1>3. /\ SourceForManifest(cover) # NoPack => f.pack = SourceForManifest(cover) /\ ~f.partial
      /\ SourceForManifest(cover) = NoPack /\ SourceForManifest(over) # NoPack =>
           f.pack = SourceForManifest(over) /\ f.partial = (board = "tab5")
      /\ SourceForManifest(cover) = NoPack /\ SourceForManifest(over) = NoPack => f.pack = NoPack
  BY DEF Frame, ResolveActiveSource
<1> HIDE DEF f
<1>4. \A p \in Seqs!ToSet(packs) : p \in Installed /\ ViewBounds(p.bounds)
  <2>1. \A p \in Seqs!ToSet(packs) : p \in Installed
    BY DEF Seqs!ToSet
  <2> QED
    BY <2>1, InstalledAreValid
<1>5. CASE SourceForManifest(cover) # NoPack
  <2>1. cover # NoPack /\ cover \in Seqs!ToSet(sources) /\ f.pack = cover /\ ~f.partial
    BY <1>1, <1>3, <1>5
  <2>2. Found(cover, packs, visible, v.zoom)
    BY ResolvedIsEligible
  <2> HIDE DEF cover
  <2>3. cover \in Seqs!ToSet(packs) /\ Catalog!Eligible(cover, visible, v.zoom)
    BY <2>1, <2>2 DEF Found
  <2>4. Serves(cover, v.zoom) /\ Catalog!Contains(cover.bounds, visible)
    BY <2>3 DEF Catalog!Eligible, Serves
  <2>5. ViewBounds(cover.bounds)
    BY <1>4, <2>3
  <2>6. \A q \in Seen(v) : InBounds(q, cover.bounds)
    BY <2>4, <2>5, CoverSees
  <2> QED
    BY <1>2, <2>1, <2>4, <2>6 DEF Tells, f
<1>6. CASE SourceForManifest(cover) = NoPack /\ SourceForManifest(over) # NoPack
  <2>1. over # NoPack /\ over \in Seqs!ToSet(sources) /\ f.pack = over /\ f.partial = (board = "tab5")
    BY <1>1, <1>3, <1>6
  <2> HIDE DEF over, cover
  <2> QED
    BY <2>1 DEF Tells, f
<1>7. CASE SourceForManifest(cover) = NoPack /\ SourceForManifest(over) = NoPack
  <2>1. f.pack = NoPack
    BY <1>3, <1>7
  <2>2. ASSUME sources = packs, ~Crosses(visible), NEW p \in Seqs!ToSet(packs),
               Serves(p, v.zoom), ~Crosses(p.bounds), NEW q \in Seen(v), q[1] # 0, InBounds(q, p.bounds)
        PROVE  FALSE
    <3>1. /\ over \in Seqs!ToSet(packs) \cup {NoPack}
          /\ over = NoPack => \A r \in Seqs!ToSet(packs) : ~Overlaps(r, visible, v.zoom)
      BY OverlapIsFound
    <3>2. over = NoPack
      <4>1. over \in Seqs!ToSet(packs) => SourceForManifest(over) = over
        <5> HIDE DEF over
        <5> QED
          BY <2>2 DEF SourceForManifest, Seqs!ToSet
      <4> HIDE DEF over
      <4> QED
        BY <1>7, <3>1, <4>1
    <3>3. BoundsOverlap(p.bounds, visible)
      BY <1>4, <2>2, Unseen
    <3> QED
      BY <2>2, <3>1, <3>2, <3>3 DEF Overlaps
  <2> HIDE DEF over, cover
  <2> QED
    BY <1>2, <2>1, <2>2 DEF Tells, f
<1> QED
  BY <1>5, <1>6, <1>7 DEF f

LEMMA RedrawTells ==
  ASSUME IInv, NEW v \in Cameras, NEW st, NEW current, Redraw(v, st, current)
  PROVE  Tells(canvas', sources, packs, board)
<1>1. canvas' = Frame(v, st, ResolveActiveSource(v, current))
  BY DEF Redraw, RenderMapFrame
<1>2. packs \in Seq(Installed) /\ sources \in Seq(Installed)
  BY DEF IInv, Typed
<1> QED
  BY <1>1, <1>2, ChosenFrameTells

\* A frame of any open source that says it is partial.
LEMMA PartialTells ==
  ASSUME NEW f, f.pack \in Seqs!ToSet(sources), f.partial = TRUE, IInv
  PROVE  Tells(f, sources, packs, board)
<1>1. f.pack # NoPack
  <2>1. f.pack \in Installed
    BY DEF IInv, Typed, Seqs!ToSet
  <2> QED
    BY <2>1, DemoAssumption DEF Installed, Seqs!ToSet
<1> QED
  BY <1>1 DEF Tells

LEMMA ToldStays == IInv /\ IInv' /\ Told /\ [Next]_vars => Told'
<1> SUFFICES ASSUME IInv, IInv', Told, [Next]_vars, phase' = "live"
             PROVE  Tells(canvas', sources', packs', board')
  BY DEF Told
<1>1. view \in Cameras /\ view' \in Cameras
  BY DEF IInv, Typed
<1>2. ASSUME UNCHANGED booting, Tells(canvas', sources, packs, board)
      PROVE  Tells(canvas', sources', packs', board')
  BY <1>2 DEF booting
<1>3. ASSUME UNCHANGED <<booting, phase, canvas>> PROVE Tells(canvas', sources', packs', board')
  BY <1>3 DEF Told, booting
<1>4. CASE UNCHANGED vars
  BY <1>3, <1>4 DEF vars, booting
<1>5. CASE BootFails \/ Boot
  BY <1>5 DEF BootFails, Boot
<1>6. CASE OpenTab5 \/ OpenCyd \/ Level \/ PanScreen \/ Restore \/ FinalView \/ ReleaseDrag
           \/ TapZoom \/ TapPack
  <2>1. UNCHANGED booting /\ \E current : Redraw(view', style, current)
    BY <1>6 DEF OpenTab5, OpenCyd, Level, PanScreen, Restore, FinalView, ReleaseDrag, TapZoom, TapPack
  <2> QED
    BY <1>1, <1>2, <2>1, RedrawTells
<1>7. CASE RedrawAfter
  <2>1. UNCHANGED booting /\ Redraw(view, style, source.active)
    BY <1>7 DEF RedrawAfter
  <2> QED
    BY <1>1, <1>2, <2>1, RedrawTells
<1>8. CASE TapStyle
  <2>1. UNCHANGED booting /\ Redraw(view, style', source.active)
    BY <1>8 DEF TapStyle
  <2> QED
    BY <1>1, <1>2, <2>1, RedrawTells
<1>9. CASE Scenario
  <2> DEFINE of == Seqs!SelectInSeq(sources, LAMBDA p : p.region = todo[1].of.region)
             f == [view |-> [view EXCEPT !.x = todo[1].of.x, !.y = todo[1].of.y, !.zoom = todo[1].of.zoom],
                   style |-> style, pack |-> sources[of], partial |-> TRUE]
  <2>1. UNCHANGED <<booting, phase>> /\ canvas' = IF of = 0 THEN canvas ELSE f
    BY <1>9 DEF Scenario
  <2>2. of # 0 => of \in 1..Len(sources)
    <3> DEFINE I == {i \in 1..Len(sources) : sources[i].region = todo[1].of.region}
    <3>1. of = IF I # {} THEN Seqs!Min(I) ELSE 0
      BY DEF Seqs!SelectInSeq
    <3>2. I \in SUBSET Nat
      OBVIOUS
    <3>3. ASSUME NEW J \in SUBSET Nat, J # {} PROVE Seqs!Min(J) \in J
      BY <3>3, LeastNatural DEF Seqs!Min
    <3>4. I # {} => Seqs!Min(I) \in I
      <4> HIDE DEF I
      <4> QED
        BY <3>2, <3>3
    <3> HIDE DEF of
    <3> QED
      BY <3>1, <3>4
  <2> HIDE DEF of
  <2>3. CASE of = 0
    BY <1>3, <2>1, <2>3
  <2>4. CASE of # 0
    <3>1. f.pack \in Seqs!ToSet(sources) /\ f.partial = TRUE
      BY <2>2, <2>4 DEF Seqs!ToSet, IInv, Typed
    <3> HIDE DEF f
    <3>2. Tells(f, sources, packs, board)
      BY <3>1, PartialTells
    <3> QED
      BY <1>2, <2>1, <2>4, <3>2
  <2> QED
    BY <2>3, <2>4
<1>10. CASE Framing
  <2> DEFINE f == [view |-> view', style |-> style, pack |-> todo[1].pack, partial |-> TRUE]
  <2>1. UNCHANGED <<booting, phase>> /\ (canvas' = canvas \/ canvas' = f)
    BY <1>10 DEF Framing
  <2>2. todo # <<>> /\ todo[1].op = "framing"
    BY <1>10 DEF Framing
  <2>3. todo[1].pack \in Seqs!ToSet(sources)
    <3>1. todo[1] \in Ops(Seqs!ToSet(sources))
      BY <2>2, NextOfTodo DEF IInv
    <3> QED
      BY <2>2, <3>1 DEF Ops, Finals
  <2>4. Tells(f, sources, packs, board)
    <3>1. f.pack \in Seqs!ToSet(sources) /\ f.partial = TRUE
      BY <2>3
    <3> HIDE DEF f
    <3> QED
      BY <3>1, PartialTells
  <2> HIDE DEF f
  <2> QED
    BY <1>2, <1>3, <2>1, <2>4
<1>11. CASE \/ \E where \in Buttons \cup {"map"} : Press(where)
            \/ \E d \in Drags : Move(d[1], d[2])
            \/ TapInfo \/ TapMeasure \/ TapNothing
  <2>1. UNCHANGED <<booting, phase, canvas>>
    BY <1>11 DEF Press, Move, TapInfo, TapMeasure, TapNothing
  <2> QED
    BY <1>3, <2>1
<1> QED
  BY <1>4, <1>5, <1>6, <1>7, <1>8, <1>9, <1>10, <1>11 DEF Next, Measure

\* A frame never claims a pack that does not have all of it, at its zoom, on
\* both sides of the antimeridian; and with every archive open the message that
\* there is no coverage is only drawn where no pack has any of the screen
\* (ResolveActiveSource and BestOverlap, Tab5 main.cpp and CYD main.cpp).
THEOREM FramesAreTruthful == Spec => []FramesTellCoverage
<1>1. Init => Told
  BY DEF Init, Told
<1>2. Told => FramesTellCoverage
  BY DEF Told, Tells, FramesTellCoverage, Seen, Crosses, Serves
<1> QED
  BY <1>1, <1>2, ToldStays, Invariance, PTL DEF Spec

-----------------------------------------------------------------------------
(* The location picker.                                                    *)

PickerSpec == PickerInit /\ [][PickerNext]_pickerVars

\* The screens are viewports, and a finger travels whole pixels.
PickerAssumption == Screens \subseteq Cameras /\ Gestures \subseteq Int

Pickers ==
  [view : Cameras, bounds : Coverages, limits : Limits, min_zoom : 0..MaxZoom,
   max_zoom : 0..MaxZoom, initial_center : (0..World - 1) \X (0..World), moved : BOOLEAN]

\* m is the first zoom of the data at which b fills the screen, if any does.
FirstFill(v, b, l, m) ==
  /\ m \in l.low..l.high
  /\ ~SpansWorld(b) =>
       \A y, z \in l.low..l.high : Fills(v, b, y) => (Fills(v, b, z) <=> m <= z)

\* A picker that answers knows its range, keeps to it, and has somewhere to
\* return to.
PickerInv ==
  ready =>
    /\ picker \in Pickers
    /\ UsableBounds(picker.bounds) /\ ValidLimits(picker.limits)
    /\ FirstFill(picker.view, picker.bounds, picker.limits, picker.min_zoom)
    /\ picker.max_zoom = picker.limits.high
    /\ picker.view.zoom \in picker.min_zoom..picker.max_zoom
    /\ ~picker.moved => <<picker.view.x, picker.view.y>> = picker.initial_center

\* What fills the screen depends on its size only.
LEMMA SameScreen ==
  ASSUME NEW v, NEW u, u.width = v.width, u.height = v.height, NEW b, NEW l, NEW m,
         FirstFill(v, b, l, m)
  PROVE  FirstFill(u, b, l, m)
  BY DEF FirstFill, Fills

\* Going to a point and a zoom, whichever the camera was.
LEMMA MovedCamera ==
  ASSUME NEW v \in Cameras
  PROVE  /\ \A x, y \in Int : /\ SetCenter(v, x, y) \in Cameras
                              /\ SetCenter(v, x, y).zoom = v.zoom
                              /\ SetCenter(v, x, y).width = v.width
                              /\ SetCenter(v, x, y).height = v.height
                              /\ SetCenter(v, x, y).x = WrapX(x) /\ SetCenter(v, x, y).y = ClampY(y)
                              /\ WrapX(x) \in 0..World - 1 /\ ClampY(y) \in 0..World
         /\ \A z \in 0..MaxZoom : /\ SetZoom(v, z) \in Cameras /\ SetZoom(v, z).zoom = z
                                  /\ SetZoom(v, z).width = v.width /\ SetZoom(v, z).height = v.height
                                  /\ SetZoom(v, z).x = v.x /\ SetZoom(v, z).y = v.y
<1>1. ASSUME NEW x \in Int, NEW y \in Int
      PROVE  /\ SetCenter(v, x, y) \in Cameras
             /\ SetCenter(v, x, y).zoom = v.zoom
             /\ SetCenter(v, x, y).width = v.width
             /\ SetCenter(v, x, y).height = v.height
             /\ SetCenter(v, x, y).x = WrapX(x) /\ SetCenter(v, x, y).y = ClampY(y)
             /\ WrapX(x) \in 0..World - 1 /\ ClampY(y) \in 0..World
  <2>1. WrapX(x) \in 0..World - 1
    BY Sizes, QuotientAndRest DEF WrapX
  <2>2. ClampY(y) \in 0..World
    BY Sizes DEF ClampY, Clamp
  <2>3. SetCenter(v, x, y) = [v EXCEPT !.x = WrapX(x), !.y = ClampY(y)]
    BY DEF SetCenter
  <2> QED
    BY <2>1, <2>2, <2>3, CentredView DEF Cameras
<1>2. ASSUME NEW z \in 0..MaxZoom
      PROVE  /\ SetZoom(v, z) \in Cameras /\ SetZoom(v, z).zoom = z
             /\ SetZoom(v, z).width = v.width /\ SetZoom(v, z).height = v.height
             /\ SetZoom(v, z).x = v.x /\ SetZoom(v, z).y = v.y
  <2>1. SetZoom(v, z) \in Cameras /\ SetZoom(v, z).zoom = z
        /\ SetZoom(v, z).width = v.width /\ SetZoom(v, z).height = v.height
        /\ SetZoom(v, z) = [v EXCEPT !.zoom = z]
    BY AtZoom
  <2> QED
    BY <2>1 DEF Cameras
<1> QED
  BY <1>1, <1>2

LEMMA RangeStartsAtTheFill ==
  ASSUME NEW v \in Cameras, NEW b, UsableBounds(b), NEW l, ValidLimits(l)
  PROVE  FirstFill(v, b, l, LocationPickerZoomRange(v, b, l))
<1> DEFINE m == LocationPickerZoomRange(v, b, l)
           f == MinFillZoom(v, b)
<1>1. l.low \in 0..MaxZoom /\ l.high \in 0..MaxZoom /\ l.low <= l.high /\ MaxZoom \in Nat
  BY ViewAssumption DEF ValidLimits
<1>2. ViewBounds(b)
  BY DEF UsableBounds
<1>3. f \in 0..MaxZoom + 1 /\ WorldViewZoom(v) \in 0..MaxZoom + 1
  BY ZoomsFound
<1>4. \/ m = l.low
      \/ m = Clamp(f, l.low, l.high)
      \/ m = Clamp(WorldViewZoom(v), l.low, l.high)
  BY DEF LocationPickerZoomRange
<1>5. m \in l.low..l.high
  <2> HIDE DEF m, f
  <2> QED
    BY <1>1, <1>3, <1>4 DEF Clamp
<1>6. ~SpansWorld(b) => m = IF f = NoZoom THEN l.low ELSE Clamp(f, l.low, l.high)
  BY DEF LocationPickerZoomRange
<1>7. ASSUME ~SpansWorld(b), NEW y \in l.low..l.high, NEW z \in l.low..l.high, Fills(v, b, y)
      PROVE  Fills(v, b, z) <=> m <= z
  <2>1. y \in 0..MaxZoom /\ z \in 0..MaxZoom /\ f <= y
    BY <1>1, <1>2, <1>7, LeastFill
  <2>2. f # NoZoom
    BY <1>1, <1>3, <2>1 DEF NoZoom
  <2>3. f \in 0..MaxZoom /\ Fills(v, b, f)
    BY <1>2, <2>2, LeastFill
  <2>4. Fills(v, b, z) <=> f <= z
    <3>1. Fills(v, b, z) => f <= z
      BY <1>2, <2>1, LeastFill
    <3>2. f <= z => Fills(v, b, z)
      <4> HIDE DEF f
      <4> QED
        BY <1>2, <2>1, <2>3, FillsDeeper
    <3> QED
      BY <3>1, <3>2
  <2>5. m = IF f < l.low THEN l.low ELSE f
    <3>1. m = Clamp(f, l.low, l.high)
      BY <1>6, <1>7, <2>2
    <3> HIDE DEF m, f
    <3> QED
      BY <1>1, <2>1, <2>3, <3>1 DEF Clamp
  <2> HIDE DEF m, f
  <2>6. m <= z <=> f <= z
    BY <1>1, <2>1, <2>3, <2>5
  <2> QED
    BY <2>4, <2>6
<1> QED
  BY <1>5, <1>7 DEF FirstFill

LEMMA BeginPicks ==
  ASSUME PickerAssumption, NEW v \in Screens, NEW b \in Coverages, NEW l \in Limits, Begin(v, b, l)
  PROVE  PickerInv'
<1> SUFFICES ASSUME ready' PROVE PickerInv'
  BY DEF PickerInv
<1> DEFINE p == Opened(v, b, l)
           m == LocationPickerZoomRange(v, b, l)
           x == LonToX((b.min_lon + b.max_lon) \div 2)
           y == LatToY(MeanLat(b.min_lat, b.max_lat))
           u == SetCenter(SetZoom(v, m), x, y)
<1>1. UsableBounds(b) /\ ValidLimits(l) /\ picker' = p
  BY DEF Begin
<1>2. v \in Cameras
  BY DEF PickerAssumption
<1>3. FirstFill(v, b, l, m)
  BY <1>1, <1>2, RangeStartsAtTheFill
<1>4. l.low \in 0..MaxZoom /\ l.high \in 0..MaxZoom /\ m \in l.low..l.high
  <2> HIDE DEF m
  <2> QED
    BY <1>1, <1>3 DEF ValidLimits, FirstFill
<1>5. x \in Int /\ y \in Int
  <2>1. /\ b.min_lon \in Int /\ b.max_lon \in Int
        /\ b.min_lat \in -HalfWorld..HalfWorld /\ b.max_lat \in -HalfWorld..HalfWorld
    BY <1>1, Sizes DEF UsableBounds, ViewBounds
  <2>2. MeanLat(b.min_lat, b.max_lat) \in -HalfWorld..HalfWorld
    BY <2>1, MeanAssumption
  <2> QED
    BY <2>1, <2>2, Sizes DEF LonToX, LatToY, WrapX
<1>6. p = [view |-> u, bounds |-> b, limits |-> l, min_zoom |-> m, max_zoom |-> l.high,
           initial_center |-> <<u.x, u.y>>, moved |-> FALSE]
  BY DEF Opened
<1> HIDE DEF m, x, y, p
<1>7. m \in 0..MaxZoom
  BY <1>4, ViewAssumption
<1> DEFINE w == SetZoom(v, m)
<1>8. w \in Cameras /\ w.zoom = m /\ w.width = v.width /\ w.height = v.height
  BY <1>2, <1>7, MovedCamera
<1>9. u = SetCenter(w, x, y)
  OBVIOUS
<1> HIDE DEF w, u
<1>10. /\ u \in Cameras /\ u.zoom = m /\ u.width = v.width /\ u.height = v.height
       /\ u.x \in 0..World - 1 /\ u.y \in 0..World
  BY <1>5, <1>8, <1>9, MovedCamera
<1>11. FirstFill(u, b, l, m)
  BY <1>3, <1>10, SameScreen
<1>12. p \in Pickers
  BY <1>4, <1>6, <1>7, <1>10 DEF Pickers
<1>13. m \in m..l.high
  BY <1>4
<1> QED
  BY <1>1, <1>4, <1>6, <1>10, <1>11, <1>12, <1>13 DEF PickerInv

\* A camera that is moved or zoomed within the range keeps the invariant.
LEMMA PickerMoves ==
  ASSUME PickerInv, ready, ready', NEW u \in Cameras, NEW moved \in BOOLEAN,
         picker' = [picker EXCEPT !.view = u, !.moved = moved],
         u.width = picker.view.width, u.height = picker.view.height,
         u.zoom \in picker.min_zoom..picker.max_zoom,
         ~moved => <<u.x, u.y>> = picker.initial_center
  PROVE  PickerInv'
<1>1. /\ picker \in Pickers
      /\ UsableBounds(picker.bounds) /\ ValidLimits(picker.limits)
      /\ FirstFill(picker.view, picker.bounds, picker.limits, picker.min_zoom)
      /\ picker.max_zoom = picker.limits.high
  BY DEF PickerInv
<1>2. /\ picker' \in Pickers /\ picker'.view = u /\ picker'.moved = moved
      /\ picker'.bounds = picker.bounds /\ picker'.limits = picker.limits
      /\ picker'.min_zoom = picker.min_zoom /\ picker'.max_zoom = picker.max_zoom
      /\ picker'.initial_center = picker.initial_center
  BY <1>1 DEF Pickers
<1>3. FirstFill(u, picker.bounds, picker.limits, picker.min_zoom)
  BY <1>1, SameScreen
<1> QED
  BY <1>1, <1>2, <1>3 DEF PickerInv

LEMMA PickerStep == PickerAssumption /\ PickerInv /\ [PickerNext]_pickerVars => PickerInv'
<1> SUFFICES ASSUME PickerAssumption, PickerInv, [PickerNext]_pickerVars PROVE PickerInv'
  OBVIOUS
<1> DEFINE v == picker.view
<1>1. CASE UNCHANGED pickerVars
  BY <1>1 DEF pickerVars, PickerInv
<1>2. ASSUME NEW s \in Screens, NEW b \in Coverages, NEW l \in Limits, Begin(s, b, l) PROVE PickerInv'
  BY <1>2, BeginPicks
<1>3. ready => /\ picker \in Pickers /\ v \in Cameras /\ v.zoom \in picker.min_zoom..picker.max_zoom
               /\ picker.min_zoom \in 0..MaxZoom /\ picker.max_zoom \in 0..MaxZoom
               /\ picker.moved \in BOOLEAN
               /\ picker.min_zoom <= picker.max_zoom
               /\ picker.initial_center \in (0..World - 1) \X (0..World)
               /\ ~picker.moved => <<v.x, v.y>> = picker.initial_center
  <2> SUFFICES ASSUME ready PROVE /\ picker \in Pickers
                                  /\ picker.min_zoom <= picker.max_zoom
                                  /\ v.zoom \in picker.min_zoom..picker.max_zoom
                                  /\ ~picker.moved => <<v.x, v.y>> = picker.initial_center
    BY DEF Pickers
  <2>1. FirstFill(v, picker.bounds, picker.limits, picker.min_zoom) /\ picker.max_zoom = picker.limits.high
        /\ ValidLimits(picker.limits)
    BY DEF PickerInv
  <2> QED
    BY <2>1, ViewAssumption DEF PickerInv, FirstFill, ValidLimits
<1>4. ASSUME NEW dx \in Gestures, NEW dy \in Gestures, DragByGesture(dx, dy) PROVE PickerInv'
  <2> DEFINE x == v.x + (-dx) * Px(v.zoom)
             y == v.y + (-dy) * Px(v.zoom)
             u == SetCenter(v, x, y)
  <2>1. ready /\ ready' /\ picker' = [picker EXCEPT !.view = u, !.moved = TRUE]
    BY <1>4 DEF DragByGesture, PanByPixels
  <2>2. dx \in Int /\ dy \in Int /\ v \in Cameras
    BY <1>3, <2>1 DEF PickerAssumption
  <2>3. x \in Int /\ y \in Int
    <3>1. v.x \in Int /\ v.y \in Int /\ Px(v.zoom) \in Int
      BY <2>2, ZoomOfView
    <3> QED
      BY <2>2, <3>1
  <2> HIDE DEF x, y
  <2>4. u \in Cameras /\ u.width = v.width /\ u.height = v.height /\ u.zoom = v.zoom
    BY <2>2, <2>3, MovedCamera
  <2> HIDE DEF u
  <2> QED
    BY <1>3, <2>1, <2>4, PickerMoves
<1>5. ASSUME ready, NEW sx \in 0..picker.view.width, NEW sy \in 0..picker.view.height,
             RecenterAtScreen(sx, sy)
      PROVE  PickerInv'
  <2> DEFINE x == WrapX(v.x + OffX(v, sx))
             y == ClampY(v.y + OffY(v, sy))
             u == SetCenter(v, x, y)
  <2>1. ready /\ ready' /\ picker' = [picker EXCEPT !.view = u, !.moved = TRUE]
    BY <1>5 DEF RecenterAtScreen, ScreenToLatLon
  <2>2. v \in Cameras
    BY <1>3, <2>1
  <2>3. x \in Int /\ y \in Int
    <3>1. v.x \in Int /\ v.y \in Int /\ OffX(v, sx) \in Int /\ OffY(v, sy) \in Int
      BY <2>2, ZoomOfView, OnScreen, Halves
    <3>2. v.x + OffX(v, sx) \in Int /\ v.y + OffY(v, sy) \in Int
      BY <3>1
    <3>3. x \in 0..World - 1 /\ y \in 0..World
      BY <2>2, <3>2, MovedCamera
    <3> QED
      BY <3>3, Sizes
  <2> HIDE DEF x, y
  <2>4. u \in Cameras /\ u.width = v.width /\ u.height = v.height /\ u.zoom = v.zoom
    BY <2>2, <2>3, MovedCamera
  <2> HIDE DEF u
  <2> QED
    BY <1>3, <2>1, <2>4, PickerMoves
<1>6. ASSUME ready, NEW step \in {-1, 1}, ApplyZoom(picker.view.zoom + step) PROVE PickerInv'
  <2> DEFINE z == Clamp(v.zoom + step, picker.min_zoom, picker.max_zoom)
             u == SetZoom(v, z)
  <2>1. ready' /\ picker' = [picker EXCEPT !.view = u]
    BY <1>6 DEF ApplyZoom
  <2>2. picker \in Pickers /\ v \in Cameras
    BY <1>3, <1>6
  <2>3. z \in picker.min_zoom..picker.max_zoom /\ z \in 0..MaxZoom
    <3>1. v.zoom \in Int /\ picker.min_zoom \in 0..MaxZoom /\ picker.max_zoom \in 0..MaxZoom
          /\ picker.min_zoom <= picker.max_zoom
      BY <1>3, <1>6
    <3> QED
      BY <3>1, ViewAssumption DEF Clamp
  <2> HIDE DEF z
  <2>4. /\ u \in Cameras /\ u.width = v.width /\ u.height = v.height /\ u.zoom = z
        /\ u.x = v.x /\ u.y = v.y
    BY <2>2, <2>3, MovedCamera
  <2> HIDE DEF u
  <2>5. picker' = [picker EXCEPT !.view = u, !.moved = picker.moved]
    BY <2>1, <2>2 DEF Pickers
  <2>6. picker.moved \in BOOLEAN /\ (~picker.moved => <<u.x, u.y>> = picker.initial_center)
    BY <1>3, <1>6, <2>4
  <2> QED
    BY <1>6, <2>1, <2>3, <2>4, <2>5, <2>6, PickerMoves
<1>7. CASE Reset
  <2> DEFINE w == SetZoom(v, picker.min_zoom)
             x == picker.initial_center[1]
             y == picker.initial_center[2]
             u == SetCenter(w, x, y)
  <2>1. ready /\ ready' /\ picker' = [picker EXCEPT !.view = u, !.moved = FALSE]
    BY <1>7 DEF Reset
  <2>2. v \in Cameras /\ x \in 0..World - 1 /\ y \in 0..World /\ picker.initial_center = <<x, y>>
    BY <1>3, <2>1
  <2>3. picker.min_zoom \in picker.min_zoom..picker.max_zoom /\ picker.min_zoom \in 0..MaxZoom
    BY <1>3, <2>1, ViewAssumption
  <2>4. w \in Cameras /\ w.width = v.width /\ w.height = v.height /\ w.zoom = picker.min_zoom
    BY <2>2, <2>3, MovedCamera
  <2> HIDE DEF w, x, y
  <2>5. x \in Int /\ y \in Int /\ WrapX(x) = x /\ ClampY(y) = y
    BY <2>2, Sizes, WrapNear, OnMap
  <2>6. /\ u \in Cameras /\ u.width = v.width /\ u.height = v.height
        /\ u.zoom = picker.min_zoom /\ u.x = x /\ u.y = y
    BY <2>4, <2>5, MovedCamera
  <2> HIDE DEF u
  <2> DEFINE no == FALSE
  <2>7. no \in BOOLEAN /\ picker' = [picker EXCEPT !.view = u, !.moved = no]
        /\ <<u.x, u.y>> = picker.initial_center
    BY <2>1, <2>2, <2>6
  <2> HIDE DEF no
  <2> QED
    BY <2>1, <2>3, <2>6, <2>7, PickerMoves
<1> QED
  BY <1>1, <1>2, <1>4, <1>5, <1>6, <1>7 DEF PickerNext

\* The picker's promise for any screens, coverages, zooms and gestures: the
\* zoom stays within the data and no shallower than its first zoom at which
\* the coverage fills the screen, and a picker that says nothing was chosen
\* selects its opening point (location_picker.cpp).
THEOREM SelectionsAreDeliberate ==
  ASSUME PickerAssumption
  PROVE  PickerSpec => []SelectionIsDeliberate
<1>1. PickerInit => PickerInv
  BY DEF PickerInit, PickerInv
<1>2. PickerInv => SelectionIsDeliberate
  <2> SUFFICES ASSUME PickerInv, ready PROVE SelectionIsDeliberate
    BY DEF SelectionIsDeliberate
  <2> DEFINE v == picker.view
             b == picker.bounds
             low == picker.limits.low
             high == picker.limits.high
             m == picker.min_zoom
             filling == {z \in low..high : Fills(v, b, z)}
  <2>1. /\ low \in 0..MaxZoom /\ high \in 0..MaxZoom /\ m \in low..high
        /\ v.zoom \in m..high /\ FirstFill(v, b, picker.limits, m)
        /\ ~picker.moved => <<v.x, v.y>> = picker.initial_center
    BY DEF PickerInv, ValidLimits, FirstFill
  <2>2. v.zoom \in low..high
    <3> HIDE DEF low, high, m, v
    <3> QED
      BY <2>1, ViewAssumption
  <2>3. ASSUME ~SpansWorld(b), filling # {} PROVE v.zoom \in filling /\ m = Shallowest(filling)
    <3>1. \A z \in low..high : Fills(v, b, z) <=> m <= z
      BY <2>1, <2>3 DEF FirstFill
    <3> HIDE DEF low, high, m, v, b
    <3>2. filling = {z \in low..high : m <= z}
      BY <3>1
    <3>3. filling \in SUBSET Nat /\ m \in filling /\ \A z \in filling : m <= z
      BY <2>1, <3>2, ViewAssumption
    <3>4. v.zoom \in filling
      BY <2>1, <2>2, <3>2, ViewAssumption
    <3> HIDE DEF filling
    <3>5. Shallowest(filling) \in filling /\ Shallowest(filling) <= m
      BY <3>3, ShallowestOf
    <3>6. m \in Nat /\ Shallowest(filling) \in Nat /\ m <= Shallowest(filling)
      BY <3>3, <3>5
    <3>7. m = Shallowest(filling)
      BY <3>5, <3>6
    <3> QED
      BY <3>4, <3>7
  <2> QED
    BY <2>1, <2>2, <2>3 DEF SelectionIsDeliberate
<1> QED
  BY <1>1, <1>2, PickerStep, PTL DEF PickerSpec

=============================================================================
