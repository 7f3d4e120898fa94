------------------------ MODULE MeasuredFrameProofs ------------------------
(***************************************************************************)
(* The accounts of a frame balance for every archive, every screen, and    *)
(* any number of frames, wherever a tile's drawing is given up.            *)
(***************************************************************************)
EXTENDS MeasuredFrame, CommonLemmas

Fields == {"visible", "present", "missing", "skipped", "failed", "features", "bytes"}

\* Counters that can be added up.
Countable(c) ==
  /\ DOMAIN c = Fields
  /\ c.visible \in Nat /\ c.present \in Nat /\ c.missing \in Nat
  /\ c.skipped \in Nat /\ c.failed \in Nat

\* What the accounts rest on.
Shape ==
  /\ pipeline \in {"measured", "check", "lilygo"}
  /\ phase \in {"ready", "tiles", "found", "scanned", "stream", "done"}
  /\ Countable(counts) /\ Countable(sweep)
  /\ at \in Nat \ {0}
  /\ Len(tiles) \in Nat

\* While tiles are drawn, those behind the cursor are counted, and the one at
\* hand as well once it was found present; the check counts it at its end.
Balance ==
  /\ phase = "tiles" \/ InTile =>
       /\ counts.visible = Len(tiles)
       /\ at <= Len(tiles) + 1
  /\ phase = "tiles" => Accounted(counts) = at - 1
  /\ InTile => at <= Len(tiles)
  /\ InTile /\ pipeline = "check" => Accounted(counts) = at - 1
  /\ InTile /\ pipeline # "check" => Accounted(counts) = at /\ counts.present > 0

IInv == Shape /\ Balance /\ EveryTileAccountedOnce

-----------------------------------------------------------------------------
\* The distinct tiles of a screen can be counted.
LEMMA GroupedLen ==
  ASSUME NEW placements \in Screens
  PROVE  Len(Grouped(placements)) \in Nat
<1> DEFINE firsts == {i \in DOMAIN placements :
                        \A j \in 1..i - 1 : placements[j].tile # placements[i].tile}
<1>1. IsFiniteSet(1..Len(placements)) /\ DOMAIN placements = 1..Len(placements)
  BY FrameAssumption, FS_Interval
<1>2. Cardinality(firsts) \in Nat
  <2>1. IsFiniteSet(firsts)
    BY <1>1, FS_Subset
  <2> QED
    BY <2>1, FS_CardinalityType
<1>3. DOMAIN Grouped(placements) = 1..Cardinality(firsts)
  BY DEF Grouped
<1> QED
  BY <1>2, <1>3

-----------------------------------------------------------------------------
\* A new frame's counts start at zero, the visible tiles aside.
LEMMA StartedCounts ==
  ASSUME NEW n \in Nat
  PROVE  /\ Countable([NoCounts EXCEPT !.visible = n])
         /\ [NoCounts EXCEPT !.visible = n].visible = n
         /\ Accounted([NoCounts EXCEPT !.visible = n]) = 0
  BY DEF NoCounts, Countable, Fields, Accounted

LEMMA InitEstablishes == Init => IInv
<1> SUFFICES ASSUME Init PROVE IInv
  OBVIOUS
<1>1. Countable(NoCounts) /\ Accounted(NoCounts) = NoCounts.visible
  BY DEF NoCounts, Countable, Fields, Accounted
<1>2. Len(tiles) \in Nat
  BY DEF Init
<1> QED
  BY FrameAssumption, <1>1, <1>2 DEF Init, IInv, Shape, Balance, EveryTileAccountedOnce, InTile, NoFrame

LEMMA StartKeeps ==
  ASSUME IInv, NEW placements \in Screens, StartFrame(placements)
  PROVE  IInv'
<1>1. Len(tiles') \in Nat
  BY GroupedLen DEF StartFrame
<1> QED
  BY <1>1, StartedCounts
  DEF StartFrame, IInv, Shape, Balance, EveryTileAccountedOnce, InTile, NoFrame

LEMMA FailureKeeps ==
  ASSUME IInv, NEW placements \in Screens, EarlyFailure(placements)
  PROVE  IInv'
<1>1. PICK stage \in {"no-scratch", "enumerate", "background"} :
        /\ tiles' = IF stage = "background" THEN Grouped(placements) ELSE <<>>
        /\ frame' = [NoFrame EXCEPT !.error = stage]
  BY DEF EarlyFailure
<1>2. Len(tiles') \in Nat
  BY <1>1, GroupedLen
<1> QED
  BY <1>1, <1>2, StartedCounts
  DEF EarlyFailure, IInv, Shape, Balance, EveryTileAccountedOnce, InTile, NoFrame

\* One tile is looked up: skipped, missing or found.
LEMMA LookupKeeps ==
  ASSUME IInv, SkipTile \/ MissTile \/ FindTile
  PROVE  IInv'
<1>1. CASE SkipTile \/ MissTile
  <2>1. Countable(counts') /\ counts'.visible = counts.visible
        /\ Accounted(counts') = Accounted(counts) + 1
    <3>1. Countable(counts)
      BY DEF IInv, Shape
    <3>2. CASE SkipTile
      <4>1. DOMAIN counts' = DOMAIN counts /\ counts'.skipped = counts.skipped + 1
        BY <3>1, <3>2 DEF SkipTile, Countable, Fields
      <4>2. /\ counts'.visible = counts.visible /\ counts'.present = counts.present
            /\ counts'.missing = counts.missing /\ counts'.failed = counts.failed
        BY <3>1, <3>2 DEF SkipTile, Countable, Fields
      <4> QED
        BY <3>1, <4>1, <4>2 DEF Countable, Accounted
    <3>3. CASE MissTile
      <4>1. DOMAIN counts' = DOMAIN counts /\ counts'.missing = counts.missing + 1
        BY <3>1, <3>3 DEF MissTile, Countable, Fields
      <4>2. /\ counts'.visible = counts.visible /\ counts'.present = counts.present
            /\ counts'.skipped = counts.skipped /\ counts'.failed = counts.failed
        BY <3>1, <3>3 DEF MissTile, Countable, Fields
      <4> QED
        BY <3>1, <4>1, <4>2 DEF Countable, Accounted
    <3> QED
      BY <1>1, <3>2, <3>3
  <2> QED
    BY <1>1, <2>1
    DEF SkipTile, MissTile, IInv, Shape, Balance, EveryTileAccountedOnce, InTile, Drawing, NextTile
<1>2. CASE FindTile
  <2>1. /\ Countable(counts') /\ counts'.visible = counts.visible
        /\ pipeline = "check" => Accounted(counts') = Accounted(counts)
        /\ pipeline # "check" => Accounted(counts') = Accounted(counts) + 1 /\ counts'.present > 0
    <3>1. Countable(counts)
      BY DEF IInv, Shape
    <3>2. /\ DOMAIN counts' = DOMAIN counts
          /\ counts'.present = IF pipeline = "check" THEN counts.present ELSE counts.present + 1
      BY <1>2, <3>1 DEF FindTile, Countable, Fields
    <3>3. /\ counts'.visible = counts.visible /\ counts'.missing = counts.missing
          /\ counts'.skipped = counts.skipped /\ counts'.failed = counts.failed
      BY <1>2, <3>1 DEF FindTile, Countable, Fields
    <3> QED
      BY <3>1, <3>2, <3>3 DEF Countable, Accounted
  <2> QED
    BY <1>2, <2>1
    DEF FindTile, IInv, Shape, Balance, EveryTileAccountedOnce, InTile, Drawing
<1> QED
  BY <1>1, <1>2

\* The memory runs out: the tile at hand was counted present only if found.
LEMMA MemoryKeeps ==
  ASSUME IInv, OutOfMemory
  PROVE  IInv'
<1>1. /\ Countable(counts') /\ counts'.visible = counts.visible
      /\ Accounted(counts') = IF phase = "tiles" THEN Accounted(counts) + 1
                              ELSE Accounted(counts)
  <2> USE DEF OutOfMemory, Countable, Fields, Accounted
  <2>0. Countable(counts)
    BY DEF IInv, Shape
  <2>1. CASE phase = "tiles"
    BY <2>0, <2>1
  <2>2. CASE InTile
    <3>1. counts.present > 0 /\ phase # "tiles"
      BY <2>2 DEF IInv, Balance, InTile
    <3> QED
      BY <2>0, <3>1
  <2> QED
    BY <2>1, <2>2 DEF Drawing
<1> QED
  BY <1>1 DEF OutOfMemory, IInv, Shape, Balance, EveryTileAccountedOnce, InTile, Drawing, NextTile

LEMMA StreamingKeeps ==
  ASSUME IInv, Scan \/ Stream \/ DrawFeature
  PROVE  IInv'
<1>1. counts' = counts
  BY DEF Scan, Stream, DrawFeature
<1> QED
  BY <1>1 DEF Scan, Stream, DrawFeature, IInv, Shape, Balance, EveryTileAccountedOnce, InTile

\* A tile ends: the check counts it now, the others have counted it before.
LEMMA EndKeeps ==
  ASSUME IInv, EndTile \/ WholeTile
  PROVE  IInv'
<1> DEFINE kept == Countable(counts') /\ counts'.visible = counts.visible
<1>1. CASE WholeTile
  BY <1>1 DEF WholeTile, IInv, Shape, Balance, EveryTileAccountedOnce, InTile, NextTile
<1>2. CASE EndTile /\ pipeline = "measured"
  <2>1. kept /\ Accounted(counts') = Accounted(counts)
    BY <1>2 DEF EndTile, MeasuredTile, IInv, Shape, Countable, Fields, Accounted
  <2> QED
    BY <1>2, <2>1 DEF EndTile, IInv, Shape, Balance, EveryTileAccountedOnce, InTile, NextTile
<1>3. CASE EndTile /\ pipeline = "check"
  <2>1. kept /\ Accounted(counts') = Accounted(counts) + 1
    <3>1. PICK decoded \in BOOLEAN : counts' = CheckedTile(decoded)
      BY <1>3 DEF EndTile
    <3>2. Countable(counts)
      BY DEF IInv, Shape
    <3> QED
      BY <3>1, <3>2 DEF CheckedTile, Countable, Fields, Accounted
  <2> QED
    BY <1>3, <2>1 DEF EndTile, IInv, Shape, Balance, EveryTileAccountedOnce, InTile, NextTile
<1> QED
  BY <1>1, <1>2, <1>3 DEF EndTile, IInv, Shape

\* The cursor is behind the last tile, so every tile has been counted.
LEMMA FinishKeeps ==
  ASSUME IInv, FinishFrame
  PROVE  IInv'
<1>1. at = Len(tiles) + 1
  BY DEF FinishFrame, IInv, Shape, Balance
<1> QED
  BY <1>1 DEF FinishFrame, IInv, Shape, Balance, EveryTileAccountedOnce, InTile

LEMMA NextFrameKeeps ==
  ASSUME IInv, NextFrame
  PROVE  IInv'
<1>1. Countable(sweep') /\ Accounted(sweep') = sweep'.visible
  <2>1. CASE sweep' = sweep
    BY <2>1 DEF IInv, Shape, EveryTileAccountedOnce
  <2>2. CASE sweep' = Added /\ frame.timed
    <3>1. Countable(counts) /\ Countable(sweep)
      BY DEF IInv, Shape
    <3>2. sweep' = [f \in Fields |-> sweep[f] + counts[f]]
      BY <2>2, <3>1 DEF Added, Countable
    <3>3. /\ DOMAIN sweep' = Fields
          /\ sweep'.visible = sweep.visible + counts.visible
          /\ sweep'.present = sweep.present + counts.present
          /\ sweep'.missing = sweep.missing + counts.missing
          /\ sweep'.skipped = sweep.skipped + counts.skipped
          /\ sweep'.failed = sweep.failed + counts.failed
      BY <3>2 DEF Fields
    <3>4. Accounted(counts) = counts.visible /\ Accounted(sweep) = sweep.visible
      BY <2>2 DEF NextFrame, IInv, EveryTileAccountedOnce
    <3>5. Countable(sweep')
      BY <3>1, <3>3 DEF Countable
    <3>6. Accounted(sweep') = Accounted(sweep) + Accounted(counts)
      BY <3>1, <3>3 DEF Countable, Accounted
    <3> QED
      BY <3>3, <3>4, <3>5, <3>6
  <2> QED
    BY <2>1, <2>2 DEF NextFrame
<1> QED
  BY <1>1 DEF NextFrame, IInv, Shape, Balance, EveryTileAccountedOnce, InTile

LEMMA StepKeeps ==
  ASSUME IInv, [Next]_vars
  PROVE  IInv'
<1>1. CASE UNCHANGED vars
  BY <1>1 DEF vars, IInv, Shape, Balance, EveryTileAccountedOnce, InTile
<1>2. CASE Next
  BY <1>2, StartKeeps, FailureKeeps, LookupKeeps, MemoryKeeps, StreamingKeeps, EndKeeps,
     FinishKeeps, NextFrameKeeps DEF Next
<1> QED
  BY <1>1, <1>2

-----------------------------------------------------------------------------
(* What a frame that passes has on the screen, on top of IInv.             *)

\* Tiles of the archive, each at one column at least.
Placed(s) ==
  /\ DOMAIN s = 1..Len(s)
  /\ \A i \in 1..Len(s) : s[i].tile \in DOMAIN Archive /\ s[i].columns # {}

Underway == phase = "tiles" \/ InTile
Passed == phase = "done" /\ frame.ok

Numbers ==
  /\ Placed(tiles) /\ sent \in Nat /\ consumed \in Nat
  /\ counts.features \in Nat /\ counts.bytes \in Nat
  /\ DOMAIN frame = {"ok", "error", "timed"}
  /\ InTile => Features \in Nat /\ Features # NoTile
  /\ phase \in {"found", "scanned"} => sent = 0
  /\ phase = "stream" => sent <= Features
  /\ Passed => at = Len(tiles) + 1

\* How many features there are of the tile at i, and those up to n, by tile.
Stored(i) == IF Archive[tiles[i].tile] = NoTile THEN 0 ELSE Archive[tiles[i].tile]
Row(i, n) == {i} \X (1..n)
Whole(n) == UNION {Row(i, Stored(i)) : i \in 1..n}
OnScreen == {<<d[1], d[2]>> : d \in drawn}
Here == IF phase = "stream" THEN sent ELSE 0

\* A measured frame without an error so far, or one that passed.
Clean ==
  pipeline = "measured" /\ ((Underway /\ frame.error = "none") \/ Passed)

\* What is on the screen is there at every column, and lies before the cursor.
DrawnWell ==
  \A p \in OnScreen :
    /\ p \in (1..Len(tiles)) \X Nat
    /\ p[1] < at \/ (p[1] = at /\ p[2] <= Here)
    /\ \A c \in tiles[p[1]].columns : <<p[1], p[2], c>> \in drawn

Measured ==
  Clean =>
    /\ DrawnWell
    /\ phase = "stream" => consumed = sent /\ Row(at, sent) \subseteq OnScreen
    /\ counts.bytes = counts.features
    /\ IsFiniteSet(OnScreen) /\ Cardinality(OnScreen) = counts.features + Here
    /\ counts.missing = 0 /\ counts.skipped = 0 =>
         \A i \in 1..at - 1 : i \in short \/ Row(i, Stored(i)) \subseteq OnScreen

\* A check that has missed nothing so far has counted every feature.
Checked ==
  /\ pipeline = "check" /\ Passed => counts.missing = 0 /\ counts.failed = 0
  /\ /\ pipeline = "check" /\ (Underway \/ Passed)
     /\ short = {} /\ counts.missing = 0 /\ counts.failed = 0
     => IsFiniteSet(Whole(at - 1)) /\ Cardinality(Whole(at - 1)) = counts.features

Honest == Numbers /\ Measured /\ Checked

LEMMA GroupedPlaced ==
  ASSUME NEW placements \in Screens
  PROVE  Placed(Grouped(placements))
<1> DEFINE firsts == {i \in DOMAIN placements :
                        \A j \in 1..i - 1 : placements[j].tile # placements[i].tile}
           nth(n) == CHOOSE i \in firsts : Cardinality({j \in firsts : j <= i}) = n
           columns(t) == {placements[j].column : j \in {k \in DOMAIN placements : placements[k].tile = t}}
           chosen(t) == IF pipeline = "lilygo" THEN {CHOOSE c \in columns(t) : TRUE} ELSE columns(t)
           group(t) == [tile |-> t, columns |-> chosen(t)]
           g == Grouped(placements)
           Placement == [tile : DOMAIN Archive, column : Nat]
<1>1. placements \in Seq(Placement)
  BY FrameAssumption
<1>2. \A r \in Placement : r.tile \in DOMAIN Archive
  OBVIOUS
<1>3. DOMAIN placements = 1..Len(placements) /\ Len(placements) \in Nat
  BY <1>1
<1>4. \A i \in DOMAIN placements : placements[i].tile \in DOMAIN Archive
  <2> HIDE DEF Placement
  <2> QED
    BY <1>1, <1>2
<1>5. firsts \in SUBSET Nat /\ IsFiniteSet(firsts)
  <2>1. IsFiniteSet(1..Len(placements))
    BY <1>3, FS_Interval
  <2> QED
    BY <1>3, <2>1, FS_Subset
<1>6. \A n \in 1..Cardinality(firsts) : nth(n) \in firsts
  <2> HIDE DEF firsts
  <2>1. \A n \in 1..Cardinality(firsts) : \E x \in firsts : Cardinality({y \in firsts : y <= x}) = n
    BY <1>5, RankExists
  <2> QED
    BY <2>1
<1>7. g = [n \in 1..Cardinality(firsts) |-> group(placements[nth(n)].tile)]
  BY DEF Grouped
<1>8. \A i \in DOMAIN placements : columns(placements[i].tile) # {}
  OBVIOUS
<1>9. \A i \in DOMAIN placements : chosen(placements[i].tile) # {}
  <2> HIDE DEF columns
  <2> QED
    BY <1>8
<1>10. \A n \in 1..Cardinality(firsts) : g[n].tile \in DOMAIN Archive /\ g[n].columns # {}
  <2> SUFFICES ASSUME NEW n \in 1..Cardinality(firsts)
               PROVE  g[n].tile \in DOMAIN Archive /\ g[n].columns # {}
    OBVIOUS
  <2>1. nth(n) \in DOMAIN placements
    <3> HIDE DEF nth
    <3> QED
      BY <1>6
  <2> DEFINE i == nth(n)
  <2>2. g[n] = group(placements[i].tile)
    BY <1>7
  <2> HIDE DEF g, i, chosen
  <2>3. g[n].tile = placements[i].tile /\ g[n].columns = chosen(placements[i].tile)
    BY <2>2
  <2>4. i \in DOMAIN placements
    BY <2>1 DEF i
  <2> QED
    BY <1>4, <1>9, <2>3, <2>4
<1>11. Cardinality(firsts) \in Nat
  BY <1>5, FS_CardinalityType
<1>12. DOMAIN g = 1..Cardinality(firsts) /\ Len(g) = Cardinality(firsts)
  <2>1. DOMAIN g = 1..Cardinality(firsts) /\ g = [n \in 1..Cardinality(firsts) |-> g[n]]
    BY <1>7
  <2> HIDE DEF g, firsts
  <2> QED
    BY <1>11, <2>1
<1> QED
  BY <1>10, <1>12 DEF Placed

\* A row more.
LEMMA RowAdded ==
  ASSUME NEW n \in Nat, NEW m \in Nat, NEW S, IsFiniteSet(S), \A f \in 1..m : <<n, f>> \notin S
  PROVE  /\ IsFiniteSet(S \cup Row(n, m))
         /\ Cardinality(S \cup Row(n, m)) = Cardinality(S) + m
<1> DEFINE T == {k \in 0..m : /\ IsFiniteSet(S \cup Row(n, k))
                              /\ Cardinality(S \cup Row(n, k)) = Cardinality(S) + k}
<1>1. Cardinality(S) \in Nat
  BY FS_CardinalityType
<1>2. 0 \in T
  <2>1. S \cup Row(n, 0) = S
    BY DEF Row
  <2>2. Cardinality(S \cup Row(n, 0)) = Cardinality(S) /\ IsFiniteSet(S \cup Row(n, 0))
    BY <2>1
  <2>3. Cardinality(S) + 0 = Cardinality(S)
    BY <1>1
  <2> QED
    BY <2>2, <2>3
<1>3. ASSUME NEW k \in 0..m - 1, k \in T PROVE k + 1 \in T
  <2> DEFINE A == S \cup Row(n, k)
             x == <<n, k + 1>>
  <2>1. S \cup Row(n, k + 1) = A \cup {x}
    <3>1. 1..k + 1 = (1..k) \cup {k + 1}
      OBVIOUS
    <3> QED
      BY <3>1 DEF Row
  <2>2. x \notin A
    BY DEF Row
  <2>3. IsFiniteSet(A) /\ Cardinality(A) = Cardinality(S) + k
    BY <1>3
  <2>4. k \in Nat
    OBVIOUS
  <2> HIDE DEF A, x
  <2>5. IsFiniteSet(A \cup {x}) /\ Cardinality(A \cup {x}) = Cardinality(S) + k + 1
    BY <1>1, <2>2, <2>3, <2>4, FS_AddElement
  <2> QED
    BY <1>1, <2>1, <2>4, <2>5
<1>4. \A k \in 0..m : k \in T
  <2> HIDE DEF T
  <2> QED
    BY <1>2, <1>3, UpTo
<1> QED
  BY <1>4

-----------------------------------------------------------------------------
LEMMA HonestInit == Init => Honest
<1> SUFFICES ASSUME Init PROVE Honest
  OBVIOUS
<1>1. tiles = <<>> /\ phase = "ready" /\ counts = NoCounts /\ frame = NoFrame
      /\ sent = 0 /\ consumed = 0
  BY DEF Init
<1>2. Placed(tiles)
  BY <1>1 DEF Placed
<1>3. Numbers
  BY <1>1, <1>2 DEF Numbers, NoCounts, NoFrame, InTile, Passed
<1> QED
  BY <1>1, <1>3 DEF Honest, Measured, Checked, Clean, Passed, Underway, InTile

LEMMA StartKeepsHonest ==
  ASSUME IInv, Honest, NEW placements \in Screens, StartFrame(placements)
  PROVE  Honest'
<1>1. /\ tiles' = Grouped(placements) /\ counts' = [NoCounts EXCEPT !.visible = Len(tiles')]
      /\ frame' = NoFrame /\ phase' = "tiles" /\ at' = 1 /\ drawn' = {} /\ short' = {}
      /\ UNCHANGED <<pipeline, sent, consumed>>
  BY DEF StartFrame
<1>2. /\ counts'.features = 0 /\ counts'.bytes = 0 /\ counts'.missing = 0
      /\ counts'.skipped = 0 /\ counts'.failed = 0
  BY <1>1 DEF NoCounts
<1>3. Placed(tiles)'
  BY <1>1, GroupedPlaced DEF Placed
<1>4. Numbers'
  BY <1>1, <1>2, <1>3 DEF Honest, Numbers, NoFrame, InTile, Passed
<1>5. OnScreen' = {} /\ Here' = 0 /\ Whole(at - 1)' = {}
  BY <1>1 DEF OnScreen, Here, Whole
<1>6. Measured'
  BY <1>1, <1>2, <1>5, FS_EmptySet DEF Measured, DrawnWell
<1>7. Checked'
  BY <1>1, <1>2, <1>5, FS_EmptySet DEF Checked, Passed
<1> QED
  BY <1>4, <1>6, <1>7 DEF Honest

LEMMA FailureKeepsHonest ==
  ASSUME IInv, Honest, NEW placements \in Screens, EarlyFailure(placements)
  PROVE  Honest'
<1>1. PICK stage \in {"no-scratch", "enumerate", "background"} :
        /\ tiles' = IF stage = "background" THEN Grouped(placements) ELSE <<>>
        /\ frame' = [NoFrame EXCEPT !.error = stage]
  BY DEF EarlyFailure
<1>2. /\ counts' = [NoCounts EXCEPT !.visible = Len(tiles')] /\ phase' = "done"
      /\ UNCHANGED <<pipeline, sent, consumed>>
  BY DEF EarlyFailure
<1>3. Placed(tiles)'
  <2>1. Placed(<<>>)
    BY DEF Placed
  <2> QED
    BY <1>1, <2>1, GroupedPlaced DEF Placed
<1>4. counts'.features = 0 /\ counts'.bytes = 0 /\ ~frame'.ok /\ DOMAIN frame' = {"ok", "error", "timed"}
  BY <1>1, <1>2 DEF NoCounts, NoFrame
<1>5. ~Passed' /\ ~Underway'
  BY <1>2, <1>4 DEF Passed, Underway, InTile
<1>6. Numbers'
  BY <1>2, <1>3, <1>4, <1>5 DEF Honest, Numbers, Underway, InTile
<1> QED
  BY <1>5, <1>6 DEF Honest, Measured, Checked, Clean

\* What a step on a tile starts from.
LEMMA AtTile ==
  ASSUME IInv, Honest, Drawing \/ InTile
  PROVE  /\ Countable(counts) /\ at \in 1..Len(tiles) /\ Len(tiles) \in Nat /\ Underway /\ ~Passed
         /\ tiles[at].tile \in DOMAIN Archive /\ tiles[at].columns # {}
         /\ Numbers /\ Measured /\ Checked
         /\ Stored(at) \in Nat /\ (Features # NoTile => Features = Stored(at))
<1>1. Countable(counts) /\ at \in Nat \ {0} /\ Len(tiles) \in Nat /\ at <= Len(tiles)
  BY DEF IInv, Shape, Balance, Drawing
<1> DEFINE n == Len(tiles)
<1>2. at \in 1..n
  BY <1>1
<1>3. tiles[at].tile \in DOMAIN Archive /\ tiles[at].columns # {}
  BY <1>2 DEF Honest, Numbers, Placed
<1>4. Archive[tiles[at].tile] = NoTile \/ Archive[tiles[at].tile] \in Nat
  BY <1>3, FrameAssumption
<1> QED
  BY <1>1, <1>2, <1>3, <1>4 DEF Honest, Underway, Passed, Drawing, InTile, Stored, Features

\* A tile is passed over: nothing is drawn and nothing is counted of it.
LEMMA PassedOver ==
  ASSUME IInv, Honest, SkipTile \/ MissTile
  PROVE  Honest'
<1>1. /\ Drawing /\ phase = "tiles" /\ phase' = "tiles" /\ at' = at + 1
      /\ UNCHANGED <<pipeline, tiles, frame, sent, consumed, drawn, short>>
  BY DEF SkipTile, MissTile, Drawing, NextTile
<1>2. Countable(counts) /\ at \in Nat /\ Numbers /\ Measured
  BY <1>1, AtTile
<1>3. /\ counts'.features = counts.features /\ counts'.bytes = counts.bytes
      /\ ~(counts'.missing = 0 /\ counts'.skipped = 0)
      /\ pipeline = "check" => counts'.missing # 0
  BY <1>2 DEF SkipTile, MissTile, Countable, Fields
<1>4. Numbers'
  BY <1>1, <1>2, <1>3 DEF Numbers, Placed, InTile, Passed
<1>5. OnScreen' = OnScreen /\ Here = 0 /\ Here' = 0
  BY <1>1 DEF OnScreen, Here
<1>6. Measured'
  <2> SUFFICES ASSUME Clean' PROVE Measured'
    BY DEF Measured
  <2>1. Clean
    BY <1>1 DEF Clean, Underway, InTile, Passed
  <2>2. DrawnWell'
    BY <1>1, <1>2, <1>5, <2>1 DEF Measured, DrawnWell
  <2> QED
    BY <1>1, <1>2, <1>3, <1>5, <2>1, <2>2 DEF Measured
<1>7. Checked'
  BY <1>1, <1>3 DEF Checked, Passed
<1> QED
  BY <1>4, <1>6, <1>7 DEF Honest

\* The steps that leave what is drawn and counted alone.
LEMMA CountsStay ==
  ASSUME IInv, Honest, FindTile \/ Scan \/ Stream
  PROVE  Honest'
<1>1. /\ Drawing \/ InTile
      /\ UNCHANGED <<pipeline, tiles, at, frame, drawn, short>>
      /\ phase \in {"tiles", "found", "scanned"} /\ phase' \in {"found", "scanned", "stream"}
  BY DEF FindTile, Scan, Stream, InTile, Drawing
<1>2. /\ Countable(counts) /\ at \in Nat /\ Numbers /\ Measured /\ Checked /\ Underway
      /\ Stored(at) \in Nat /\ (Features # NoTile => Features = Stored(at))
  BY <1>1, AtTile
<1>3. /\ counts'.features = counts.features /\ counts'.bytes = counts.bytes
      /\ counts'.missing = counts.missing /\ counts'.skipped = counts.skipped
      /\ counts'.failed = counts.failed
  BY <1>2 DEF FindTile, Scan, Stream, Countable, Fields
<1>4. /\ Features # NoTile /\ Features \in Nat /\ sent' = 0 /\ consumed' \in Nat
      /\ phase' = "stream" => consumed' = 0
  <2>1. CASE FindTile
    <3>1. Features # NoTile /\ sent' = 0 /\ consumed' = consumed /\ phase' = "found"
      BY <2>1 DEF FindTile
    <3> QED
      BY <1>2, <3>1 DEF Numbers
  <2>2. CASE Scan
    <3>1. phase = "found" /\ sent' = sent /\ consumed' \in 0..Features /\ phase' = "scanned"
      BY <2>2 DEF Scan
    <3>2. Features # NoTile /\ Features \in Nat /\ sent = 0
      BY <1>2, <3>1 DEF Numbers, InTile
    <3> QED
      BY <3>1, <3>2
  <2>3. CASE Stream
    <3>1. phase = "scanned" /\ sent' = sent /\ consumed' = 0
      BY <2>3 DEF Stream
    <3> QED
      BY <1>2, <3>1 DEF Numbers, InTile
  <2> QED
    BY <2>1, <2>2, <2>3
<1>5. Features' = Features /\ InTile' /\ Underway'
  BY <1>1 DEF Features, InTile, Underway
<1>6. ~Passed'
  BY <1>1 DEF Passed
<1>7. Numbers'
  <2>1. Placed(tiles)'
    BY <1>1, <1>2 DEF Numbers, Placed
  <2>2. DOMAIN frame' = {"ok", "error", "timed"} /\ counts'.features \in Nat /\ counts'.bytes \in Nat
    BY <1>1, <1>2, <1>3 DEF Numbers
  <2>3. sent' <= Features'
    BY <1>4, <1>5
  <2> QED
    BY <1>4, <1>5, <1>6, <2>1, <2>2, <2>3 DEF Numbers
<1>8. OnScreen' = OnScreen /\ Here = 0 /\ Here' = 0
  BY <1>1, <1>4 DEF OnScreen, Here
<1>9. \A i : Stored(i)' = Stored(i)
  BY <1>1 DEF Stored
<1>10. Measured'
  <2> SUFFICES ASSUME Clean' PROVE Measured'
    BY DEF Measured
  <2>1. Clean
    BY <1>1, <1>2, <1>6 DEF Clean
  <2>2. DrawnWell'
    BY <1>1, <1>2, <1>8, <2>1 DEF Measured, DrawnWell
  <2>3. phase' = "stream" => consumed' = sent' /\ Row(at, sent)' \subseteq OnScreen'
    BY <1>4 DEF Row
  <2> QED
    BY <1>1, <1>2, <1>3, <1>8, <1>9, <2>1, <2>2, <2>3 DEF Measured, Row
<1>11. Checked'
  <2>1. Whole(at - 1)' = Whole(at - 1)
    BY <1>1, <1>9 DEF Whole, Row
  <2> QED
    BY <1>1, <1>2, <1>3, <1>6, <2>1 DEF Checked
<1> QED
  BY <1>7, <1>10, <1>11 DEF Honest

\* A feature drawn at every column is one more on the screen; one that is not
\* leaves an error.
LEMMA DrawKeepsHonest ==
  ASSUME IInv, Honest, DrawFeature
  PROVE  Honest'
<1> DEFINE next == sent + 1
<1>1. /\ phase = "stream" /\ InTile /\ sent < Features
      /\ sent' = next /\ consumed' = consumed + 1
      /\ UNCHANGED <<pipeline, phase, tiles, at, counts, short>>
  BY DEF DrawFeature, InTile
<1>2. PICK columns \in SUBSET tiles[at].columns :
        /\ drawn' = drawn \cup {<<at, sent', c>> : c \in columns}
        /\ frame' = IF pipeline = "measured" /\ columns # tiles[at].columns
                    THEN [frame EXCEPT !.error = "render"] ELSE frame
  BY DEF DrawFeature
<1>3. /\ Countable(counts) /\ at \in 1..Len(tiles) /\ Len(tiles) \in Nat
      /\ Numbers /\ Measured /\ Checked /\ Underway /\ ~Passed
      /\ tiles[at].columns # {}
  BY <1>1, AtTile
<1>4. sent \in Nat /\ next \in Nat /\ consumed \in Nat /\ Features \in Nat /\ next <= Features
      /\ DOMAIN frame = {"ok", "error", "timed"}
  BY <1>1, <1>3 DEF Numbers
<1>5. ~Passed' /\ Underway' /\ InTile' /\ Features' = Features
  BY <1>1 DEF Passed, Underway, InTile, Features
<1>6. Numbers'
  <2>1. Placed(tiles)'
    BY <1>1, <1>3 DEF Numbers, Placed
  <2>2. DOMAIN frame' = {"ok", "error", "timed"}
    BY <1>2, <1>4
  <2> QED
    BY <1>1, <1>3, <1>4, <1>5, <2>1, <2>2 DEF Numbers
<1>7. \A i : Stored(i)' = Stored(i)
  BY <1>1 DEF Stored
<1>8. Measured'
  <2> SUFFICES ASSUME Clean' PROVE Measured'
    BY DEF Measured
  <2>1. columns = tiles[at].columns /\ frame' = frame /\ pipeline = "measured"
    <3>1. pipeline = "measured" /\ frame'.error = "none"
      BY <1>1, <1>5 DEF Clean
    <3>2. columns # tiles[at].columns => frame'.error = "render"
      BY <1>2, <1>4, <3>1
    <3> QED
      BY <1>2, <3>1, <3>2
  <2>2. Clean
    BY <1>3, <1>5, <2>1 DEF Clean
  <2>3. DrawnWell /\ consumed = sent /\ Row(at, sent) \subseteq OnScreen
        /\ counts.bytes = counts.features
        /\ IsFiniteSet(OnScreen) /\ Cardinality(OnScreen) = counts.features + sent
    BY <1>1, <1>3, <2>2 DEF Measured, Here
  <2>4. OnScreen' = OnScreen \cup {<<at, next>>}
    <3> DEFINE new == {<<at, next, c>> : c \in columns}
               Short(D) == {<<d[1], d[2]>> : d \in D}
    <3>1. drawn' = drawn \cup new
      BY <1>1, <1>2
    <3>2. Short(new) = {<<at, next>>}
      <4>1. new # {} /\ \A d \in new : d[1] = at /\ d[2] = next
        <5>1. PICK c \in columns : TRUE
          BY <1>3, <2>1
        <5>2. <<at, next, c>> \in new
          OBVIOUS
        <5>3. ASSUME NEW d \in new PROVE d[1] = at /\ d[2] = next
          <6>1. PICK e \in columns : d = <<at, next, e>>
            OBVIOUS
          <6> HIDE DEF next
          <6> QED
            BY <6>1
        <5> HIDE DEF new, next
        <5> QED
          BY <5>2, <5>3
      <4> HIDE DEF new
      <4> QED
        BY <4>1
    <3>3. Short(drawn \cup new) = Short(drawn) \cup Short(new)
      <4> HIDE DEF new
      <4> QED
        OBVIOUS
    <3> HIDE DEF new
    <3> QED
      BY <3>1, <3>2, <3>3 DEF OnScreen
  <2>5. <<at, next>> \notin OnScreen
    BY <1>1, <1>3, <1>4, <2>3 DEF DrawnWell, Here
  <2>6. Here' = next
    BY <1>1 DEF Here
  <2>7. DrawnWell'
    <3> SUFFICES ASSUME NEW p \in OnScreen'
                 PROVE  /\ p \in (1..Len(tiles)) \X Nat
                        /\ p[1] < at \/ (p[1] = at /\ p[2] <= next)
                        /\ \A c \in tiles[p[1]].columns : <<p[1], p[2], c>> \in drawn'
      BY <1>1, <2>6 DEF DrawnWell
    <3>1. CASE p = <<at, next>>
      <4>1. \A c \in tiles[at].columns : <<at, next, c>> \in drawn'
        BY <1>1, <1>2, <2>1
      <4> QED
        BY <1>3, <1>4, <3>1, <4>1
    <3>2. CASE p \in OnScreen
      <4>1. /\ p \in (1..Len(tiles)) \X Nat
            /\ p[1] < at \/ (p[1] = at /\ p[2] <= sent)
            /\ \A c \in tiles[p[1]].columns : <<p[1], p[2], c>> \in drawn
        BY <1>1, <2>3, <3>2 DEF DrawnWell, Here
      <4>2. \A c \in tiles[p[1]].columns : <<p[1], p[2], c>> \in drawn'
        BY <1>2, <4>1
      <4>3. p[2] <= sent => p[2] <= next
        BY <1>4, <4>1
      <4> QED
        BY <4>1, <4>2, <4>3
    <3> QED
      BY <2>4, <3>1, <3>2
  <2>8. Row(at, sent)' \subseteq OnScreen'
    <3>1. Row(at, sent)' = Row(at, sent) \cup {<<at, next>>}
      <4>1. 1..next = (1..sent) \cup {next}
        BY <1>4
      <4>2. Row(at, sent)' = {at} \X (1..next)
        BY <1>1 DEF Row
      <4> QED
        BY <4>1, <4>2 DEF Row
    <3> QED
      BY <2>3, <2>4, <3>1
  <2>9. IsFiniteSet(OnScreen') /\ Cardinality(OnScreen') = counts.features + sent + 1
    <3> DEFINE x == <<at, next>>
    <3>1. IsFiniteSet(OnScreen) /\ x \notin OnScreen /\ OnScreen' = OnScreen \cup {x}
      BY <2>3, <2>4, <2>5
    <3>2. Cardinality(OnScreen) = counts.features + sent
      BY <2>3
    <3> HIDE DEF x
    <3> QED
      BY <3>1, <3>2, FS_AddElement
  <2>10. Cardinality(OnScreen') = counts.features + next
    BY <1>3, <1>4, <2>9 DEF Numbers
  <2>11. counts.missing = 0 /\ counts.skipped = 0 =>
           \A i \in 1..at - 1 : i \in short \/ Row(i, Stored(i)) \subseteq OnScreen'
    BY <1>3, <2>2, <2>4 DEF Measured
  <2> QED
    BY <1>1, <1>7, <2>3, <2>6, <2>7, <2>8, <2>9, <2>10, <2>11 DEF Measured, Row
<1>9. Checked'
  <2>1. Whole(at - 1)' = Whole(at - 1)
    BY <1>1, <1>7 DEF Whole, Row
  <2> QED
    BY <1>1, <1>3, <1>5, <2>1 DEF Checked
<1> QED
  BY <1>6, <1>8, <1>9 DEF Honest

\* A tile ends.
LEMMA TileEndsHonest ==
  ASSUME IInv, Honest, EndTile \/ WholeTile
  PROVE  Honest'
<1>1. /\ InTile /\ phase' = "tiles" /\ at' = at + 1
      /\ UNCHANGED <<pipeline, tiles, sent, consumed>>
      /\ \/ EndTile /\ pipeline # "lilygo" /\ UNCHANGED drawn
         \/ WholeTile /\ pipeline = "lilygo" /\ UNCHANGED <<counts, frame>>
  BY DEF EndTile, WholeTile, NextTile, InTile
<1>2. /\ Countable(counts) /\ at \in 1..Len(tiles) /\ Len(tiles) \in Nat
      /\ Numbers /\ Measured /\ Checked /\ Underway /\ ~Passed
      /\ Stored(at) \in Nat /\ (Features # NoTile => Features = Stored(at))
      /\ pipeline \in {"measured", "check", "lilygo"}
  BY <1>1, AtTile DEF IInv, Shape
<1>3. /\ Features = Stored(at) /\ sent \in Nat /\ consumed \in Nat
      /\ counts.features \in Nat /\ counts.bytes \in Nat /\ DOMAIN frame = {"ok", "error", "timed"}
      /\ phase = "stream" => sent <= Features
      /\ phase # "stream" => sent = 0
  BY <1>1, <1>2 DEF Numbers, InTile
<1>4. Underway' /\ ~Passed' /\ ~InTile' /\ Here' = 0
  BY <1>1 DEF Underway, Passed, InTile, Here
<1>5. \A i : Stored(i)' = Stored(i)
  BY <1>1 DEF Stored
<1>6. Placed(tiles)'
  BY <1>1, <1>2 DEF Numbers, Placed
<1>7. \A f \in 1..Stored(at) : <<at, f>> \notin Whole(at - 1)
  BY <1>2 DEF Whole, Row
<1>8. Whole(at - 1)' = Whole(at - 1) \cup Row(at, Stored(at))
  <2>1. Whole(at - 1)' = UNION {Row(i, Stored(i)) : i \in 1..at}
    <3>1. at' - 1 = at
      BY <1>1, <1>2
    <3> QED
      BY <1>5, <3>1 DEF Whole, Row
  <2>2. 1..at = (1..at - 1) \cup {at}
    BY <1>2
  <2> QED
    BY <2>1, <2>2 DEF Whole
<1>9. CASE WholeTile
  <2>1. pipeline = "lilygo" /\ UNCHANGED <<counts, frame>>
    BY <1>9 DEF WholeTile
  <2>2. Numbers'
    BY <1>1, <1>2, <1>3, <1>4, <1>6, <2>1 DEF Numbers, InTile
  <2> QED
    BY <1>1, <2>1, <2>2 DEF Honest, Measured, Checked, Clean
<1>10. CASE EndTile /\ pipeline = "measured"
  <2>1. PICK decoded \in BOOLEAN :
          /\ decoded => phase = "stream"
          /\ counts' = MeasuredTile(decoded) /\ frame' = DecodeError(decoded)
          /\ short' = IF decoded /\ sent < Features THEN short \cup {at} ELSE short
    BY <1>10 DEF EndTile
  <2>2. /\ counts'.bytes = counts.bytes + consumed
        /\ counts'.features = IF decoded THEN counts.features + sent ELSE counts.features
        /\ counts'.missing = counts.missing /\ counts'.skipped = counts.skipped
    BY <1>2, <2>1 DEF MeasuredTile, Countable, Fields
  <2>3. Numbers'
    <3>1. DOMAIN frame' = {"ok", "error", "timed"}
      BY <1>3, <2>1 DEF DecodeError
    <3> QED
      BY <1>1, <1>3, <1>4, <1>6, <2>2, <3>1 DEF Numbers, InTile
  <2>4. Measured'
    <3> SUFFICES ASSUME Clean' PROVE Measured'
      BY DEF Measured
    <3>1. frame'.error = "none"
      BY <1>4 DEF Clean
    <3>2. decoded /\ frame' = frame
      BY <1>3, <1>10, <2>1, <3>1 DEF DecodeError
    <3>3. phase = "stream" /\ Clean /\ Here = sent
      BY <1>2, <1>10, <2>1, <3>1, <3>2 DEF Clean, Here
    <3>4. /\ DrawnWell /\ consumed = sent /\ Row(at, sent) \subseteq OnScreen
          /\ counts.bytes = counts.features
          /\ IsFiniteSet(OnScreen) /\ Cardinality(OnScreen) = counts.features + sent
          /\ counts.missing = 0 /\ counts.skipped = 0 =>
               \A i \in 1..at - 1 : i \in short \/ Row(i, Stored(i)) \subseteq OnScreen
      BY <1>2, <3>3 DEF Measured
    <3>5. OnScreen' = OnScreen /\ UNCHANGED drawn
      BY <1>1, <1>10 DEF OnScreen
    <3>6. DrawnWell'
      <4> SUFFICES ASSUME NEW p \in OnScreen
                   PROVE  /\ p \in (1..Len(tiles)) \X Nat
                          /\ p[1] < at + 1
                          /\ \A c \in tiles[p[1]].columns : <<p[1], p[2], c>> \in drawn
        BY <1>1, <1>4, <3>5 DEF DrawnWell
      <4>1. /\ p \in (1..Len(tiles)) \X Nat
            /\ p[1] < at \/ p[1] = at
            /\ \A c \in tiles[p[1]].columns : <<p[1], p[2], c>> \in drawn
        BY <3>4 DEF DrawnWell
      <4>2. p[1] \in Nat
        BY <1>2, <4>1
      <4> QED
        BY <1>2, <4>1, <4>2
    <3>7. counts'.bytes = counts'.features /\ Cardinality(OnScreen') = counts'.features + Here'
      BY <1>3, <1>4, <2>2, <3>2, <3>4, <3>5
    <3>8. ASSUME counts'.missing = 0, counts'.skipped = 0, NEW i \in 1..at' - 1
          PROVE  i \in short' \/ Row(i, Stored(i))' \subseteq OnScreen'
      <4>1. Row(i, Stored(i))' = Row(i, Stored(i))
        BY <1>5 DEF Row
      <4>2. CASE i = at
        <5>1. CASE sent < Features
          BY <1>3, <2>1, <3>2, <4>2, <5>1
        <5>2. CASE sent = Features
          BY <1>3, <3>4, <3>5, <4>1, <4>2, <5>2
        <5> QED
          BY <1>2, <1>3, <3>3, <5>1, <5>2
      <4>3. CASE i # at
        <5>1. i \in 1..at - 1
          BY <1>1, <1>2, <4>3
        <5>2. i \in short \/ Row(i, Stored(i)) \subseteq OnScreen
          BY <2>2, <3>4, <3>8, <5>1
        <5> QED
          BY <2>1, <3>5, <4>1, <5>2
      <4> QED
        BY <4>2, <4>3
    <3> QED
      BY <1>1, <3>4, <3>5, <3>6, <3>7, <3>8 DEF Measured
  <2> QED
    BY <1>1, <1>10, <2>3, <2>4 DEF Honest, Checked
<1>11. CASE EndTile /\ pipeline = "check"
  <2>1. PICK decoded \in BOOLEAN :
          /\ decoded => phase = "stream"
          /\ counts' = CheckedTile(decoded) /\ frame' = DecodeError(decoded)
          /\ short' = IF decoded /\ sent < Features THEN short \cup {at} ELSE short
    BY <1>11 DEF EndTile
  <2>2. /\ counts'.bytes = counts.bytes /\ counts'.features = counts.features + sent
        /\ counts'.missing = counts.missing
        /\ counts'.failed = IF decoded THEN counts.failed ELSE counts.failed + 1
        /\ counts.failed \in Nat
    BY <1>2, <2>1 DEF CheckedTile, Countable, Fields
  <2>3. Numbers'
    <3>1. DOMAIN frame' = {"ok", "error", "timed"}
      BY <1>3, <2>1 DEF DecodeError
    <3> QED
      BY <1>1, <1>3, <1>4, <1>6, <2>2, <3>1 DEF Numbers, InTile
  <2>4. ASSUME short' = {}, counts'.missing = 0, counts'.failed = 0
        PROVE  IsFiniteSet(Whole(at - 1)') /\ Cardinality(Whole(at - 1)') = counts'.features
    <3>1. decoded /\ phase = "stream"
      BY <2>1, <2>2, <2>4
    <3>2. sent = Features /\ short = {}
      <4>1. ~(sent < Features)
        BY <2>1, <2>4, <3>1
      <4>2. sent \in Nat /\ Features \in Nat /\ sent <= Features
        BY <1>2, <1>3, <3>1
      <4> QED
        BY <2>1, <2>4, <4>1, <4>2
    <3>3. IsFiniteSet(Whole(at - 1)) /\ Cardinality(Whole(at - 1)) = counts.features
      BY <1>2, <1>11, <2>2, <2>4, <3>1, <3>2 DEF Checked
    <3> DEFINE S == Whole(at - 1)
               m == Stored(at)
    <3>4. /\ at \in Nat /\ m \in Nat /\ IsFiniteSet(S) /\ \A f \in 1..m : <<at, f>> \notin S
      BY <1>2, <1>7, <3>3
    <3> HIDE DEF S, m
    <3>5. IsFiniteSet(S \cup Row(at, m)) /\ Cardinality(S \cup Row(at, m)) = Cardinality(S) + m
      BY ONLY <3>4, RowAdded
    <3> QED
      BY <1>3, <1>8, <2>2, <3>2, <3>3, <3>5 DEF S, m
  <2> QED
    BY <1>1, <1>4, <1>11, <2>3, <2>4 DEF Honest, Measured, Checked, Clean
<1> QED
  BY <1>1, <1>2, <1>9, <1>10, <1>11

LEMMA MemoryKeepsHonest ==
  ASSUME IInv, Honest, OutOfMemory
  PROVE  Honest'
<1>1. /\ (Drawing \/ InTile) /\ pipeline = "measured" /\ phase' = "tiles" /\ at' = at + 1
      /\ frame' = [frame EXCEPT !.error = "out-of-memory"]
      /\ UNCHANGED <<pipeline, tiles, sent, consumed>>
  BY DEF OutOfMemory, NextTile
<1>2. Countable(counts) /\ Numbers
  BY <1>1, AtTile
<1>3. counts'.features = counts.features /\ counts'.bytes = counts.bytes
  BY <1>2 DEF OutOfMemory, Countable, Fields
<1>4. DOMAIN frame' = {"ok", "error", "timed"} /\ frame'.error = "out-of-memory"
  BY <1>1, <1>2 DEF Numbers
<1>5. ~Passed' /\ ~InTile'
  BY <1>1 DEF Passed, InTile
<1>6. Numbers'
  BY <1>1, <1>2, <1>3, <1>4, <1>5 DEF Numbers, Placed, InTile
<1> QED
  BY <1>1, <1>4, <1>5, <1>6 DEF Honest, Measured, Checked, Clean

LEMMA FinishKeepsHonest ==
  ASSUME IInv, Honest, FinishFrame
  PROVE  Honest'
<1>1. /\ phase = "tiles" /\ phase' = "done"
      /\ frame' = [frame EXCEPT !.timed = TRUE,
                            !.ok = CASE pipeline = "measured" -> frame.error = "none"
                                     [] pipeline = "check" -> CheckPasses(counts)
                                     [] pipeline = "lilygo" -> TRUE]
      /\ UNCHANGED <<pipeline, tiles, at, counts, sent, consumed, drawn, short>>
  BY DEF FinishFrame
<1>2. at = Len(tiles) + 1
  BY DEF FinishFrame, IInv, Shape, Balance
<1>3. Numbers /\ Measured /\ Checked /\ Underway
  BY <1>1 DEF Honest, Underway
<1>4. /\ DOMAIN frame' = {"ok", "error", "timed"} /\ frame'.error = frame.error
      /\ pipeline = "measured" => frame'.ok = (frame.error = "none")
      /\ pipeline = "check" => frame'.ok = CheckPasses(counts)
  BY <1>1, <1>3 DEF Numbers
<1>5. ~InTile' /\ ~Underway'
  BY <1>1 DEF InTile, Underway
<1>6. Numbers'
  BY <1>1, <1>2, <1>3, <1>4, <1>5 DEF Numbers, Placed, InTile, Passed
<1>7. Here = 0 /\ Here' = 0 /\ OnScreen' = OnScreen /\ \A i : Stored(i)' = Stored(i)
  BY <1>1 DEF Here, OnScreen, Stored
<1>8. Measured'
  <2> SUFFICES ASSUME Clean' PROVE Measured'
    BY DEF Measured
  <2>1. Clean
    BY <1>1, <1>3, <1>4, <1>5 DEF Clean, Passed
  <2>2. DrawnWell'
    BY <1>1, <1>3, <1>7, <2>1 DEF Measured, DrawnWell
  <2> QED
    BY <1>1, <1>3, <1>7, <2>1, <2>2 DEF Measured, Row
<1>9. Checked'
  <2>1. Whole(at - 1)' = Whole(at - 1)
    BY <1>1, <1>7 DEF Whole, Row
  <2> QED
    BY <1>1, <1>3, <1>4, <2>1 DEF Checked, Passed, CheckPasses
<1> QED
  BY <1>6, <1>8, <1>9 DEF Honest

LEMMA NextFrameKeepsHonest ==
  ASSUME IInv, Honest, NextFrame
  PROVE  Honest'
<1>1. /\ phase' = "ready"
      /\ UNCHANGED <<pipeline, tiles, at, counts, frame, sent, consumed, drawn, short>>
  BY DEF NextFrame
<1>2. ~InTile' /\ ~Underway' /\ ~Passed'
  BY <1>1 DEF InTile, Underway, Passed
<1>3. Numbers'
  BY <1>1, <1>2 DEF Honest, Numbers, Placed, InTile
<1> QED
  BY <1>2, <1>3 DEF Honest, Measured, Checked, Clean

LEMMA HonestStep == IInv /\ Honest /\ [Next]_vars => Honest'
<1> SUFFICES ASSUME IInv, Honest, [Next]_vars PROVE Honest'
  OBVIOUS
<1>1. CASE UNCHANGED vars
  <2>1. /\ Numbers' /\ Checked'
    BY <1>1 DEF vars, Honest, Numbers, Checked, Placed, InTile, Passed, Features, Underway, Whole,
       Row, Stored
  <2>2. Measured'
    BY <1>1 DEF vars, Honest, Measured, Clean, Underway, InTile, Passed, DrawnWell, OnScreen, Here,
       Row, Stored
  <2> QED
    BY <2>1, <2>2 DEF Honest
<1>2. CASE Next
  BY <1>2, StartKeepsHonest, FailureKeepsHonest, PassedOver, CountsStay, DrawKeepsHonest,
     TileEndsHonest, MemoryKeepsHonest, FinishKeepsHonest, NextFrameKeepsHonest DEF Next
<1> QED
  BY <1>1, <1>2

\* What is stored of the tiles, as the property puts it.
LEMMA WholeFrame ==
  LET there == {i \in DOMAIN tiles : Archive[tiles[i].tile] # NoTile}
  IN  Numbers => Whole(Len(tiles)) = UNION {{i} \X (1..Archive[tiles[i].tile]) : i \in there}
<1> DEFINE there == {i \in DOMAIN tiles : Archive[tiles[i].tile] # NoTile}
<1> SUFFICES ASSUME Numbers
             PROVE  Whole(Len(tiles)) = UNION {{i} \X (1..Archive[tiles[i].tile]) : i \in there}
  OBVIOUS
<1>1. DOMAIN tiles = 1..Len(tiles)
  BY DEF Numbers, Placed
<1>2. \A i \in there : Row(i, Stored(i)) = {i} \X (1..Archive[tiles[i].tile])
  BY DEF Row, Stored
<1>3. \A i \in 1..Len(tiles) : i \notin there => Row(i, Stored(i)) = {}
  BY <1>1 DEF Row, Stored
<1> QED
  BY <1>1, <1>2, <1>3 DEF Whole

\* Whatever is visible, missing, too large for memory or undecodable, every
\* tile of a finished frame and of a sweep is in exactly one count.
THEOREM AccountsBalance == Spec => []EveryTileAccountedOnce
<1>1. Init => IInv
  BY InitEstablishes
<1>2. IInv /\ [Next]_vars => IInv'
  BY StepKeeps
<1>3. IInv => EveryTileAccountedOnce
  BY DEF IInv
<1> QED
  BY <1>1, <1>2, <1>3, PTL DEF Spec

\* HonestPass: for every screen over every archive, a measured frame that is
\* timed as ok has each feature and byte it reports on the screen, at all the
\* columns of its tile, and all of a tile unless the stream took a cut for its
\* end; and what embedded-world-check passes was counted whole.
THEOREM PassesAreHonest == Spec => []HonestPass
<1>1. Init => IInv /\ Honest
  BY InitEstablishes, HonestInit
<1>2. IInv /\ Honest /\ [Next]_vars => IInv' /\ Honest'
  BY StepKeeps, HonestStep
<1>3. IInv /\ Honest => HonestPass
  <2> SUFFICES ASSUME IInv, Honest PROVE HonestPass
    OBVIOUS
  <2> DEFINE there == {i \in DOMAIN tiles : Archive[tiles[i].tile] # NoTile}
             whole == UNION {{i} \X (1..Archive[tiles[i].tile]) : i \in there}
  <2>1. Numbers /\ Measured /\ Checked
    BY DEF Honest
  <2>2. whole = Whole(Len(tiles)) /\ DOMAIN tiles = 1..Len(tiles) /\ Len(tiles) \in Nat
        /\ counts.missing \in Nat /\ counts.skipped \in Nat /\ counts.features \in Nat
    BY <2>1, WholeFrame DEF IInv, Shape, Countable, Numbers, Placed
  <2>3. ASSUME Passed, pipeline = "measured"
        PROVE  /\ counts.features = Cardinality(OnScreen)
               /\ counts.bytes = Cardinality(OnScreen)
               /\ \A d \in OnScreen, i \in DOMAIN tiles :
                    d[1] = i => \A c \in tiles[i].columns : <<i, d[2], c>> \in drawn
               /\ counts.missing + counts.skipped = 0 =>
                    \A d \in whole : d \in OnScreen \/ d[1] \in short
    <3>1. Clean /\ at = Len(tiles) + 1 /\ Here = 0
      BY <2>1, <2>3 DEF Clean, Passed, Numbers, Here
    <3>2. /\ counts.bytes = counts.features /\ Cardinality(OnScreen) = counts.features
          /\ DrawnWell
          /\ counts.missing = 0 /\ counts.skipped = 0 =>
               \A i \in 1..at - 1 : i \in short \/ Row(i, Stored(i)) \subseteq OnScreen
      BY <2>1, <2>2, <3>1 DEF Measured
    <3>3. ASSUME counts.missing + counts.skipped = 0, NEW d \in whole
          PROVE  d \in OnScreen \/ d[1] \in short
      <4>1. PICK i \in 1..Len(tiles) : d \in Row(i, Stored(i))
        BY <2>2, <3>3 DEF Whole
      <4>2. d[1] = i
        BY <4>1 DEF Row
      <4>3. counts.missing = 0 /\ counts.skipped = 0 /\ i \in 1..at - 1
        BY <2>2, <3>1, <3>3
      <4> QED
        BY <3>2, <4>1, <4>2, <4>3
    <3>4. \A d \in OnScreen, i \in DOMAIN tiles :
            d[1] = i => \A c \in tiles[i].columns : <<i, d[2], c>> \in drawn
      BY <3>2 DEF DrawnWell
    <3> QED
      BY <3>2, <3>3, <3>4
  <2>4. ASSUME Passed, pipeline = "check", short = {}
        PROVE  counts.features = Cardinality(whole)
    <3>1. at - 1 = Len(tiles)
      BY <2>1, <2>2, <2>4 DEF Numbers
    <3> QED
      BY <2>1, <2>2, <2>4, <3>1 DEF Checked
  <2> HIDE DEF whole
  <2> QED
    BY <2>3, <2>4 DEF HonestPass, Passed, OnScreen, whole
<1> QED
  BY <1>1, <1>2, <1>3, PTL DEF Spec
=============================================================================
