------------------------------- MODULE Stroke -------------------------------
(***************************************************************************)
(* Thick lines: RasterizeCenteredStroke (src/include/orcmap/stroke.hpp)    *)
(* and the clipping before it (src/src/render/clip.cpp).  Coordinates are  *)
(* whole pixels; the clip's parameters are exact fractions here, where the *)
(* code uses doubles.                                                      *)
(***************************************************************************)
EXTENDS Integers, Sequences, FiniteSets

Abs(n) == IF n < 0 THEN -n ELSE n

\* Widths are given in tenths of a pixel; halves round up.
MaxRasterStroke == 64
RasterStrokeWidthPx(tenths) ==
  IF tenths <= 0 THEN 0
  ELSE IF tenths <= 10 THEN 1
  ELSE LET w == (tenths + 5) \div 10
       IN  IF w < 2 THEN 2 ELSE IF w > MaxRasterStroke THEN MaxRasterStroke ELSE w

-----------------------------------------------------------------------------
(* Liang-Barsky.  A fraction is [n, d] with d > 0.                         *)

Less(a, b) == a.n * b.d < b.n * a.d
Fraction(n, d) == IF d < 0 THEN [n |-> -n, d |-> -d] ELSE [n |-> n, d |-> d]

\* t is [t0, t1, in]: the part still inside goes from t0 to t1.  A line that
\* crosses an edge at r enters there or leaves there.
Outside(t) == [t EXCEPT !.in = FALSE]
Enters(r, t) ==
  IF Less(t.t1, r) THEN Outside(t) ELSE IF Less(t.t0, r) THEN [t EXCEPT !.t0 = r] ELSE t
Leaves(r, t) ==
  IF Less(r, t.t0) THEN Outside(t) ELSE IF Less(r, t.t1) THEN [t EXCEPT !.t1 = r] ELSE t

\* p and q describe one edge.
ClipT(p, q, t) ==
  IF ~t.in THEN t
  ELSE IF p = 0 THEN IF q >= 0 THEN t ELSE Outside(t)
  ELSE IF p < 0 THEN Enters(Fraction(q, p), t) ELSE Leaves(Fraction(q, p), t)

\* floor(a + t * d + 1/2), kept within the edges.
ClampPixel(a, t, d, lo, hi) ==
  LET v == (2 * (a * t.d + t.n * d) + t.d) \div (2 * t.d)
  IN  IF v < lo THEN lo ELSE IF v > hi THEN hi ELSE v

\* A line is <<x0, y0, x1, y1>>, a rectangle the same corners inclusive; <<>>
\* when nothing of the line is inside.
ClipLineToPixelRect(line, rect) ==
  LET dx == line[3] - line[1]
      dy == line[4] - line[2]
      all == [t0 |-> Fraction(0, 1), t1 |-> Fraction(1, 1), in |-> TRUE]
      t == ClipT(dy, rect[4] - line[2],
             ClipT(-dy, line[2] - rect[2],
               ClipT(dx, rect[3] - line[1], ClipT(-dx, line[1] - rect[1], all))))
      at(u) == <<ClampPixel(line[1], u, dx, rect[1], rect[3]),
                 ClampPixel(line[2], u, dy, rect[2], rect[4])>>
  IN  IF t.in THEN at(t.t0) \o at(t.t1) ELSE <<>>

-----------------------------------------------------------------------------
\* The centreline: a step moves along x, along y or along both.
NextPixel(s, dx, dy, sx, sy) ==
  LET mx == 2 * s.err >= dy
      my == 2 * s.err <= dx
  IN  [at |-> <<s.at[1] + (IF mx THEN sx ELSE 0), s.at[2] + (IF my THEN sy ELSE 0)>>,
       err |-> s.err + (IF mx THEN dy ELSE 0) + (IF my THEN dx ELSE 0)]

Walk(line) ==
  LET dx == Abs(line[3] - line[1])
      dy == -Abs(line[4] - line[2])
      sx == IF line[1] < line[3] THEN 1 ELSE -1
      sy == IF line[2] < line[4] THEN 1 ELSE -1
      step[n \in 0..dx - dy] == IF n = 0 THEN [at |-> <<line[1], line[2]>>, err |-> dx + dy]
                                ELSE NextPixel(step[n - 1], dx, dy, sx, sy)
  IN  step

Centreline(line) ==
  LET step == Walk(line)
      arrival == CHOOSE n \in DOMAIN step : /\ step[n].at = <<line[3], line[4]>>
                                            /\ \A k \in 0..n - 1 : step[k].at # <<line[3], line[4]>>
  IN  [i \in 1..arrival + 1 |-> step[i - 1].at]

\* Mutant: a diagonal step extends a horizontal run.
ExtendsDiagonally(run, p, prev) ==
  \/ p[1] # prev[1] /\ run[2] = run[4]
  \/ p[1] = prev[1] /\ run[1] = run[3]

\* A run goes on while its steps keep to one axis.
Extends(run, p, prev) ==
  \/ p[2] = prev[2] /\ run[2] = run[4]
  \/ p[1] = prev[1] /\ run[1] = run[3]

NextRun(acc, p) ==
  IF Extends(acc.run, p, acc.prev)
  THEN [acc EXCEPT !.run = <<@[1], @[2], p[1], p[2]>>, !.prev = p]
  ELSE [done |-> Append(acc.done, acc.run), run |-> p \o p, prev |-> p]

\* The runs of the centreline, each as its first and last pixel.
Runs(points) ==
  LET scan[i \in 1..Len(points)] ==
        IF i = 1 THEN [done |-> <<>>, run |-> points[1] \o points[1], prev |-> points[1]]
        ELSE NextRun(scan[i - 1], points[i])
      end == scan[Len(points)]
  IN  Append(end.done, end.run)

\* The pixels of a run's rectangle: its bounding box, w - 1 pixels larger.
RunRect(run, w) ==
  LET left == (IF run[1] < run[3] THEN run[1] ELSE run[3]) - w \div 2
      top == (IF run[2] < run[4] THEN run[2] ELSE run[4]) - w \div 2
  IN  (left..left + Abs(run[3] - run[1]) + w - 1) \X (top..top + Abs(run[4] - run[2]) + w - 1)

RasterizeCenteredStroke(line, tenths, width, height) ==
  LET w == RasterStrokeWidthPx(tenths)
      r == w \div 2
      clipped == ClipLineToPixelRect(line, <<-r, -r, width - 1 + r, height - 1 + r>>)
  IN  IF w = 0 \/ width <= 0 \/ height <= 0 \/ clipped = <<>> THEN {}
      ELSE LET runs == Runs(Centreline(clipped))
           IN  UNION {RunRect(runs[i], w) : i \in DOMAIN runs}

-----------------------------------------------------------------------------
Brush(p, w) == RunRect(p \o p, w)

\* "Emitting one rect per run paints precisely the same pixels as one rect per
\* pixel" (stroke.hpp:69), and no pixel of the screen that the brush of the
\* unclipped line reaches along an axis is lost to the clipping.
RunsPaintTheBrush(line, tenths, width, height) ==
  LET w == RasterStrokeWidthPx(tenths)
      painted == RasterizeCenteredStroke(line, tenths, width, height)
      r == w \div 2
      clipped == ClipLineToPixelRect(line, <<-r, -r, width - 1 + r, height - 1 + r>>)
      screen == (0..width - 1) \X (0..height - 1)
      brushed(l) == LET c == Centreline(l) IN UNION {Brush(c[i], w) : i \in DOMAIN c}
      straight == line[1] = line[3] \/ line[2] = line[4]
                  \/ Abs(line[1] - line[3]) = Abs(line[2] - line[4])
  IN  /\ clipped # <<>> => painted = brushed(clipped)
      /\ w > 0 /\ straight => painted \cap screen = brushed(line) \cap screen
=============================================================================
