--------------------------- MODULE LibraryProofs ---------------------------
(***************************************************************************)
(* The library as it is run, every part on its own topic: what is proved   *)
(* of a part holds of it there.                                            *)
(*                                                                         *)
(* First what the catalogue resolves, for any number of packs, any boxes   *)
(* on either side of or across the antimeridian, and any order of          *)
(* insertion.  The scan is a fold over the packs: that it visits them one  *)
(* by one is proved by induction over the catalogue's length, and          *)
(* everything else follows from what one step of it does.  Then the two    *)
(* searches of a directory, for columns of any length: the same induction, *)
(* over the functions that accumulate ids and offsets.  The manifest       *)
(* parser likewise, over tokens: its state stays between two values, and a *)
(* refusal stays refused.  A drawing is a fold over the style's layers and *)
(* over the features.  The other parts have their theorems in PartProofs   *)
(* and MapDemoProofs; here they are taken to the run's inputs.             *)
(***************************************************************************)
EXTENDS MCLibrary, CommonLemmas, SequenceTheorems

\* A set of positions that is not empty has a last one.
LEMMA LastPosition ==
  ASSUME NEW n \in Nat, NEW s \in SUBSET (1..n), s # {}
  PROVE  Seqs!Max(s) \in s /\ \A i \in s : i <= Seqs!Max(s)
  BY Part!LastPosition DEF Seqs!Max, Part!Seqs!Max

-----------------------------------------------------------------------------
(* The scan of ResolvePack.                                                *)

\* One step of the scan: pack m is looked at after `best`.
Better(m, best, q, z) == IF Eligible(m, q, z) /\ Beats(m, best) THEN m ELSE best

\* The scan as a function of the positions looked at.
IsScan(scan, positions, catalog, q, z) ==
  scan = [s \in SUBSET positions |->
            IF s = {} THEN NoPack
            ELSE Better(catalog[Seqs!Max(s)], scan[s \ {Seqs!Max(s)}], q, z)]

Scan(catalog, q, z) == CHOOSE scan : IsScan(scan, DOMAIN catalog, catalog, q, z)

LEMMA ResolveScans ==
  ASSUME NEW catalog, NEW q, NEW z, ValidBounds(q), ZoomIsValid(z)
  PROVE  ResolvePack(catalog, q, z) = Scan(catalog, q, z)[DOMAIN catalog]
  BY DEF ResolvePack, Seqs!FoldLeft, Seqs!MapThenFoldSet, Scan, IsScan, Better

\* The function the scan is defined by exists.
LEMMA ScanExists ==
  ASSUME NEW catalog, NEW q, NEW z, NEW n \in Nat
  PROVE  \E g : IsScan(g, 1..n, catalog, q, z)
<1> USE DEF IsScan
<1> DEFINE Scans(g, k) == IsScan(g, 1..k, catalog, q, z)
           T == {k \in Nat : \E g : Scans(g, k)}
<1>1. 0 \in T
  <2> DEFINE g == [s \in SUBSET (1..0) |-> NoPack]
  <2>1. \A s \in SUBSET (1..0) : s = {}
    OBVIOUS
  <2>2. Scans(g, 0)
    BY <2>1
  <2> QED
    BY <2>2
<1>2. ASSUME NEW k \in 0..n - 1, k \in T PROVE k + 1 \in T
  <2>1. PICK g : Scans(g, k)
    BY <1>2
  <2> DEFINE step(f, s) == Better(catalog[Seqs!Max(s)], f[s \ {Seqs!Max(s)}], q, z)
             h == [s \in SUBSET (1..k + 1) |->
                     IF k + 1 \in s THEN Better(catalog[k + 1], g[s \ {k + 1}], q, z) ELSE g[s]]
  <2> HIDE DEF step
  <2>2. ASSUME NEW s \in SUBSET (1..k + 1), s # {}, k + 1 \in s
        PROVE  h[s] = step(h, s)
    <3>1. Seqs!Max(s) = k + 1
      <4>1. Seqs!Max(s) \in s /\ \A i \in s : i <= Seqs!Max(s)
        <5>1. k + 1 \in Nat
          OBVIOUS
        <5> HIDE DEF h, T, Scans
        <5> QED
          BY <2>2, <5>1, LastPosition
      <4>2. Seqs!Max(s) \in 1..k + 1 /\ k + 1 <= Seqs!Max(s)
        BY <2>2, <4>1
      <4> QED
        BY <4>2
    <3>2. s \ {k + 1} \in SUBSET (1..k + 1) /\ k + 1 \notin s \ {k + 1}
      OBVIOUS
    <3>3. h[s] = Better(catalog[k + 1], g[s \ {k + 1}], q, z) /\ h[s \ {k + 1}] = g[s \ {k + 1}]
      BY <2>2, <3>2
    <3> QED
      BY <3>1, <3>3 DEF step
  <2>3. ASSUME NEW s \in SUBSET (1..k + 1), s # {}, k + 1 \notin s
        PROVE  h[s] = step(h, s)
    <3>1. s \in SUBSET (1..k)
      BY <2>3
    <3>2. h[s] = g[s] /\ g[s] = step(g, s)
      BY <2>1, <2>3, <3>1 DEF step
    <3>3. s \ {Seqs!Max(s)} \in SUBSET (1..k + 1) /\ k + 1 \notin s \ {Seqs!Max(s)}
      BY <2>3
    <3>4. h[s \ {Seqs!Max(s)}] = g[s \ {Seqs!Max(s)}]
      BY <3>3
    <3> QED
      BY <3>2, <3>4 DEF step
  <2>4. h[{}] = NoPack
    <3>1. {} \in SUBSET (1..k) /\ {} \in SUBSET (1..k + 1)
      OBVIOUS
    <3> QED
      BY <2>1, <3>1
  <2>5. Scans(h, k + 1)
    <3>1. \A s \in SUBSET (1..k + 1) : h[s] = IF s = {} THEN NoPack ELSE step(h, s)
      BY <2>2, <2>3, <2>4
    <3>2. h = [s \in SUBSET (1..k + 1) |-> h[s]]
      OBVIOUS
    <3>3. h = [s \in SUBSET (1..k + 1) |-> IF s = {} THEN NoPack ELSE step(h, s)]
      <4> HIDE DEF h
      <4> QED
        BY <3>1, <3>2
    <3> QED
      BY <3>3 DEF step
  <2>6. IsScan(h, 1..k + 1, catalog, q, z)
    BY <2>5
  <2>7. \E f : IsScan(f, 1..k + 1, catalog, q, z)
    BY <2>6
  <2> HIDE DEF h, IsScan
  <2> QED
    BY <2>7
<1>3. \A k \in 0..n : k \in T
  <2> HIDE DEF T
  <2> QED
    BY <1>1, <1>2, UpTo
<1>4. n \in T
  <2>1. n \in 0..n
    OBVIOUS
  <2> QED
    BY <1>3, <2>1
<1> HIDE DEF IsScan
<1> QED
  BY <1>4

\* The packs are looked at one by one, in their order.
LEMMA ScanSteps ==
  ASSUME NEW catalog \in Seq(Manifests), NEW q, NEW z, ValidBounds(q), ZoomIsValid(z)
  PROVE  \E r : /\ r[0] = NoPack
                /\ \A k \in 1..Len(catalog) : r[k] = Better(catalog[k], r[k - 1], q, z)
                /\ ResolvePack(catalog, q, z) = r[Len(catalog)]
<1> DEFINE n == Len(catalog)
           scan == Scan(catalog, q, z)
           r == [k \in 0..n |-> scan[1..k]]
<1>1. n \in Nat /\ DOMAIN catalog = 1..n
  BY LenProperties
<1> HIDE DEF n
<1>2. scan = [s \in SUBSET (1..n) |->
                IF s = {} THEN NoPack
                ELSE Better(catalog[Seqs!Max(s)], scan[s \ {Seqs!Max(s)}], q, z)]
  <2>1. \E g : IsScan(g, DOMAIN catalog, catalog, q, z)
    BY <1>1, ScanExists
  <2>2. IsScan(scan, DOMAIN catalog, catalog, q, z)
    BY <2>1 DEF Scan
  <2> QED
    BY <1>1, <2>2 DEF IsScan
<1> HIDE DEF scan
<1>3. r[0] = NoPack
  <2>0. 1..0 = {} /\ 0 \in 0..n
    BY <1>1
  <2>1. {} \in SUBSET (1..n)
    OBVIOUS
  <2>2. scan[{}] = NoPack
    BY <1>2, <2>1
  <2> QED
    BY <2>0, <2>2
<1>4. ASSUME NEW k \in 1..n PROVE r[k] = Better(catalog[k], r[k - 1], q, z)
  <2>0. k \in 0..n /\ k - 1 \in 0..n /\ k \in 1..k /\ \A i \in 1..k : i \in 1..n
    BY <1>1
  <2>1. 1..k \in SUBSET (1..n) /\ 1..k # {}
    BY <2>0
  <2>2. Seqs!Max(1..k) = k
    <3>1. Seqs!Max(1..k) \in 1..k /\ k <= Seqs!Max(1..k)
      BY <1>1, <2>0, <2>1, LastPosition
    <3> QED
      BY <3>1
  <2>3. (1..k) \ {k} = 1..k - 1
    OBVIOUS
  <2>4. scan[1..k] = Better(catalog[k], scan[1..k - 1], q, z)
    BY <1>2, <2>1, <2>2, <2>3
  <2> QED
    BY <2>0, <2>4
<1>5. ResolvePack(catalog, q, z) = r[n]
  <2>1. ResolvePack(catalog, q, z) = scan[DOMAIN catalog]
    BY ResolveScans DEF scan
  <2> QED
    BY <1>1, <2>1
<1> QED
  BY <1>3, <1>4, <1>5 DEF n

\* No pack that the scan considers comes before p.
Best(p, considered) ==
  \A m \in considered :
    m.priority < p.priority \/ (m.priority = p.priority /\ m.pack_id <= p.pack_id)

EligibleOf(catalog, q, z) == {m \in {catalog[i] : i \in DOMAIN catalog} : Eligible(m, q, z)}

\* What the scan is for: the answer is an eligible pack that no other beats,
\* and there is none only when no pack is eligible.
LEMMA ResolveIsBest ==
  ASSUME NEW catalog \in Seq(Manifests), NEW q, NEW z, ValidBounds(q), ZoomIsValid(z)
  PROVE  LET answer == ResolvePack(catalog, q, z)
         IN  IF EligibleOf(catalog, q, z) = {} THEN answer = NoPack
             ELSE answer \in EligibleOf(catalog, q, z) /\ Best(answer, EligibleOf(catalog, q, z))
<1> DEFINE n == Len(catalog)
           seen(k) == {m \in {catalog[i] : i \in 1..k} : Eligible(m, q, z)}
           right(p, k) == IF seen(k) = {} THEN p = NoPack ELSE p \in seen(k) /\ Best(p, seen(k))
<1>1. n \in Nat /\ DOMAIN catalog = 1..n /\ \A i \in 1..n : catalog[i] \in Manifests
  BY LenProperties, ElementOfSeq
<1> HIDE DEF n
<1>2. PICK r : /\ r[0] = NoPack
               /\ \A k \in 1..n : r[k] = Better(catalog[k], r[k - 1], q, z)
               /\ ResolvePack(catalog, q, z) = r[n]
  BY ScanSteps DEF n
<1> DEFINE T == {k \in 0..n : right(r[k], k)}
<1>3. 0 \in T
  BY <1>1, <1>2
<1>4. ASSUME NEW k \in 0..n - 1, k \in T PROVE k + 1 \in T
  <2> DEFINE m == catalog[k + 1]
             p == r[k]
  <2>1. k + 1 \in 1..n /\ m \in Manifests /\ right(p, k) /\ k \in Nat
    BY <1>1, <1>4
  <2>2. r[k + 1] = Better(m, p, q, z)
    BY <1>2, <2>1
  <2>3. seen(k + 1) = seen(k) \cup (IF Eligible(m, q, z) THEN {m} ELSE {})
    <3>1. 1..k + 1 = 1..k \cup {k + 1}
      BY <2>1
    <3>2. {catalog[i] : i \in 1..k + 1} = {catalog[i] : i \in 1..k} \cup {m}
      BY <3>1
    <3> QED
      BY <3>2
  <2>4. seen(k) \subseteq Manifests
    BY <1>1, <2>1
  <2> HIDE DEF m, p, seen
  <2>5. right(r[k + 1], k + 1)
    <3>1. CASE ~Eligible(m, q, z)
      <4>1. seen(k + 1) = seen(k) /\ r[k + 1] = p
        BY <2>2, <2>3, <3>1 DEF Better
      <4> QED
        BY <2>1, <4>1
    <3>2. CASE Eligible(m, q, z) /\ seen(k) = {}
      <4>1. p = NoPack /\ seen(k + 1) = {m} /\ r[k + 1] = m
        BY <2>1, <2>2, <2>3, <3>2 DEF Better, Beats
      <4>2. Best(m, {m})
        BY <2>1, ManifestAssumption DEF Best
      <4> QED
        BY <4>1, <4>2
    <3>3. CASE Eligible(m, q, z) /\ seen(k) # {}
      <4>1. p \in seen(k) /\ Best(p, seen(k)) /\ p # NoPack
        BY <2>1, <2>4, <3>3, ManifestAssumption
      <4>2. \A x \in seen(k) \cup {m} : x.priority \in Int /\ x.pack_id \in Int
        BY <2>1, <2>4, ManifestAssumption
      <4>3. seen(k + 1) = seen(k) \cup {m}
        BY <2>3, <3>3
      <4>4. CASE Beats(m, p)
        <5>1. r[k + 1] = m
          BY <2>2, <3>3, <4>4 DEF Better
        <5>2. Best(m, seen(k) \cup {m})
          BY <4>1, <4>2, <4>4 DEF Beats, Best
        <5> QED
          BY <4>3, <5>1, <5>2
      <4>5. CASE ~Beats(m, p)
        <5>1. r[k + 1] = p
          BY <2>2, <4>5 DEF Better
        <5>2. Best(p, seen(k) \cup {m})
          BY <4>1, <4>2, <4>5 DEF Beats, Best
        <5> QED
          BY <4>1, <4>3, <5>1, <5>2
      <4> QED
        BY <4>4, <4>5
    <3> QED
      BY <3>1, <3>2, <3>3
  <2>6. k + 1 \in 0..n
    BY <1>1
  <2> HIDE DEF right
  <2> QED
    BY <2>5, <2>6
<1>5. right(r[n], n)
  <2>1. \A k \in 0..n : k \in T
    <3> HIDE DEF T
    <3> QED
      BY <1>1, <1>3, <1>4, UpTo
  <2>2. n \in 0..n
    BY <1>1
  <2> QED
    BY <2>1, <2>2
<1>6. seen(n) = EligibleOf(catalog, q, z)
  BY <1>1 DEF EligibleOf
<1> HIDE DEF seen
<1> QED
  BY <1>2, <1>5, <1>6

-----------------------------------------------------------------------------
(* Containment in pieces is containment on the map.                        *)

\* The longitudes a box covers, in half units.
Longitudes(b) ==
  {lon \in -2 * MaxLon..2 * MaxLon :
     IF b.min_lon <= b.max_lon THEN lon >= 2 * b.min_lon /\ lon <= 2 * b.max_lon
                               ELSE lon >= 2 * b.min_lon \/ lon <= 2 * b.max_lon}

Crosses(b) == b.min_lon > b.max_lon

\* The longitudes are compared piece by piece; a gap of `outer` that `inner`
\* reaches across shows at the half unit east of the gap's western end.
LEMMA LongitudesContained ==
  ASSUME NEW inner, NEW outer, ValidBounds(inner), ValidBounds(outer)
  PROVE  (\A i \in SplitLongitude(inner) : \E o \in SplitLongitude(outer) :
            i.min >= o.min /\ i.max <= o.max)
           <=> Longitudes(inner) \subseteq Longitudes(outer)
<1> DEFINE a == inner.min_lon
           b == inner.max_lon
           c == outer.min_lon
           d == outer.max_lon
           pieces == \A i \in SplitLongitude(inner) : \E o \in SplitLongitude(outer) :
                       i.min >= o.min /\ i.max <= o.max
<1>1. {a, b, c, d} \subseteq -MaxLon..MaxLon /\ MaxLon \in Nat
  BY CatalogAssumption DEF ValidBounds
<1>2. CASE ~Crosses(inner) /\ ~Crosses(outer)
  <2>1. pieces <=> a >= c /\ b <= d
    <3>1. SplitLongitude(inner) = {[min |-> a, max |-> b]}
      BY <1>1, <1>2 DEF Crosses, SplitLongitude
    <3>2. SplitLongitude(outer) = {[min |-> c, max |-> d]}
      BY <1>1, <1>2 DEF Crosses, SplitLongitude
    <3> QED
      BY <1>1, <1>2, <3>1, <3>2 DEF Crosses
  <2>2. Longitudes(inner) \subseteq Longitudes(outer) => a >= c /\ b <= d
    <3>1. 2 * a \in Longitudes(inner) /\ 2 * b \in Longitudes(inner)
      BY <1>1, <1>2 DEF Crosses, Longitudes
    <3>2. 2 * a \in Longitudes(outer) => a >= c
      BY <1>1, <1>2 DEF Crosses, Longitudes
    <3>3. 2 * b \in Longitudes(outer) => b <= d
      BY <1>1, <1>2 DEF Crosses, Longitudes
    <3> QED
      BY <3>1, <3>2, <3>3
  <2>3. a >= c /\ b <= d => Longitudes(inner) \subseteq Longitudes(outer)
    BY <1>1, <1>2 DEF Crosses, Longitudes
  <2> QED
    BY <2>1, <2>2, <2>3
<1>3. CASE ~Crosses(inner) /\ Crosses(outer)
  <2>1. pieces <=> a >= c \/ b <= d
    <3>1. SplitLongitude(inner) = {[min |-> a, max |-> b]}
      BY <1>1, <1>3 DEF Crosses, SplitLongitude
    <3>2. SplitLongitude(outer) = {[min |-> c, max |-> MaxLon], [min |-> -MaxLon, max |-> d]}
      BY <1>1, <1>3 DEF Crosses, SplitLongitude
    <3> QED
      BY <1>1, <1>3, <3>1, <3>2 DEF Crosses
  <2>2. ASSUME Longitudes(inner) \subseteq Longitudes(outer), a < c, b > d
        PROVE  FALSE
    <3>1. 2 * a \in Longitudes(inner)
      BY <1>1, <1>3 DEF Crosses, Longitudes
    <3>2. a <= d
      <4>1. 2 * a \in Longitudes(outer)
        BY <2>2, <3>1
      <4> QED
        BY <1>1, <1>3, <2>2, <4>1 DEF Crosses, Longitudes
    <3>3. 2 * d + 1 \in Longitudes(inner)
      BY <1>1, <1>3, <2>2, <3>2 DEF Crosses, Longitudes
    <3>4. 2 * d + 1 \notin Longitudes(outer)
      BY <1>1, <1>3 DEF Crosses, Longitudes
    <3> QED
      BY <2>2, <3>3, <3>4
  <2>3. a >= c \/ b <= d => Longitudes(inner) \subseteq Longitudes(outer)
    BY <1>1, <1>3 DEF Crosses, Longitudes
  <2>4. a < c \/ a >= c
    BY <1>1
  <2>5. b > d \/ b <= d
    BY <1>1
  <2> QED
    BY <2>1, <2>2, <2>3, <2>4, <2>5
<1>4. CASE Crosses(inner) /\ ~Crosses(outer)
  <2>1. pieces <=> c = -MaxLon /\ d = MaxLon
    <3>1. SplitLongitude(inner) = {[min |-> a, max |-> MaxLon], [min |-> -MaxLon, max |-> b]}
      BY <1>1, <1>4 DEF Crosses, SplitLongitude
    <3>2. SplitLongitude(outer) = {[min |-> c, max |-> d]}
      BY <1>1, <1>4 DEF Crosses, SplitLongitude
    <3> QED
      BY <1>1, <1>4, <3>1, <3>2 DEF Crosses
  <2>2. Longitudes(inner) \subseteq Longitudes(outer) => c = -MaxLon /\ d = MaxLon
    <3>1. 2 * MaxLon \in Longitudes(inner) /\ -2 * MaxLon \in Longitudes(inner)
      BY <1>1, <1>4 DEF Crosses, Longitudes
    <3>2. 2 * MaxLon \in Longitudes(outer) => d = MaxLon
      BY <1>1, <1>4 DEF Crosses, Longitudes
    <3>3. -2 * MaxLon \in Longitudes(outer) => c = -MaxLon
      BY <1>1, <1>4 DEF Crosses, Longitudes
    <3> QED
      BY <3>1, <3>2, <3>3
  <2>3. c = -MaxLon /\ d = MaxLon => Longitudes(inner) \subseteq Longitudes(outer)
    BY <1>1, <1>4 DEF Crosses, Longitudes
  <2> QED
    BY <2>1, <2>2, <2>3
<1>5. CASE Crosses(inner) /\ Crosses(outer)
  <2>1. pieces <=> a >= c /\ b <= d
    <3>1. SplitLongitude(inner) = {[min |-> a, max |-> MaxLon], [min |-> -MaxLon, max |-> b]}
      BY <1>1, <1>5 DEF Crosses, SplitLongitude
    <3>2. SplitLongitude(outer) = {[min |-> c, max |-> MaxLon], [min |-> -MaxLon, max |-> d]}
      BY <1>1, <1>5 DEF Crosses, SplitLongitude
    <3> QED
      BY <1>1, <1>5, <3>1, <3>2 DEF Crosses
  <2>2. ASSUME Longitudes(inner) \subseteq Longitudes(outer)
        PROVE  a >= c /\ b <= d
    <3>1. 2 * d + 1 \notin Longitudes(outer)
      BY <1>1, <1>5 DEF Crosses, Longitudes
    <3>2. 2 * d + 1 \notin Longitudes(inner)
      BY <2>2, <3>1
    <3>3. 2 * d + 1 \in -2 * MaxLon..2 * MaxLon
      BY <1>1, <1>5 DEF Crosses
    <3>4. 2 * d + 1 < 2 * a /\ 2 * d + 1 > 2 * b
      BY <1>1, <1>5, <3>2, <3>3 DEF Crosses, Longitudes
    <3>5. 2 * a \in Longitudes(outer)
      <4>1. 2 * a \in Longitudes(inner)
        BY <1>1, <1>5 DEF Crosses, Longitudes
      <4> QED
        BY <2>2, <4>1
    <3>6. 2 * a >= 2 * c
      BY <1>1, <1>5, <3>4, <3>5 DEF Crosses, Longitudes
    <3> QED
      BY <1>1, <3>4, <3>6
  <2>3. a >= c /\ b <= d => Longitudes(inner) \subseteq Longitudes(outer)
    BY <1>1, <1>5 DEF Crosses, Longitudes
  <2> QED
    BY <2>1, <2>2, <2>3
<1> QED
  BY <1>2, <1>3, <1>4, <1>5

\* The comparison of pieces says exactly that no point is left out.
LEMMA ContainsIsCovering ==
  ASSUME NEW inner, NEW outer, ValidBounds(inner), ValidBounds(outer)
  PROVE  Contains(outer, inner) <=> Covered(inner) \subseteq Covered(outer)
<1> DEFINE rows(b) == 2 * b.min_lat..2 * b.max_lat
<1>1. /\ inner.min_lat \in Int /\ inner.max_lat \in Int /\ inner.min_lat <= inner.max_lat
      /\ outer.min_lat \in Int /\ outer.max_lat \in Int
  BY DEF ValidBounds
<1>2. rows(inner) \subseteq rows(outer)
        <=> inner.min_lat >= outer.min_lat /\ inner.max_lat <= outer.max_lat
  <2>1. 2 * inner.min_lat \in rows(inner) /\ 2 * inner.max_lat \in rows(inner)
    BY <1>1
  <2>2. 2 * inner.min_lat \in rows(outer) => inner.min_lat >= outer.min_lat
    BY <1>1
  <2>3. 2 * inner.max_lat \in rows(outer) => inner.max_lat <= outer.max_lat
    BY <1>1
  <2>4. inner.min_lat >= outer.min_lat /\ inner.max_lat <= outer.max_lat
          => rows(inner) \subseteq rows(outer)
    BY <1>1
  <2> HIDE DEF rows
  <2> QED
    BY <2>1, <2>2, <2>3, <2>4
<1>3. Covered(inner) = Longitudes(inner) \X rows(inner)
      /\ Covered(outer) = Longitudes(outer) \X rows(outer)
  BY DEF Covered, Longitudes
<1>4. rows(inner) # {} /\ Longitudes(inner) # {}
  <2>1. 2 * inner.min_lat \in rows(inner)
    BY <1>1
  <2>2. 2 * inner.min_lon \in Longitudes(inner)
    BY CatalogAssumption DEF Longitudes, ValidBounds
  <2> QED
    BY <2>1, <2>2
<1> HIDE DEF rows
<1>5. Covered(inner) \subseteq Covered(outer)
        <=> Longitudes(inner) \subseteq Longitudes(outer) /\ rows(inner) \subseteq rows(outer)
  <2>1. ASSUME Covered(inner) \subseteq Covered(outer), NEW lon \in Longitudes(inner), NEW lat \in rows(inner)
        PROVE  lon \in Longitudes(outer) /\ lat \in rows(outer)
    <3>1. <<lon, lat>> \in Covered(outer)
      BY <1>3, <2>1
    <3> QED
      BY <1>3, <3>1
  <2>2. ASSUME Longitudes(inner) \subseteq Longitudes(outer), rows(inner) \subseteq rows(outer)
        PROVE  Covered(inner) \subseteq Covered(outer)
    BY <1>3, <2>2
  <2> QED
    BY <1>4, <2>1, <2>2
<1> QED
  BY <1>2, <1>5, LongitudesContained DEF Contains

-----------------------------------------------------------------------------
(* The catalogue.                                                          *)

\* Add() lets in valid manifests only, each identity once.
IInv ==
  /\ packs \in Seq(Manifests)
  /\ \A i \in DOMAIN packs : Valid(packs[i])
  /\ \A i, j \in DOMAIN packs : packs[i].pack_id = packs[j].pack_id => i = j

LEMMA InitInv == Init => IInv
  BY DEF Init, IInv

LEMMA StepInv == IInv /\ [Next]_packs => IInv'
<1> SUFFICES ASSUME IInv, [Next]_packs PROVE IInv'
  OBVIOUS
<1>1. CASE UNCHANGED packs
  BY <1>1 DEF IInv
<1>2. CASE Next
  <2>1. PICK m \in Manifests : Add(m)
    BY <1>2 DEF Next
  <2> DEFINE n == Len(packs)
  <2>2. n \in Nat /\ DOMAIN packs = 1..n
    BY LenProperties DEF IInv
  <2>3. /\ packs' \in Seq(Manifests)
        /\ Len(packs') = n + 1
        /\ \A i \in 1..n : packs'[i] = packs[i]
        /\ packs'[n + 1] = m
    BY <2>1, AppendProperties DEF Add, IInv
  <2> HIDE DEF n
  <2>4. DOMAIN packs' = 1..n \cup {n + 1}
    <3>1. DOMAIN packs' = 1..n + 1
      BY <2>3, LenProperties
    <3> QED
      BY <2>2, <3>1
  <2>5. \A i \in DOMAIN packs' : Valid(packs'[i])
    BY <2>1, <2>2, <2>3, <2>4 DEF Add, IInv
  <2>6. \A i, j \in DOMAIN packs' : packs'[i].pack_id = packs'[j].pack_id => i = j
    <3>1. \A i \in 1..n : packs[i].pack_id # m.pack_id
      BY <2>1, <2>2 DEF Add
    <3>2. \A i, j \in 1..n : packs[i].pack_id = packs[j].pack_id => i = j
      BY <2>2 DEF IInv
    <3> QED
      BY <2>3, <2>4, <3>1, <3>2
  <2> QED
    BY <2>3, <2>5, <2>6 DEF IInv
<1> QED
  BY <1>1, <1>2

LEMMA Invariance == Spec => []IInv
  BY InitInv, StepInv, PTL DEF Spec

LEMMA InvResolves == IInv => ResolvedPackCoversRequest
<1> SUFFICES ASSUME IInv, NEW q \in Requests, NEW z \in 0..MaxZoom, ValidBounds(q)
             PROVE  LET answer == ResolvePack(packs, q, z)
                        covers == {m \in {packs[i] : i \in DOMAIN packs} :
                                     z \in m.min_zoom..m.max_zoom
                                       /\ Covered(q) \subseteq Covered(m.bounds)}
                    IN  IF covers = {} THEN answer = NoPack
                        ELSE answer \in covers /\ \A m \in covers : m.priority <= answer.priority
  BY DEF ResolvedPackCoversRequest
<1> DEFINE covers == {m \in {packs[i] : i \in DOMAIN packs} :
                        z \in m.min_zoom..m.max_zoom /\ Covered(q) \subseteq Covered(m.bounds)}
<1>1. \A m \in {packs[i] : i \in DOMAIN packs} : ValidBounds(m.bounds) /\ m \in Manifests
  <2>1. \A i \in DOMAIN packs : packs[i] \in Manifests /\ ValidBounds(packs[i].bounds)
    BY ElementOfSeq, LenProperties DEF IInv, Valid
  <2> QED
    BY <2>1
<1>2. EligibleOf(packs, q, z) = covers
  <2>1. \A m \in {packs[i] : i \in DOMAIN packs} :
          Eligible(m, q, z) <=> z \in m.min_zoom..m.max_zoom /\ Covered(q) \subseteq Covered(m.bounds)
    BY <1>1, ContainsIsCovering DEF Eligible
  <2> QED
    BY <2>1 DEF EligibleOf
<1>3. ZoomIsValid(z) /\ packs \in Seq(Manifests)
  BY DEF ZoomIsValid, IInv
<1>4. \A p \in covers : Best(p, covers) => \A m \in covers : m.priority <= p.priority
  BY <1>1, ManifestAssumption DEF Best
<1> HIDE DEF covers
<1>5. LET answer == ResolvePack(packs, q, z)
      IN  IF covers = {} THEN answer = NoPack ELSE answer \in covers /\ Best(answer, covers)
  BY <1>2, <1>3, ResolveIsBest
<1>6. LET answer == ResolvePack(packs, q, z)
      IN  IF covers = {} THEN answer = NoPack
          ELSE answer \in covers /\ \A m \in covers : m.priority <= answer.priority
  BY <1>4, <1>5
<1> QED
  BY <1>6 DEF covers

\* However many packs the card holds and wherever they lie, the pack drawn
\* covers the whole request and none that does has a higher priority; without
\* an answer no pack covers it.
THEOREM ResolvesToCover == Spec => []ResolvedPackCoversRequest
  BY Invariance, InvResolves, PTL

\* The same packs in any order, and some of them more than once, resolve alike.
LEMMA SamePacksSameAnswer ==
  ASSUME IInv, NEW other \in Seq(Manifests),
         {other[i] : i \in DOMAIN other} = {packs[i] : i \in DOMAIN packs},
         NEW q, NEW z
  PROVE  ResolvePack(other, q, z) = ResolvePack(packs, q, z)
<1>1. CASE ~ValidBounds(q) \/ ~ZoomIsValid(z)
  BY <1>1, Zenon DEF ResolvePack
<1>2. CASE ValidBounds(q) /\ ZoomIsValid(z)
  <2> DEFINE found == EligibleOf(packs, q, z)
  <2>1. packs \in Seq(Manifests) /\ \A i \in DOMAIN packs : packs[i] \in Manifests
    BY LenProperties, ElementOfSeq DEF IInv
  <2>2. EligibleOf(other, q, z) = found
    BY DEF EligibleOf
  <2>3. \A p, r \in found : Best(p, found) /\ Best(r, found) => p = r
    <3> SUFFICES ASSUME NEW p \in found, NEW r \in found, Best(p, found), Best(r, found)
                 PROVE  p = r
      OBVIOUS
    <3>1. PICK i \in DOMAIN packs, j \in DOMAIN packs : p = packs[i] /\ r = packs[j]
      BY DEF EligibleOf
    <3>2. p.pack_id = r.pack_id
      BY <2>1, <3>1, ManifestAssumption DEF Best
    <3> QED
      BY <3>1, <3>2 DEF IInv
  <2> HIDE DEF found
  <2>4. IF found = {} THEN ResolvePack(packs, q, z) = NoPack
        ELSE ResolvePack(packs, q, z) \in found /\ Best(ResolvePack(packs, q, z), found)
    BY <1>2, <2>1, ResolveIsBest DEF found
  <2>5. IF found = {} THEN ResolvePack(other, q, z) = NoPack
        ELSE ResolvePack(other, q, z) \in found /\ Best(ResolvePack(other, q, z), found)
    BY <1>2, <2>2, ResolveIsBest
  <2> QED
    BY <2>3, <2>4, <2>5
<1> QED
  BY <1>1, <1>2

LEMMA InvOrder == IInv => OrderDoesNotMatter
<1> SUFFICES ASSUME IInv, NEW q \in Requests, NEW z \in 0..MaxZoom
             PROVE  ResolvePack(Seqs!Reverse(packs), q, z) = ResolvePack(packs, q, z)
  BY DEF OrderDoesNotMatter
<1> DEFINE n == Len(packs)
           back == Seqs!Reverse(packs)
<1>1. n \in Nat /\ DOMAIN packs = 1..n /\ \A i \in 1..n : packs[i] \in Manifests
  BY LenProperties, ElementOfSeq DEF IInv
<1> HIDE DEF n
<1>2. back = [i \in 1..n |-> packs[n - i + 1]]
  BY DEF Seqs!Reverse, n
<1>3. back \in Seq(Manifests) /\ DOMAIN back = 1..n
  BY <1>1, <1>2
<1>4. {back[i] : i \in DOMAIN back} = {packs[i] : i \in DOMAIN packs}
  <2>1. \A i \in 1..n : n - i + 1 \in 1..n /\ n - (n - i + 1) + 1 = i
    BY <1>1
  <2>2. {back[i] : i \in 1..n} = {packs[i] : i \in 1..n}
    BY <1>2, <2>1
  <2> HIDE DEF back
  <2> QED
    BY <1>1, <1>3, <2>2
<1> HIDE DEF back
<1>5. ResolvePack(back, q, z) = ResolvePack(packs, q, z)
  BY <1>3, <1>4, SamePacksSameAnswer
<1> QED
  BY <1>5 DEF back

\* Whatever order the card's directories are listed in, every request is drawn
\* from the same pack: two packs never tie.
THEOREM OrderIsImmaterial == Spec => []OrderDoesNotMatter
  BY Invariance, InvOrder, PTL

-----------------------------------------------------------------------------
\* The library's runs are runs of the catalogue that other topics' steps leave
\* alone.
LEMMA LibraryRunsTheCatalog == LibrarySpec => Spec
<1>1. LibraryInit => Init
  BY DEF LibraryInit
<1>2. [LibraryNext]_libraryVars => [Next]_packs
  BY DEF LibraryNext, libraryVars
<1> QED
  BY <1>1, <1>2, PTL DEF LibrarySpec, Spec

\* ResolvePack, on the catalogue's topic: the pack drawn covers the request
\* and no pack that does has a higher priority.
THEOREM LibraryResolvesToCover == LibrarySpec => []ResolvedCovers
<1>1. ResolvedPackCoversRequest => ResolvedCovers
  BY DEF ResolvedCovers
<1> QED
  BY <1>1, LibraryRunsTheCatalog, ResolvesToCover, PTL

\* And it is the same pack whatever the order the card lists them in.
THEOREM LibraryOrderIsImmaterial == LibrarySpec => []ResolvedWhateverTheOrder
<1>1. OrderDoesNotMatter => ResolvedWhateverTheOrder
  BY DEF ResolvedWhateverTheOrder
<1> QED
  BY <1>1, LibraryRunsTheCatalog, OrderIsImmaterial, PTL

-----------------------------------------------------------------------------
(* The two searches of a directory.                                        *)

\* What a directory may be: columns of one length, whose runs fit their field.
Serialized(n) == Directory!Columns(Nat, 0..Word32 - 1, Nat, Nat, n)

\* The ids and offsets ReadDirectory accumulates, and what the columns' walks
\* hold at each entry.
IdsOf(cols) ==
  CHOOSE id : id = [i \in 0..Len(cols.deltas) |-> IF i = 0 THEN 0 ELSE id[i - 1] + cols.deltas[i]]

OffsetsOf(cols) ==
  CHOOSE offset : offset =
    [i \in 1..Len(cols.deltas) |->
       IF cols.offsets[i] # 0 THEN cols.offsets[i] - 1
       ELSE IF i = 1 THEN 0
       ELSE offset[i - 1] + (cols.lengths[i - 1] % Word32)]

IdWalk(cols, tile_id) ==
  CHOOSE walk : walk =
    [i \in 0..Len(cols.deltas) |->
       IF i = 0 THEN [running |-> 0, chosen |-> 0, chosen_id |-> 0]
       ELSE LET running == walk[i - 1].running + cols.deltas[i]
            IN  IF running <= tile_id
                THEN [running |-> running, chosen |-> i, chosen_id |-> running]
                ELSE [walk[i - 1] EXCEPT !.running = running]]

OffsetWalk(cols, chosen) ==
  CHOOSE walk : walk =
    [i \in 0..chosen |->
       IF i = 0 THEN [prev_offset |-> 0, prev_length |-> 0]
       ELSE [prev_offset |-> IF cols.offsets[i] = 0
                             THEN walk[i - 1].prev_offset + walk[i - 1].prev_length
                             ELSE cols.offsets[i] - 1,
             prev_length |-> cols.lengths[i] % Word32]]

LEMMA DirectoryUnfolds ==
  /\ \A cols : Directory!ReadDirectory(cols) =
       [i \in 1..Len(cols.deltas) |->
          [tile_id |-> IdsOf(cols)[i], run_length |-> cols.runs[i] % Word32,
           length |-> cols.lengths[i] % Word32, offset |-> OffsetsOf(cols)[i]]]
  /\ \A cols, id : Directory!WalkIds(cols, id) = IdWalk(cols, id)[Len(cols.deltas)]
  /\ \A cols, c : Directory!WalkOffsets(cols, c) = OffsetWalk(cols, c)[c].prev_offset
<1>1. ASSUME NEW cols
      PROVE  Directory!ReadDirectory(cols) =
               [i \in 1..Len(cols.deltas) |->
                  [tile_id |-> IdsOf(cols)[i], run_length |-> cols.runs[i] % Word32,
                   length |-> cols.lengths[i] % Word32, offset |-> OffsetsOf(cols)[i]]]
  BY DEF Directory!ReadDirectory, IdsOf, OffsetsOf
<1>2. ASSUME NEW cols, NEW id
      PROVE  Directory!WalkIds(cols, id) = IdWalk(cols, id)[Len(cols.deltas)]
  BY DEF Directory!WalkIds, IdWalk
<1>3. ASSUME NEW cols, NEW c
      PROVE  Directory!WalkOffsets(cols, c) = OffsetWalk(cols, c)[c].prev_offset
  BY DEF Directory!WalkOffsets, OffsetWalk
<1> QED
  BY <1>1, <1>2, <1>3

LEMMA ColumnsAre ==
  ASSUME NEW n \in Nat, NEW cols \in Serialized(n)
  PROVE  /\ Len(cols.deltas) = n
         /\ \A i \in 1..n : /\ cols.deltas[i] \in Nat /\ cols.runs[i] \in 0..Word32 - 1
                            /\ cols.lengths[i] \in Nat /\ cols.offsets[i] \in Nat
                            /\ cols.lengths[i] % Word32 \in Nat /\ cols.runs[i] % Word32 = cols.runs[i]
<1>1. /\ cols.deltas \in [1..n -> Nat] /\ cols.runs \in [1..n -> 0..Word32 - 1]
      /\ cols.lengths \in [1..n -> Nat] /\ cols.offsets \in [1..n -> Nat]
  BY DEF Serialized, Directory!Columns
<1>2. Len(cols.deltas) = n
  <2>1. cols.deltas \in Seq(Nat) /\ DOMAIN cols.deltas = 1..n
    BY <1>1, SeqDef
  <2> QED
    BY <2>1, LenProperties
<1>3. ASSUME NEW i \in 1..n
      PROVE  /\ cols.deltas[i] \in Nat /\ cols.runs[i] \in 0..Word32 - 1
             /\ cols.lengths[i] \in Nat /\ cols.offsets[i] \in Nat
             /\ cols.lengths[i] % Word32 \in Nat /\ cols.runs[i] % Word32 = cols.runs[i]
  <2>1. /\ cols.deltas[i] \in Nat /\ cols.runs[i] \in 0..Word32 - 1
        /\ cols.lengths[i] \in Nat /\ cols.offsets[i] \in Nat
    BY <1>1
  <2>2. Word32 \in Nat \ {0}
    BY DirectoryAssumption
  <2>3. \A w \in Nat \ {0}, r \in Nat : r % w \in Nat /\ (r < w => r % w = r)
    OBVIOUS
  <2> QED
    BY <2>1, <2>2, <2>3
<1> QED
  BY <1>2, <1>3

\* Ids accumulate the deltas, and so never descend.
LEMMA IdsAccumulate ==
  ASSUME NEW n \in Nat, NEW cols \in Serialized(n), NEW id, id = IdsOf(cols)
  PROVE  /\ id \in [0..n -> Nat] /\ id[0] = 0
         /\ \A i \in 1..n : id[i] = id[i - 1] + cols.deltas[i]
         /\ \A i \in 0..n : \A k \in 0..i : id[k] <= id[i]
<1> DEFINE Accumulates(f) == f = [i \in 0..n |-> IF i = 0 THEN 0 ELSE f[i - 1] + cols.deltas[i]]
           zero == 0
           step == [q \in Nat \X (1..n) |-> q[1] + cols.deltas[q[2]]]
<1>1. Len(cols.deltas) = n /\ \A i \in 1..n : cols.deltas[i] \in Nat
  BY ColumnsAre
<1>2. id = CHOOSE f : Accumulates(f)
  BY <1>1 DEF IdsOf
<1>3. PICK g \in [0..n -> Nat] : Recursion(g, n, zero, step)
  <2>1. n \in Nat /\ zero \in Nat /\ step \in [Nat \X (1..n) -> Nat]
    BY <1>1
  <2> HIDE DEF zero, step
  <2> QED
    BY ONLY <2>1, RecursionExists
<1>4. Accumulates(g)
  <2>1. ASSUME NEW i \in 1..n PROVE g[i] = g[i - 1] + cols.deltas[i]
    <3>1. g[i] = step[<<g[i - 1], i>>] /\ <<g[i - 1], i>> \in Nat \X (1..n)
      <4> HIDE DEF step
      <4>1. i \in 1..n /\ i - 1 \in 0..n
        OBVIOUS
      <4> QED
        BY <1>3, <4>1 DEF Recursion
    <3> QED
      BY <3>1
  <2>2. g[0] = 0
    BY <1>3 DEF Recursion
  <2> QED
    BY <2>1, <2>2
<1>5. Accumulates(id)
  <2> HIDE DEF Accumulates
  <2> QED
    BY <1>2, <1>4
<1>6. id[0] = 0 /\ \A i \in 1..n : id[i] = id[i - 1] + cols.deltas[i]
  BY <1>5
<1> DEFINE T == {i \in 0..n : id[i] \in Nat /\ \A k \in 0..i : id[k] \in Nat /\ id[k] <= id[i]}
<1>7. 0 \in T
  BY <1>6
<1>8. ASSUME NEW i \in 0..n - 1, i \in T PROVE i + 1 \in T
  <2>1. i + 1 \in 1..n /\ i + 1 \in 0..n /\ (i + 1) - 1 = i
    OBVIOUS
  <2>2. id[i + 1] = id[i] + cols.deltas[i + 1] /\ cols.deltas[i + 1] \in Nat
    BY <1>1, <1>6, <2>1
  <2>3. id[i] \in Nat /\ \A k \in 0..i : id[k] \in Nat /\ id[k] <= id[i]
    BY <1>8
  <2>4. id[i + 1] \in Nat /\ id[i] <= id[i + 1]
    BY <2>2, <2>3, SMTT(30)
  <2>5. ASSUME NEW k \in 0..i + 1 PROVE id[k] \in Nat /\ id[k] <= id[i + 1]
    BY <2>3, <2>4, SMTT(30)
  <2> QED
    BY <2>1, <2>4, <2>5
<1>9. \A i \in 0..n : i \in T
  <2> HIDE DEF T
  <2> QED
    BY <1>7, <1>8, UpTo
<1>10. id = [i \in 0..n |-> id[i]]
  BY <1>5
<1> QED
  BY <1>6, <1>9, <1>10

LEMMA OffsetsFollow ==
  ASSUME NEW n \in Nat, NEW cols \in Serialized(n), NEW offset, offset = OffsetsOf(cols)
  PROVE  /\ \A i \in 1..n : offset[i] \in Nat
         /\ \A i \in 1..n : offset[i] = IF cols.offsets[i] # 0 THEN cols.offsets[i] - 1
                                        ELSE IF i = 1 THEN 0
                                        ELSE offset[i - 1] + (cols.lengths[i - 1] % Word32)
<1> DEFINE e(f, i) == IF cols.offsets[i] # 0 THEN cols.offsets[i] - 1
                      ELSE IF i = 1 THEN 0
                      ELSE f[i - 1] + (cols.lengths[i - 1] % Word32)
           Follows(f) == f = [i \in 1..n |-> e(f, i)]
           zero == 0
           step == [q \in Nat \X (1..n) |->
                      IF cols.offsets[q[2]] # 0 THEN cols.offsets[q[2]] - 1
                      ELSE IF q[2] = 1 THEN 0
                      ELSE q[1] + (cols.lengths[q[2] - 1] % Word32)]
<1>1. Len(cols.deltas) = n /\ \A i \in 1..n : cols.offsets[i] \in Nat /\ cols.lengths[i] % Word32 \in Nat
  BY ColumnsAre
<1>2. offset = CHOOSE f : Follows(f)
  BY <1>1 DEF OffsetsOf
<1>3. PICK g \in [0..n -> Nat] : Recursion(g, n, zero, step)
  <2>1. ASSUME NEW q \in Nat \X (1..n) PROVE step[q] \in Nat
    <3>0. step[q] = IF cols.offsets[q[2]] # 0 THEN cols.offsets[q[2]] - 1
                    ELSE IF q[2] = 1 THEN 0
                    ELSE q[1] + (cols.lengths[q[2] - 1] % Word32)
      OBVIOUS
    <3>1. q[1] \in Nat /\ q[2] \in 1..n /\ cols.offsets[q[2]] \in Nat
      BY <1>1
    <3>2. q[2] # 1 => q[2] - 1 \in 1..n
      BY <3>1
    <3>3. q[2] # 1 => cols.lengths[q[2] - 1] % Word32 \in Nat
      BY <1>1, <3>2
    <3> HIDE DEF step
    <3> QED
      BY <3>0, <3>1, <3>3
  <2>2. step = [q \in Nat \X (1..n) |-> step[q]]
    OBVIOUS
  <2> HIDE DEF zero, step
  <2>3. n \in Nat /\ zero \in Nat /\ step \in [Nat \X (1..n) -> Nat]
    BY <2>1, <2>2 DEF zero
  <2> QED
    BY ONLY <2>3, RecursionExists
<1> DEFINE h == [i \in 1..n |-> g[i]]
<1>4. Follows(h)
  <2>1. ASSUME NEW i \in 1..n PROVE h[i] = e(h, i)
    <3>1. g[i] = step[<<g[i - 1], i>>] /\ <<g[i - 1], i>> \in Nat \X (1..n)
      <4> HIDE DEF step
      <4>1. i \in 1..n /\ i - 1 \in 0..n
        OBVIOUS
      <4> QED
        BY <1>3, <4>1 DEF Recursion
    <3>2. g[i] = e(g, i)
      <4> DEFINE q == <<g[i - 1], i>>
      <4>1. step[q] = IF cols.offsets[q[2]] # 0 THEN cols.offsets[q[2]] - 1
                      ELSE IF q[2] = 1 THEN 0
                      ELSE q[1] + (cols.lengths[q[2] - 1] % Word32)
        BY <3>1
      <4>2. q[1] = g[i - 1] /\ q[2] = i
        OBVIOUS
      <4> HIDE DEF step, q
      <4> QED
        BY <3>1, <4>1, <4>2 DEF q
    <3>3. i # 1 => h[i - 1] = g[i - 1]
      OBVIOUS
    <3> QED
      BY <3>2, <3>3
  <2>2. h = [i \in 1..n |-> h[i]]
    OBVIOUS
  <2> HIDE DEF h, e
  <2> QED
    BY <2>1, <2>2
<1>5. Follows(offset)
  <2> HIDE DEF Follows, h
  <2> QED
    BY <1>2, <1>4
<1>6. \A i \in 1..n : offset[i] = e(offset, i)
  <2> HIDE DEF e
  <2> QED
    BY <1>5
<1> DEFINE T == {i \in 0..n : i = 0 \/ offset[i] \in Nat}
<1>7. 0 \in T
  OBVIOUS
<1>8. ASSUME NEW i \in 0..n - 1, i \in T PROVE i + 1 \in T
  <2>1. i + 1 \in 1..n /\ i + 1 \in 0..n /\ (i + 1) - 1 = i
    OBVIOUS
  <2>2. offset[i + 1] = e(offset, i + 1) /\ cols.offsets[i + 1] \in Nat
    BY <1>1, <1>6, <2>1
  <2>3. i # 0 => i \in 1..n /\ offset[i] \in Nat /\ cols.lengths[i] % Word32 \in Nat
    BY <1>1, <1>8, SMTT(30)
  <2>4. offset[i + 1] \in Nat
    <3>1. CASE i = 0
      BY <2>1, <2>2, <3>1
    <3>2. CASE i # 0
      <4>1. offset[(i + 1) - 1] + (cols.lengths[(i + 1) - 1] % Word32) \in Nat
        BY <2>1, <2>3, <3>2
      <4> QED
        BY <2>2, <4>1, SMTT(30)
    <3> QED
      BY <3>1, <3>2
  <2> QED
    BY <2>1, <2>4
<1>9. \A i \in 0..n : i \in T
  <2> HIDE DEF T
  <2> QED
    BY <1>7, <1>8, UpTo
<1>10. \A i \in 1..n : offset[i] \in Nat
  BY <1>9
<1> QED
  BY <1>6, <1>10

\* Column 1's walk keeps the last entry whose id is not after the one sought.
LEMMA WalkChoosesTheLast ==
  ASSUME NEW n \in Nat, NEW cols \in Serialized(n), NEW id, id = IdsOf(cols), NEW sought \in Nat,
         NEW walk, walk = IdWalk(cols, sought)[n]
  PROVE  /\ walk.chosen \in 0..n /\ \A i \in 1..n : id[i] <= sought => i <= walk.chosen
         /\ walk.chosen # 0 => walk.chosen_id = id[walk.chosen] /\ id[walk.chosen] <= sought
<1> DEFINE w == IdWalk(cols, sought)
           State == [running : Nat, chosen : 0..n, chosen_id : Nat]
           start == [running |-> 0, chosen |-> 0, chosen_id |-> 0]
           Walked(s, i) == LET running == s.running + cols.deltas[i]
                        IN  IF running <= sought
                            THEN [running |-> running, chosen |-> i, chosen_id |-> running]
                            ELSE [s EXCEPT !.running = running]
           Walks(f) == f = [i \in 0..n |-> IF i = 0 THEN start ELSE Walked(f[i - 1], i)]
           step == [q \in State \X (1..n) |-> Walked(q[1], q[2])]
<1>1. Len(cols.deltas) = n /\ \A i \in 1..n : cols.deltas[i] \in Nat
  BY ColumnsAre
<1>2. w = CHOOSE f : Walks(f)
  BY <1>1 DEF IdWalk
<1>3. ASSUME NEW s \in State, NEW i \in 1..n
      PROVE  /\ Walked(s, i) \in State /\ Walked(s, i).running = s.running + cols.deltas[i]
             /\ IF s.running + cols.deltas[i] <= sought
                THEN Walked(s, i).chosen = i /\ Walked(s, i).chosen_id = s.running + cols.deltas[i]
                ELSE Walked(s, i).chosen = s.chosen /\ Walked(s, i).chosen_id = s.chosen_id
  <2>1. s.running + cols.deltas[i] \in Nat /\ i \in 0..n
    BY <1>1
  <2> QED
    BY <2>1
<1> HIDE DEF Walked
<1>4. PICK g \in [0..n -> State] : Recursion(g, n, start, step)
  <2>1. n \in Nat /\ start \in State
    OBVIOUS
  <2> HIDE DEF start, State
  <2>2. step \in [State \X (1..n) -> State]
    BY <1>3
  <2> HIDE DEF step
  <2> QED
    BY ONLY <2>1, <2>2, RecursionExists
<1> HIDE DEF start, State
<1>5. Walks(g)
  <2>1. ASSUME NEW i \in 1..n PROVE g[i] = Walked(g[i - 1], i)
    <3>1. g[i] = step[<<g[i - 1], i>>] /\ <<g[i - 1], i>> \in State \X (1..n)
      <4> HIDE DEF step
      <4>1. i \in 1..n /\ i - 1 \in 0..n
        OBVIOUS
      <4> QED
        BY <1>4, <4>1 DEF Recursion
    <3> QED
      BY <3>1
  <2>2. g[0] = start
    BY <1>4 DEF Recursion
  <2> QED
    BY <2>1, <2>2
<1>6. Walks(w)
  <2> HIDE DEF Walks, w
  <2> QED
    BY <1>2, <1>5
<1> HIDE DEF w
<1>7. w[0] = start /\ \A i \in 1..n : w[i] = Walked(w[i - 1], i)
  BY <1>6
<1>8. id \in [0..n -> Nat] /\ id[0] = 0 /\ \A i \in 1..n : id[i] = id[i - 1] + cols.deltas[i]
  BY IdsAccumulate
<1> DEFINE Last(i) == /\ w[i] \in State /\ w[i].running = id[i] /\ w[i].chosen \in 0..i
                      /\ \A k \in 1..i : id[k] <= sought => k <= w[i].chosen
                      /\ w[i].chosen # 0 => /\ w[i].chosen_id = id[w[i].chosen]
                                            /\ id[w[i].chosen] <= sought
           T == {i \in 0..n : Last(i)}
<1>9. 0 \in T
  <2>1. w[0] \in State /\ w[0].running = 0 /\ w[0].chosen = 0
    BY <1>7 DEF start, State
  <2>2. \A k \in 1..0 : id[k] <= sought => k <= w[0].chosen
    OBVIOUS
  <2> QED
    BY <1>8, <2>1, <2>2
<1>10. ASSUME NEW i \in 0..n - 1, i \in T PROVE i + 1 \in T
  <2>1. i + 1 \in 1..n /\ i + 1 \in 0..n /\ (i + 1) - 1 = i
    OBVIOUS
  <2>2. Last(i)
    BY <1>10
  <2>3. w[i + 1] = Walked(w[i], i + 1) /\ id[i + 1] = w[i].running + cols.deltas[i + 1]
    BY <1>7, <1>8, <2>1, <2>2
  <2>4. /\ w[i + 1] \in State /\ w[i + 1].running = id[i + 1]
        /\ IF id[i + 1] <= sought
           THEN w[i + 1].chosen = i + 1 /\ w[i + 1].chosen_id = id[i + 1]
           ELSE w[i + 1].chosen = w[i].chosen /\ w[i + 1].chosen_id = w[i].chosen_id
    <3>1. w[i] \in State
      BY <2>2
    <3> HIDE DEF Last
    <3> QED
      BY <1>3, <2>1, <2>3, <3>1, SMTT(30)
  <2>5. CASE id[i + 1] <= sought
    BY <2>1, <2>4, <2>5
  <2>6. CASE ~(id[i + 1] <= sought)
    <3>1. w[i + 1].chosen = w[i].chosen /\ w[i + 1].chosen_id = w[i].chosen_id
      BY <2>4, <2>6
    <3>2. \A k \in 1..i + 1 : id[k] <= sought => k <= w[i].chosen
      BY <2>2, <2>6
    <3>3. w[i].chosen \in 0..i + 1
      BY <2>2
    <3> QED
      BY <2>1, <2>2, <2>4, <3>1, <3>2, <3>3
  <2> QED
    BY <2>5, <2>6
<1>11. \A i \in 0..n : i \in T
  <2> HIDE DEF T
  <2> QED
    BY <1>9, <1>10, UpTo
<1>12. Last(n)
  BY <1>11
<1> QED
  BY <1>12 DEF w

\* Column 4's walk accumulates the offset ReadDirectory gives the entry.
LEMMA WalkFindsTheOffset ==
  ASSUME NEW n \in Nat, NEW cols \in Serialized(n), NEW c \in 1..n
  PROVE  OffsetWalk(cols, c)[c].prev_offset = OffsetsOf(cols)[c]
<1> DEFINE w == OffsetWalk(cols, c)
           offset == OffsetsOf(cols)
           State == [prev_offset : Nat, prev_length : Nat]
           start == [prev_offset |-> 0, prev_length |-> 0]
           Walked(s, i) == [prev_offset |-> IF cols.offsets[i] = 0 THEN s.prev_offset + s.prev_length
                                         ELSE cols.offsets[i] - 1,
                         prev_length |-> cols.lengths[i] % Word32]
           Walks(f) == f = [i \in 0..c |-> IF i = 0 THEN start ELSE Walked(f[i - 1], i)]
           step == [q \in State \X (1..c) |-> Walked(q[1], q[2])]
<1>1. \A i \in 1..c : i \in 1..n /\ cols.offsets[i] \in Nat /\ cols.lengths[i] % Word32 \in Nat
  BY ColumnsAre
<1>2. w = CHOOSE f : Walks(f)
  BY DEF OffsetWalk
<1>3. ASSUME NEW s \in State, NEW i \in 1..c
      PROVE  /\ Walked(s, i) \in State /\ Walked(s, i).prev_length = cols.lengths[i] % Word32
             /\ Walked(s, i).prev_offset = IF cols.offsets[i] = 0 THEN s.prev_offset + s.prev_length
                                        ELSE cols.offsets[i] - 1
  <2>1. cols.offsets[i] \in Nat /\ cols.lengths[i] % Word32 \in Nat
    BY <1>1
  <2> QED
    BY <2>1
<1> HIDE DEF Walked
<1>4. PICK g \in [0..c -> State] : Recursion(g, c, start, step)
  <2>1. c \in Nat /\ start \in State
    OBVIOUS
  <2> HIDE DEF start, State
  <2>2. step \in [State \X (1..c) -> State]
    BY <1>3
  <2> HIDE DEF step
  <2> QED
    BY ONLY <2>1, <2>2, RecursionExists
<1> HIDE DEF start, State
<1>5. Walks(g)
  <2>1. ASSUME NEW i \in 1..c PROVE g[i] = Walked(g[i - 1], i)
    <3>1. g[i] = step[<<g[i - 1], i>>] /\ <<g[i - 1], i>> \in State \X (1..c)
      <4> HIDE DEF step
      <4>1. i \in 1..c /\ i - 1 \in 0..c
        OBVIOUS
      <4> QED
        BY <1>4, <4>1 DEF Recursion
    <3> QED
      BY <3>1
  <2>2. g[0] = start
    BY <1>4 DEF Recursion
  <2> QED
    BY <2>1, <2>2
<1>6. Walks(w)
  <2> HIDE DEF Walks, w
  <2> QED
    BY <1>2, <1>5
<1> HIDE DEF w
<1>7. w[0] = start /\ \A i \in 1..c : w[i] = Walked(w[i - 1], i)
  BY <1>6
<1>8. \A i \in 1..n : /\ offset[i] \in Nat
                      /\ offset[i] = IF cols.offsets[i] # 0 THEN cols.offsets[i] - 1
                                     ELSE IF i = 1 THEN 0
                                     ELSE offset[i - 1] + (cols.lengths[i - 1] % Word32)
  BY OffsetsFollow
<1> HIDE DEF offset
<1> DEFINE Reached(i) == /\ w[i] \in State
                         /\ i = 0 => w[i] = start
                         /\ i # 0 => /\ w[i].prev_offset = offset[i]
                                     /\ w[i].prev_length = cols.lengths[i] % Word32
           T == {i \in 0..c : Reached(i)}
<1>9. 0 \in T
  BY <1>7 DEF start, State
<1>10. ASSUME NEW i \in 0..c - 1, i \in T PROVE i + 1 \in T
  <2>1. i + 1 \in 1..c /\ i + 1 \in 0..c /\ i + 1 \in 1..n /\ (i + 1) - 1 = i
    OBVIOUS
  <2>2. Reached(i)
    BY <1>10
  <2>3. w[i + 1] = Walked(w[i], i + 1)
    BY <1>7, <2>1
  <2>4. /\ w[i + 1] \in State /\ w[i + 1].prev_length = cols.lengths[i + 1] % Word32
        /\ w[i + 1].prev_offset = IF cols.offsets[i + 1] = 0 THEN w[i].prev_offset + w[i].prev_length
                                  ELSE cols.offsets[i + 1] - 1
    <3>1. w[i] \in State
      BY <2>2
    <3> HIDE DEF Reached
    <3> QED
      BY <1>3, <2>1, <2>3, <3>1, Zenon
  <2>5. offset[i + 1] = IF cols.offsets[i + 1] # 0 THEN cols.offsets[i + 1] - 1
                        ELSE IF i + 1 = 1 THEN 0
                        ELSE offset[(i + 1) - 1] + (cols.lengths[(i + 1) - 1] % Word32)
    BY <1>8, <2>1
  <2>6. w[i + 1].prev_offset = offset[i + 1]
    <3>1. CASE i = 0
      <4>1. w[i].prev_offset = 0 /\ w[i].prev_length = 0
        BY <2>2, <3>1 DEF start
      <4> QED
        BY <2>4, <2>5, <3>1, <4>1
    <3>2. CASE i # 0
      <4>1. w[i].prev_offset = offset[i] /\ w[i].prev_length = cols.lengths[i] % Word32
        BY <2>2, <3>2
      <4>2. i + 1 # 1
        BY <3>2
      <4> QED
        BY <2>1, <2>4, <2>5, <4>1, <4>2
    <3> QED
      BY <3>1, <3>2
  <2> QED
    BY <2>1, <2>4, <2>6
<1>11. \A i \in 0..c : i \in T
  <2> HIDE DEF T
  <2> QED
    BY <1>9, <1>10, UpTo
<1>12. Reached(c)
  BY <1>11
<1> QED
  BY <1>12 DEF w, offset

\* A leaf that is walked where it is serialized and the same directory parsed
\* and searched by halves answer every id alike: the entry, its kind, its
\* length and its accumulated offset, for directories of any size.
LEMMA SearchesAgreeOnAll ==
  ASSUME NEW n \in Nat, NEW cols \in Serialized(n), NEW sought \in Nat
  PROVE  Directory!SearchesAgree(cols, sought)
<1> DEFINE id == IdsOf(cols)
           dir == Directory!ReadDirectory(cols)
           walk == IdWalk(cols, sought)[n]
           c == walk.chosen
           notAfter == {i \in DOMAIN dir : dir[i].tile_id <= sought}
           last == CHOOSE i \in notAfter : \A j \in notAfter : j <= i
           e == dir[last]
           run == cols.runs[c]
<1>1. Len(cols.deltas) = n
  BY ColumnsAre
<1>2. dir = [i \in 1..n |-> [tile_id |-> id[i], run_length |-> cols.runs[i] % Word32,
                             length |-> cols.lengths[i] % Word32, offset |-> OffsetsOf(cols)[i]]]
  BY <1>1, DirectoryUnfolds
<1>3. /\ c \in 0..n /\ \A i \in 1..n : id[i] <= sought => i <= c
      /\ c # 0 => walk.chosen_id = id[c] /\ id[c] <= sought
  BY WalkChoosesTheLast
<1>4. id \in [0..n -> Nat]
  BY IdsAccumulate
<1>5. Directory!FindEntryInSerialized(cols, sought)
        = IF c = 0 \/ (run > 0 /\ sought >= walk.chosen_id + run) THEN Directory!NoEntry
          ELSE [kind |-> IF run = 0 THEN "leaf" ELSE "tile",
                entry |-> [tile_id |-> walk.chosen_id, run_length |-> run % Word32,
                           length |-> cols.lengths[c] % Word32,
                           offset |-> Directory!WalkOffsets(cols, c)]]
  <2>1. Directory!WalkIds(cols, sought) = walk
    BY <1>1, DirectoryUnfolds
  <2> QED
    BY <2>1 DEF Directory!FindEntryInSerialized
<1>6. Directory!FindEntry(dir, sought)
        = IF notAfter = {} THEN Directory!NoEntry
          ELSE IF e.run_length = 0 \/ sought < e.tile_id + e.run_length
               THEN Directory!Found(e) ELSE Directory!NoEntry
  BY DEF Directory!FindEntry
<1>7. notAfter = {i \in 1..n : id[i] <= sought}
  BY <1>2
<1> HIDE DEF dir, id, walk
<1>8. CASE c = 0
  <2>1. notAfter = {}
    BY <1>3, <1>7, <1>8
  <2> QED
    BY <1>5, <1>6, <1>8, <2>1 DEF Directory!SearchesAgree, dir
<1>9. CASE c # 0
  <2>1. c \in notAfter /\ \A j \in notAfter : j <= c
    BY <1>3, <1>7, <1>9
  <2>2. notAfter \in SUBSET Nat
    BY <1>7
  <2>3. last = c
    <3> DEFINE s == notAfter
    <3>1. c \in s /\ s \in SUBSET Nat /\ \A j \in s : j <= c
      BY <2>1, <2>2
    <3> HIDE DEF s, c
    <3>2. last \in s /\ \A j \in s : j <= last
      BY <3>1 DEF s
    <3>3. last \in Nat /\ c \in Nat /\ c <= last /\ last <= c
      BY <3>1, <3>2
    <3> QED
      BY <3>3
  <2>4. c \in 1..n /\ run \in Nat /\ run % Word32 = run
    <3>1. c \in 1..n
      BY <1>3, <1>9
    <3> QED
      BY <3>1, ColumnsAre
  <2>5. /\ e.tile_id = id[c] /\ e.run_length = run
        /\ e = [tile_id |-> id[c], run_length |-> run,
                length |-> cols.lengths[c] % Word32, offset |-> OffsetsOf(cols)[c]]
    BY <1>2, <2>3, <2>4, Zenon
  <2>6. Directory!WalkOffsets(cols, c) = OffsetsOf(cols)[c]
    <3> HIDE DEF c
    <3> QED
      BY <2>4, DirectoryUnfolds, WalkFindsTheOffset
  <2>7. walk.chosen_id = id[c] /\ id[c] \in Nat
    <3>1. c \in 0..n
      BY <1>3
    <3> QED
      BY <1>3, <1>4, <1>9, <3>1
  <2>8. notAfter # {}
    BY <2>1
  <2> HIDE DEF c, run, e, notAfter
  <2>9. Directory!FindEntryInSerialized(cols, sought)
          = IF run > 0 /\ sought >= id[c] + run THEN Directory!NoEntry
            ELSE [kind |-> IF run = 0 THEN "leaf" ELSE "tile", entry |-> e]
    BY <1>5, <1>9, <2>4, <2>5, <2>6, <2>7
  <2>10. Directory!FindEntry(dir, sought)
           = IF run = 0 \/ sought < id[c] + run
             THEN [kind |-> IF run = 0 THEN "leaf" ELSE "tile", entry |-> e]
             ELSE Directory!NoEntry
    BY <1>6, <2>5, <2>8 DEF Directory!Found
  <2>11. (run > 0 /\ sought >= id[c] + run) <=> ~(run = 0 \/ sought < id[c] + run)
    BY <2>4, <2>7
  <2> QED
    BY <2>9, <2>10, <2>11 DEF Directory!SearchesAgree, dir
<1> QED
  BY <1>8, <1>9

\* In a well-formed directory an entry ends before any later one begins.
LEMMA WellFormedAscends ==
  ASSUME NEW n \in Nat, NEW dir, DOMAIN dir = 1..n, Len(dir) = n, Directory!WellFormed(dir),
         \A i \in 1..n : dir[i].tile_id \in Nat /\ dir[i].run_length \in Nat
  PROVE  \A j \in 1..n : \A i \in 1..j - 1 : /\ dir[i].tile_id + dir[i].run_length <= dir[j].tile_id
                                             /\ dir[i].tile_id < dir[j].tile_id
<1> DEFINE Before(i, j) == /\ dir[i].tile_id + dir[i].run_length <= dir[j].tile_id
                           /\ dir[i].tile_id < dir[j].tile_id
           T == {j \in 0..n : \A i \in 1..j - 1 : Before(i, j)}
<1>1. 0 \in T
  OBVIOUS
<1>2. ASSUME NEW j \in 0..n - 1, j \in T PROVE j + 1 \in T
  <2>1. j + 1 \in 1..n /\ j + 1 \in 0..n /\ (j + 1) - 1 = j
    OBVIOUS
  <2>2. ASSUME NEW i \in 1..j PROVE Before(i, j + 1)
    <3>1. j \in 1..n /\ i \in 1..n /\ j + 1 \in 2..n
      BY <2>2
    <3>2. Before(j, j + 1)
      BY <2>1, <3>1 DEF Directory!WellFormed
    <3>3. i # j => i \in 1..j - 1
      BY <2>2
    <3>4. i # j => Before(i, j)
      BY <1>2, <3>3
    <3>5. /\ dir[i].tile_id \in Nat /\ dir[i].run_length \in Nat
          /\ dir[j].tile_id \in Nat /\ dir[j].run_length \in Nat /\ dir[j + 1].tile_id \in Nat
      BY <2>1, <3>1
    <3> QED
      BY <3>2, <3>4, <3>5, SMTT(30)
  <2> QED
    BY <2>1, <2>2
<1>3. \A j \in 0..n : j \in T
  <2> HIDE DEF T
  <2> QED
    BY <1>1, <1>2, UpTo
<1> QED
  BY <1>3

\* And the walk over a well-formed directory finds the one entry that claims an
\* id, or tells that none does.
LEMMA FindsTheClaimantInAll ==
  ASSUME NEW n \in Nat, NEW cols \in Serialized(n), NEW sought \in Nat
  PROVE  Directory!FindsTheClaimant(cols, sought)
<1> DEFINE id == IdsOf(cols)
           dir == Directory!ReadDirectory(cols)
           claimants == Directory!Claimants(dir, sought)
           answer == Directory!FindEntry(dir, sought)
           notAfter == {i \in DOMAIN dir : dir[i].tile_id <= sought}
           last == CHOOSE i \in notAfter : \A j \in notAfter : j <= i
<1>1. /\ dir = [i \in 1..n |-> [tile_id |-> id[i], run_length |-> cols.runs[i] % Word32,
                                length |-> cols.lengths[i] % Word32, offset |-> OffsetsOf(cols)[i]]]
      /\ id \in [0..n -> Nat]
      /\ \A i \in 1..n : cols.runs[i] % Word32 \in Nat
  <2>1. Len(cols.deltas) = n /\ \A i \in 1..n : cols.runs[i] % Word32 = cols.runs[i] /\ cols.runs[i] \in Nat
    BY ColumnsAre
  <2> QED
    BY <2>1, DirectoryUnfolds, IdsAccumulate
<1>2. Directory!FindEntryInSerialized(cols, sought) = answer
  BY SearchesAgreeOnAll DEF Directory!SearchesAgree
<1>3. /\ DOMAIN dir = 1..n
      /\ \A i \in 1..n : dir[i].tile_id \in Nat /\ dir[i].run_length \in Nat
  BY <1>1
<1>4. Len(dir) = n
  <2> DEFINE X == {dir[i] : i \in 1..n}
  <2> HIDE DEF dir
  <2>1. dir = [i \in 1..n |-> dir[i]]
    BY <1>1
  <2>2. \A i \in 1..n : dir[i] \in X
    OBVIOUS
  <2> HIDE DEF X
  <2>3. dir \in [1..n -> X]
    BY <2>1, <2>2
  <2>4. dir \in Seq(X)
    BY <2>3, SeqDef
  <2> QED
    BY <1>3, <2>4, LenProperties
<1>5. answer = IF notAfter = {} THEN Directory!NoEntry
               ELSE IF dir[last].run_length = 0 \/ sought < dir[last].tile_id + dir[last].run_length
                    THEN Directory!Found(dir[last]) ELSE Directory!NoEntry
  BY DEF Directory!FindEntry
<1>a. Directory!FindsTheClaimant(cols, sought) =
        (Directory!WellFormed(dir) =>
           /\ \A i, k \in claimants : i = k
           /\ (Directory!FindEntryInSerialized(cols, sought) = Directory!NoEntry) <=> (claimants = {})
           /\ \A i \in claimants :
                Directory!FindEntryInSerialized(cols, sought) = Directory!Found(dir[i]))
  BY DEF Directory!FindsTheClaimant
<1> SUFFICES ASSUME Directory!WellFormed(dir)
             PROVE  /\ \A i, k \in claimants : i = k
                    /\ (answer = Directory!NoEntry) <=> (claimants = {})
                    /\ \A i \in claimants : answer = Directory!Found(dir[i])
  <2> HIDE DEF dir, claimants, answer
  <2> QED
    BY <1>2, <1>a
<1> HIDE DEF dir
<1>6. \A j \in 1..n : \A i \in 1..j - 1 : /\ dir[i].tile_id + dir[i].run_length <= dir[j].tile_id
                                          /\ dir[i].tile_id < dir[j].tile_id
  <2>1. /\ n \in Nat /\ DOMAIN dir = 1..n /\ Len(dir) = n /\ Directory!WellFormed(dir)
        /\ \A i \in 1..n : dir[i].tile_id \in Nat /\ dir[i].run_length \in Nat
    BY <1>3, <1>4
  <2> QED
    BY ONLY <2>1, WellFormedAscends
<1>7. notAfter = {i \in 1..n : dir[i].tile_id <= sought}
  BY <1>3
<1>8. claimants = {i \in notAfter :
                     IF dir[i].run_length = 0 THEN i < n => sought < dir[i + 1].tile_id
                     ELSE sought < dir[i].tile_id + dir[i].run_length}
  BY <1>4, <1>7 DEF Directory!Claimants
<1>9. notAfter # {} => last \in notAfter /\ \A j \in notAfter : j <= last
  <2> SUFFICES ASSUME notAfter # {} PROVE \E m \in notAfter : \A j \in notAfter : j <= m
    OBVIOUS
  <2> DEFINE s == notAfter
  <2>1. s \in SUBSET (0..n) /\ s # {}
    BY <1>7
  <2> HIDE DEF s
  <2>2. \E m \in s : \A i \in s : i <= m
    BY <2>1, GreatestUpTo
  <2> QED
    BY <2>2 DEF s
<1> HIDE DEF last
\* Only the last of them can claim it.
<1>10. \A i \in claimants : i = last
  <2> SUFFICES ASSUME NEW i \in claimants PROVE i = last
    OBVIOUS
  <2>1. /\ i \in 1..n /\ i \in notAfter /\ last \in 1..n /\ i <= last
        /\ dir[last].tile_id <= sought /\ dir[last].tile_id \in Nat
    BY <1>3, <1>7, <1>8, <1>9
  <2> SUFFICES ASSUME i < last PROVE FALSE
    BY <2>1
  <2>2. i \in 1..last - 1 /\ i + 1 \in 1..n /\ i < n
    BY <2>1
  <2>3. /\ dir[i].tile_id + dir[i].run_length <= dir[last].tile_id
        /\ dir[i].tile_id \in Nat /\ dir[i].run_length \in Nat
    BY <1>3, <1>6, <2>1, <2>2
  <2>4. dir[i].run_length = 0
    BY <1>8, <2>1, <2>3
  <2>5. sought < dir[i + 1].tile_id
    BY <1>8, <2>2, <2>4
  <2>6. i + 1 # last => dir[i + 1].tile_id < dir[last].tile_id
    <3>1. i + 1 # last => i + 1 \in 1..last - 1
      BY <2>1, <2>2
    <3> QED
      BY <1>6, <2>1, <3>1
  <2>7. dir[i + 1].tile_id \in Nat
    BY <1>3, <2>2
  <2> QED
    BY <2>1, <2>5, <2>6, <2>7
<1>11. last \in notAfter => (last \in claimants <=> \/ dir[last].run_length = 0
                                                   \/ sought < dir[last].tile_id + dir[last].run_length)
  <2> SUFFICES ASSUME last \in notAfter
               PROVE  last \in claimants <=> \/ dir[last].run_length = 0
                                             \/ sought < dir[last].tile_id + dir[last].run_length
    OBVIOUS
  <2>1. last \in 1..n
    BY <1>7
  <2>2. last < n => sought < dir[last + 1].tile_id
    <3> SUFFICES ASSUME last < n PROVE sought < dir[last + 1].tile_id
      OBVIOUS
    <3>1. last + 1 \in 1..n /\ ~(last + 1 <= last)
      BY <2>1
    <3>2. last + 1 \notin notAfter
      BY <1>9, <3>1
    <3>3. dir[last + 1].tile_id \in Nat
      BY <1>3, <3>1
    <3> QED
      BY <1>7, <3>1, <3>2, <3>3
  <2> QED
    BY <1>8, <2>2
<1>12. Directory!Found(dir[last]) # Directory!NoEntry
  BY DEF Directory!Found, Directory!NoEntry
<1>13. \A i, k \in claimants : i = k
  BY <1>10
<1>14. (answer = Directory!NoEntry) <=> (claimants = {})
  <2>1. CASE notAfter = {}
    BY <1>5, <1>8, <2>1
  <2>2. CASE notAfter # {}
    <3>1. last \in notAfter
      BY <1>9, <2>2
    <3>2. claimants # {} <=> last \in claimants
      BY <1>10
    <3> HIDE DEF claimants, answer, notAfter
    <3> QED
      BY <1>5, <1>11, <1>12, <2>2, <3>1, <3>2
  <2> QED
    BY <2>1, <2>2
<1>15. \A i \in claimants : answer = Directory!Found(dir[i])
  <2> SUFFICES ASSUME NEW i \in claimants PROVE answer = Directory!Found(dir[i])
    OBVIOUS
  <2>1. i = last /\ last \in notAfter /\ notAfter # {} /\ last \in claimants
    BY <1>8, <1>10
  <2> HIDE DEF claimants, answer, notAfter
  <2> QED
    BY <1>5, <1>11, <2>1
<1> QED
  BY <1>13, <1>14, <1>15

\* Both, for every directory of any size and every id.
THEOREM SearchesFindTheClaimant ==
  \A n \in Nat : \A cols \in Serialized(n) : \A sought \in Nat :
    Directory!SearchesAgree(cols, sought) /\ Directory!FindsTheClaimant(cols, sought)
  BY SearchesAgreeOnAll, FindsTheClaimantInAll

\* The directories the library's run looks at are among them, and stay.
LEMMA DirectoriesStay ==
  LibrarySpec => [](topic = "directory" => input \in UNION {Serialized(n) : n \in Nat})
<1> DEFINE Kept == topic = "directory" => input \in UNION {Serialized(n) : n \in Nat}
<1>1. LibraryInit => Kept
  <2> SUFFICES ASSUME LibraryInit, topic = "directory" PROVE \E n \in Nat : input \in Serialized(n)
    OBVIOUS
  <2>1. input \in Directories
    BY DEF LibraryInit
  <2>2. PICK n \in 0..MaxEntries : input \in Directory!Columns(Deltas, RunLengths, Lengths, Offsets, n)
    BY <2>1 DEF Directories
  <2>3. n \in Nat
    BY DirectoryAssumption
  <2>4. input \in Serialized(n)
    BY <2>2, DirectoryAssumption DEF Serialized, Directory!Columns
  <2> QED
    BY <2>3, <2>4
<1>2. Kept /\ [LibraryNext]_libraryVars => Kept'
  BY DEF LibraryNext, libraryVars
<1> QED
  BY <1>1, <1>2, PTL DEF LibrarySpec

\* FindEntryInSerialized and FindEntry, on the directories' topic: they agree.
THEOREM LibrarySearchesAgree == LibrarySpec => []SearchesAgree
<1>1. (topic = "directory" => input \in UNION {Serialized(n) : n \in Nat}) => SearchesAgree
  <2> SUFFICES ASSUME NEW n \in Nat, input \in Serialized(n) PROVE SearchesAgree
    BY DEF SearchesAgree
  <2>1. \A id \in 0..MaxTileId : id \in Nat
    BY DirectoryAssumption
  <2> QED
    BY <2>1, SearchesFindTheClaimant DEF SearchesAgree
<1> QED
  BY <1>1, DirectoriesStay, PTL

\* And they find what claims an id.
THEOREM LibraryFindsTheClaimant == LibrarySpec => []FindsTheClaimant
<1>1. (topic = "directory" => input \in UNION {Serialized(n) : n \in Nat}) => FindsTheClaimant
  <2> SUFFICES ASSUME NEW n \in Nat, input \in Serialized(n) PROVE FindsTheClaimant
    BY DEF FindsTheClaimant
  <2>1. \A id \in 0..MaxTileId : id \in Nat
    BY DirectoryAssumption
  <2> QED
    BY <2>1, SearchesFindTheClaimant DEF FindsTheClaimant
<1> QED
  BY <1>1, DirectoriesStay, PTL

-----------------------------------------------------------------------------
\* InflatingByteStream passes the bytes its payload inflates to: the refinement
\* the library's run checks.
THEOREM LibraryStreams == LibrarySpec => ImplementsStream
<1>1. LibraryInit => Part!Init
  BY DEF LibraryInit
<1>2. [LibraryNext]_libraryVars => [Part!Next]_(Part!vars)
  BY DEF LibraryNext, libraryVars, inflateVars, Part!vars
<1>3. Part!Spec => Part!ImplementsStream
  BY InflaterAssumption, Part!StreamImplemented
<1> QED
  BY <1>1, <1>2, <1>3, PTL DEF LibrarySpec, Part!Spec, ImplementsStream

-----------------------------------------------------------------------------
(* The run's inputs are of the kinds that the theorems are about, and stay.*)

LEMMA InputsStay ==
  LibrarySpec => [](/\ topic = "geometry" => input \in GeometryInputs
                    /\ topic = "tile" => input \in TileInputs
                    /\ topic = "drawing" => input \in DrawInputs
                    /\ topic = "manifest" => input \in Documents
                    /\ topic = "line" => input \in LineInputs
                    /\ topic = "level" => input \in 0..MaxLevel
                    /\ topic = "view" => input \in Views
                    /\ topic = "fill" => input \in Fills)
<1> DEFINE Kept == /\ topic = "geometry" => input \in GeometryInputs
                   /\ topic = "tile" => input \in TileInputs
                   /\ topic = "drawing" => input \in DrawInputs
                   /\ topic = "manifest" => input \in Documents
                   /\ topic = "line" => input \in LineInputs
                   /\ topic = "level" => input \in 0..MaxLevel
                   /\ topic = "view" => input \in Views
                   /\ topic = "fill" => input \in Fills
<1>1. LibraryInit => Kept
  BY DEF LibraryInit
<1>2. Kept /\ [LibraryNext]_libraryVars => Kept'
  BY DEF LibraryNext, libraryVars
<1> QED
  BY <1>1, <1>2, PTL DEF LibrarySpec

LEMMA StreamsAreWords == \A w \in Streams : w \in Seq(Nat)
<1>1. /\ Move(1) \in Nat /\ Move(2) \in Nat /\ Move(0) \in Nat
      /\ Line(1) \in Nat /\ Line(2) \in Nat /\ ClosePath \in Nat
  BY DEF Move, Line, ClosePath
<1>2. <<>> \in Seq(Nat)
  BY <1>1
<1>3. <<Move(1), 2, 4>> \in Seq(Nat)
  BY <1>1
<1>4. <<Move(1), 2, 4, Line(2), 1, 2, 3>> \in Seq(Nat)
  BY <1>1
<1>5. <<Move(1), 2, 4, Line(2), 1, 2, 3, 4, ClosePath>> \in Seq(Nat)
  BY <1>1
<1>6. <<Move(2), 2, 4, 1, 3, Line(1), 2, 2>> \in Seq(Nat)
  BY <1>1
<1>7. <<Line(1), 2, 2>> \in Seq(Nat)
  BY <1>1
<1>8. <<ClosePath>> \in Seq(Nat)
  BY <1>1
<1>9. <<Move(1), 2, 2, 23>> \in Seq(Nat)
  BY <1>1
<1>10. <<Move(0)>> \in Seq(Nat)
  BY <1>1
<1>11. <<Move(1), 2, 2, 3>> \in Seq(Nat)
  BY <1>1
<1> QED
  BY <1>2, <1>3, <1>4, <1>5, <1>6, <1>7, <1>8, <1>9, <1>10, <1>11 DEF Streams

LEMMA GeometriesAreFields == \A g \in Geometries : (\A i \in 1..3 : g[i].packed \/ ~g[i].cut) => g \in Seq(Part!GeometryFields)
<1> SUFFICES ASSUME NEW g \in Geometries, \A i \in 1..3 : g[i].packed \/ ~g[i].cut
             PROVE  g \in Seq(Part!GeometryFields)
  OBVIOUS
<1>0. PICK w \in Streams :
        g \in {Fields(w, s[1], s[2], p, c) :
                 s \in Splits(w), p \in [1..3 -> BOOLEAN], c \in {NoCut, <<FALSE, TRUE, FALSE>>}}
  BY DEF Geometries
<1>1. PICK s \in Splits(w), p \in [1..3 -> BOOLEAN], c \in {NoCut, <<FALSE, TRUE, FALSE>>} :
        g = Fields(w, s[1], s[2], p, c)
  BY <1>0
<1>2. w \in Seq(Nat)
  BY StreamsAreWords
<1>3. s[1] \in 0..Len(w) /\ s[2] \in 0..Len(w) /\ s[1] <= s[2] /\ Len(w) \in Nat
  BY <1>2, LenProperties DEF Splits
<1> DEFINE a == Slice(w, 1, s[1])
           b == Slice(w, s[1] + 1, s[2])
           d == Slice(w, s[2] + 1, Len(w))
<1>4. a \in Seq(Nat) /\ b \in Seq(Nat) /\ d \in Seq(Nat)
  <2>1. ASSUME NEW m \in 1..Len(w) + 1, NEW n \in 0..Len(w) PROVE Slice(w, m, n) \in Seq(Nat)
    BY <1>2, <1>3, SubSeqProperties DEF Slice
  <2>2. 1 \in 1..Len(w) + 1 /\ s[1] + 1 \in 1..Len(w) + 1 /\ s[2] + 1 \in 1..Len(w) + 1 /\ Len(w) \in 0..Len(w)
    BY <1>3
  <2> HIDE DEF Slice
  <2> QED
    BY <1>3, <2>1, <2>2
<1>5. \A i \in 1..3 : p[i] \in BOOLEAN /\ c[i] \in BOOLEAN
  <2>1. c = <<FALSE, FALSE, FALSE>> \/ c = <<FALSE, TRUE, FALSE>>
    BY DEF NoCut
  <2>2. \A i \in 1..3 : i = 1 \/ i = 2 \/ i = 3
    OBVIOUS
  <2>3. c[1] \in BOOLEAN /\ c[2] \in BOOLEAN /\ c[3] \in BOOLEAN
    <3>1. c = <<FALSE, FALSE, FALSE>> => c[1] \in BOOLEAN /\ c[2] \in BOOLEAN /\ c[3] \in BOOLEAN
      OBVIOUS
    <3>2. c = <<FALSE, TRUE, FALSE>> => c[1] \in BOOLEAN /\ c[2] \in BOOLEAN /\ c[3] \in BOOLEAN
      OBVIOUS
    <3> QED
      BY <2>1, <3>1, <3>2
  <2> QED
    BY <2>2, <2>3
<1>6. g = <<[packed |-> p[1], words |-> a, cut |-> c[1]],
            [packed |-> p[2], words |-> b, cut |-> c[2]],
            [packed |-> p[3], words |-> d, cut |-> c[3]]>>
  BY <1>1 DEF Fields
<1> HIDE DEF a, b, d
<1>7. \A i \in 1..3 : g[i] \in Part!GeometryFields
  <2>1. /\ g[1] = [packed |-> p[1], words |-> a, cut |-> c[1]]
        /\ g[2] = [packed |-> p[2], words |-> b, cut |-> c[2]]
        /\ g[3] = [packed |-> p[3], words |-> d, cut |-> c[3]]
    BY <1>6
  <2>2. \A i \in 1..3 : i = 1 \/ i = 2 \/ i = 3
    OBVIOUS
  <2>3. g[1] \in Part!GeometryFields
    BY <1>4, <1>5, <2>1 DEF Part!GeometryFields
  <2>4. g[2] \in Part!GeometryFields
    BY <1>4, <1>5, <2>1 DEF Part!GeometryFields
  <2>5. g[3] \in Part!GeometryFields
    BY <1>4, <1>5, <2>1 DEF Part!GeometryFields
  <2> QED
    BY <2>2, <2>3, <2>4, <2>5
<1>8. g = [i \in 1..3 |-> g[i]]
  BY <1>6
<1> QED
  BY <1>7, <1>8, IsASeq

LEMMA StalesAreRings == \A r \in Stales : r \in Part!Rings
<1>1. <<9, 9>> \in Int \X Int /\ <<8, 8>> \in Int \X Int
  OBVIOUS
<1> DEFINE one == <<<<9, 9>>>>
           two == <<<<9, 9>>, <<8, 8>>>>
           none == <<>>
<1>2. none \in Seq(Int \X Int) /\ one \in Seq(Int \X Int) /\ two \in Seq(Int \X Int)
  BY <1>1
<1>3. Stales = {none, <<one, two, none>>}
  BY DEF Stales
<1>4. none \in Part!Rings
  BY DEF Part!Rings
<1>5. <<one, two, none>> \in Part!Rings
  <2> HIDE DEF one, two, none
  <2> QED
    BY <1>2 DEF Part!Rings
<1> HIDE DEF one, two, none
<1> QED
  BY <1>3, <1>4, <1>5

\* Every geometry the library's run looks at is the decoding of all its words.
THEOREM LibraryGeometryIsOneDecoding == LibrarySpec => []GeometryIsTheConcatenation
<1>1. (topic = "geometry" => input \in GeometryInputs) => GeometryIsTheConcatenation
  <2> SUFFICES ASSUME input \in GeometryInputs PROVE Part!GeometryIsTheConcatenation(input.f, input.stale)
    BY DEF GeometryIsTheConcatenation
  <2>1. PICK g \in {h \in Geometries : \A i \in 1..3 : h[i].packed \/ (Len(h[i].words) = 1 /\ ~h[i].cut)},
             t \in {"point", "line"}, r \in Stales :
          input = [f |-> [geometry |-> g, type |-> t], stale |-> r]
    BY DEF GeometryInputs
  <2>2. g \in Seq(Part!GeometryFields)
    BY <2>1, GeometriesAreFields
  <2>3. r \in Part!Rings
    BY StalesAreRings
  <2> DEFINE f == [geometry |-> g, type |-> t]
  <2>4. f.geometry \in Seq(Part!GeometryFields) /\ input.f = f /\ input.stale = r
    BY <2>1, <2>2
  <2> HIDE DEF f
  <2> QED
    BY <2>3, <2>4, Part!GeometryIsOneDecoding
<1> QED
  BY <1>1, InputsStay, PTL

LEMMA FieldsHoldGeometries ==
  \A f \in LayerFields : f.kind = "feature" => f.value.geometry \in Seq(Part!GeometryFields)
<1>1. \A w \in Seq(Nat) : Geom(w) \in Seq(Part!GeometryFields)
  <2> SUFFICES ASSUME NEW w \in Seq(Nat) PROVE Geom(w) \in Seq(Part!GeometryFields)
    OBVIOUS
  <2> DEFINE field == [packed |-> TRUE, words |-> w, cut |-> FALSE]
  <2>1. field \in Part!GeometryFields
    BY DEF Part!GeometryFields
  <2> HIDE DEF field
  <2>2. <<field>> \in Seq(Part!GeometryFields)
    BY <2>1
  <2> QED
    BY <2>2 DEF Geom, field
<1>2. Move(1) \in Nat /\ Move(2) \in Nat /\ Line(1) \in Nat
  BY DEF Move, Line
<1> DEFINE one == <<Move(1), 2, 4, Line(1), 2, 2>>
           two == <<Move(1), 4, 4>>
           three == <<Move(2), 4, 4, 1, 1>>
           none == <<>>
<1>3. one \in Seq(Nat) /\ two \in Seq(Nat) /\ three \in Seq(Nat) /\ none \in Seq(Nat)
  BY <1>2
<1> DEFINE Known(f) == f.kind = "feature" => f.value.geometry \in Seq(Part!GeometryFields)
<1>4. \A id, tags, w : Feat(id, tags, w).geometry = Geom(w)
  BY DEF Feat
<1>5. \A v : Field("feature", v).value = v
  BY DEF Field
<1>6. \A k, v : Field(k, v).kind = k
  BY DEF Field
<1> HIDE DEF one, two, three, none
<1>7. ASSUME NEW id, NEW tags, NEW w \in Seq(Nat) PROVE Known(Field("feature", Feat(id, tags, w)))
  BY <1>1, <1>4, <1>5
<1>8. ASSUME NEW k, NEW v, k # "feature" PROVE Known(Field(k, v))
  BY <1>6, <1>8
<1>9. LayerFields =
        {Field("feature", Feat(1, <<0, 0>>, one)), Field("feature", Feat(2, none, two)),
         Field("feature", Feat(3, <<1, 0>>, three)), Field("feature", Feat(4, <<0>>, none)),
         Field("key", "class"), Field("value", "road"), Field("name", "a"), Field("name", "b"),
         Field("extent", 0), Field("bad", "")}
  BY DEF LayerFields, one, two, three, none
<1>10. /\ Known(Field("feature", Feat(1, <<0, 0>>, one))) /\ Known(Field("feature", Feat(2, none, two)))
       /\ Known(Field("feature", Feat(3, <<1, 0>>, three))) /\ Known(Field("feature", Feat(4, <<0>>, none)))
  BY <1>3, <1>7
<1>11. /\ Known(Field("key", "class")) /\ Known(Field("value", "road")) /\ Known(Field("name", "a"))
       /\ Known(Field("name", "b")) /\ Known(Field("extent", 0)) /\ Known(Field("bad", ""))
  <2>1. "key" # "feature" /\ "value" # "feature" /\ "name" # "feature" /\ "extent" # "feature"
          /\ "bad" # "feature"
    OBVIOUS
  <2> HIDE DEF Known
  <2> QED
    BY <2>1, <1>8, Zenon
<1>12. \A f \in LayerFields : Known(f)
  <2> HIDE DEF Known
  <2> QED
    BY <1>9, <1>10, <1>11, Zenon
<1> QED
  BY <1>12

\* Plain's are of the same shape.
PlainFeature == Field("feature", Feat(5, <<>>, <<Move(1), 6, 6>>))

AllFields == LayerFields \cup {PlainFeature}

LEMMA AllFieldsHoldGeometries ==
  \A f \in AllFields : f.kind = "feature" => f.value.geometry \in Seq(Part!GeometryFields)
<1> DEFINE words == <<Move(1), 6, 6>>
           field == [packed |-> TRUE, words |-> words, cut |-> FALSE]
<1>1. words \in Seq(Nat)
  <2>1. Move(1) \in Nat
    BY DEF Move
  <2> QED
    BY <2>1
<1> HIDE DEF words
<1>2. field \in Part!GeometryFields
  BY <1>1 DEF Part!GeometryFields
<1>3. PlainFeature.value.geometry = <<field>>
  BY DEF PlainFeature, Field, Feat, Geom, words
<1> HIDE DEF field
<1>4. <<field>> \in Seq(Part!GeometryFields)
  BY <1>2
<1> QED
  BY <1>3, <1>4, FieldsHoldGeometries DEF AllFields

LEMMA TilesHaveLayers == \A t \in Tiles : t \in Seq(Part!Layers(AllFields))
<1> DEFINE tables == <<Field("key", "class"), Field("value", "road")>>
           plain == [fields |-> Plain]
<1>1. \A f \in [1..3 -> LayerFields] : f \in Seq(AllFields)
  <2> SUFFICES ASSUME NEW f \in [1..3 -> LayerFields] PROVE f \in Seq(AllFields)
    OBVIOUS
  <2>1. f = [i \in 1..3 |-> f[i]] /\ \A i \in 1..3 : f[i] \in AllFields
    BY DEF AllFields
  <2> QED
    BY <2>1, IsASeq
<1>2. tables \in Seq(AllFields)
  <2>1. Field("key", "class") \in AllFields /\ Field("value", "road") \in AllFields
    BY DEF AllFields, LayerFields
  <2> QED
    BY <2>1
<1>3. Plain \in Seq(AllFields)
  <2>1. Field("name", "b") \in AllFields /\ PlainFeature \in AllFields
    BY DEF AllFields, LayerFields
  <2>2. Plain = <<Field("name", "b"), PlainFeature>>
    BY DEF Plain, PlainFeature
  <2> QED
    BY <2>1, <2>2
<1>4. \A s \in Seq(AllFields) : [fields |-> s] \in Part!Layers(AllFields)
  BY DEF Part!Layers
<1> HIDE DEF tables
<1>5. \A f \in [1..3 -> LayerFields] :
        [fields |-> f] \in Part!Layers(AllFields) /\ [fields |-> tables \o f] \in Part!Layers(AllFields)
  <2> SUFFICES ASSUME NEW f \in [1..3 -> LayerFields]
               PROVE  [fields |-> f] \in Part!Layers(AllFields) /\ [fields |-> tables \o f] \in Part!Layers(AllFields)
    BY Zenon
  <2>1. f \in Seq(AllFields)
    BY <1>1
  <2>2. tables \o f \in Seq(AllFields)
    BY <1>2, <2>1, ConcatProperties
  <2> DEFINE both == tables \o f
  <2> HIDE DEF both
  <2>3. both \in Seq(AllFields)
    BY <2>2 DEF both
  <2>4. [fields |-> f] \in Part!Layers(AllFields) /\ [fields |-> both] \in Part!Layers(AllFields)
    BY <1>4, <2>1, <2>3
  <2> QED
    BY <2>4 DEF both
<1>6. plain \in Part!Layers(AllFields)
  BY <1>3, <1>4
<1> DEFINE First == {<<[fields |-> f]>> : f \in [1..3 -> LayerFields]}
           Second == {<<[fields |-> tables \o f], plain>> : f \in [1..3 -> LayerFields]}
<1>7. Tiles = First \cup Second
  BY DEF Tiles, tables
<1> HIDE DEF plain
<1>8. \A a, b \in Part!Layers(AllFields) : <<a>> \in Seq(Part!Layers(AllFields)) /\ <<a, b>> \in Seq(Part!Layers(AllFields))
  OBVIOUS
<1>9. ASSUME NEW t \in First PROVE t \in Seq(Part!Layers(AllFields))
  <2>1. PICK f \in [1..3 -> LayerFields] : t = <<[fields |-> f]>>
    BY <1>9
  <2> DEFINE a == [fields |-> f]
  <2>2. a \in Part!Layers(AllFields) /\ t = <<a>>
    BY <1>5, <2>1
  <2> HIDE DEF a
  <2> QED
    BY <1>8, <2>2
<1>10. ASSUME NEW t \in Second PROVE t \in Seq(Part!Layers(AllFields))
  <2>1. PICK f \in [1..3 -> LayerFields] : t = <<[fields |-> tables \o f], plain>>
    BY <1>10
  <2> DEFINE a == [fields |-> tables \o f]
  <2>2. a \in Part!Layers(AllFields) /\ t = <<a, plain>>
    BY <1>5, <2>1
  <2> HIDE DEF a
  <2> QED
    BY <1>6, <1>8, <2>2
<1> HIDE DEF First, Second
<1> QED
  BY <1>7, <1>9, <1>10

\* Whichever tile the library's run looks at, its decoders agree.
THEOREM LibraryDecodersAgree == LibrarySpec => []DecodersAgree
<1>1. (topic = "tile" => input \in TileInputs) => DecodersAgree
  <2> SUFFICES ASSUME input \in TileInputs
               PROVE  Part!DecodersAgree(input.tile, input.include, input.stale)
    BY DEF DecodersAgree
  <2> DEFINE rings == <<<<<<9, 9>>>>, <<>>>>
             attributes == <<<<"x", "y">>>>
             stale == [Part!NoFeature EXCEPT !.geometry = rings, !.attributes = attributes]
  <2>1. PICK t \in Tiles, i \in {{}, {"a"}} : input = [tile |-> t, include |-> i, stale |-> stale]
    BY DEF TileInputs
  <2>2. rings \in Part!Rings
    <3> DEFINE one == <<<<9, 9>>>>
               none == <<>>
    <3>1. <<9, 9>> \in Int \X Int
      OBVIOUS
    <3>2. one \in Seq(Int \X Int) /\ none \in Seq(Int \X Int)
      BY <3>1
    <3> HIDE DEF one, none
    <3>3. <<one, none>> \in Part!Rings
      BY <3>2 DEF Part!Rings
    <3> QED
      BY <3>3 DEF one, none
  <2> HIDE DEF rings, attributes
  <2>3. stale \in Part!Earlier({0}, {"unknown"}, {attributes})
    BY <2>2 DEF Part!NoFeature, Part!Earlier
  <2> HIDE DEF stale
  <2>4. t \in Seq(Part!Layers(AllFields))
    BY TilesHaveLayers
  <2>5. Part!DecodersAgree(t, i, stale)
    BY <2>3, <2>4, AllFieldsHoldGeometries, Part!DecodersAgreeOnEveryTile
  <2> QED
    BY <2>1, <2>5
<1> QED
  BY <1>1, InputsStay, PTL

-----------------------------------------------------------------------------
(* Manifests.  The parser is a fold whose state is of no set known before  *)
(* it runs, so that the fold is built along the positions here.            *)

LEMMA ManifestLasts ==
  ASSUME NEW n \in Nat
  PROVE  Lasts([s \in SUBSET (1..n) |-> Json!Seqs!Max(s)], n)
<1>1. ASSUME NEW s \in SUBSET (1..n), s # {}
      PROVE  Json!Seqs!Max(s) \in s /\ \A i \in s : i <= Json!Seqs!Max(s)
  <2>1. Json!Seqs!Max(s) = Seqs!Max(s)
    BY DEF Json!Seqs!Max, Seqs!Max
  <2> QED
    BY <1>1, <2>1, LastPosition
<1> QED
  BY <1>1 DEF Lasts

DocumentRun(r, text) ==
  r[0] = Json!Start /\ \A k \in 1..Len(text) : r[k] = Json!Step(r[k - 1], text[k])

DocumentIs(r, text) ==
  DocumentRun(r, text) /\ Json!ParseDocument(text) = Json!Ended(r[Len(text)])

LEMMA DocumentRuns ==
  ASSUME NEW V, NEW text \in Seq(V)
  PROVE  \E r : DocumentIs(r, text)
<1> DEFINE n == Len(text)
           base == Json!Start
           last(s) == Json!Seqs!Max(s)
           mx == [s \in SUBSET (1..n) |-> last(s)]
           One(acc, i) == Json!Step(acc, text[i])
           Value(g, s) == IF s = {} THEN base ELSE One(g[s \ {last(s)}], last(s))
           Upto(g, k) == g = [s \in SUBSET (1..k) |-> Value(g, s)]
           Folds(h) == h = [s \in SUBSET DOMAIN text |-> Value(h, s)]
           fold == CHOOSE h : Folds(h)
<1>1. n \in Nat /\ DOMAIN text = 1..n
  BY LenProperties
<1>2. Json!ParseDocument(text) = Json!Ended(fold[DOMAIN text])
  BY DEF Json!ParseDocument, Json!Seqs!FoldLeft, Json!Seqs!MapThenFoldSet
<1>3. Lasts(mx, n) /\ \A s \in SUBSET (1..n) : mx[s] = last(s)
  BY <1>1, ManifestLasts
<1> HIDE DEF fold, base, One, last, mx, n
<1>4. \A s \in SUBSET (1..n) : s # {} => last(s) \in s /\ \A i \in s : i <= last(s)
  BY <1>3 DEF Lasts
<1> DEFINE T == {k \in 0..n : \E g : Upto(g, k)}
<1>5. 0 \in T
  <2> DEFINE g == [s \in SUBSET (1..0) |-> base]
  <2>1. \A s \in SUBSET (1..0) : s = {}
    OBVIOUS
  <2>2. Upto(g, 0)
    BY <2>1
  <2> HIDE DEF g, Upto
  <2> QED
    BY <1>1, <2>2
<1>6. ASSUME NEW k \in 0..n - 1, k \in T PROVE k + 1 \in T
  <2>1. PICK g : Upto(g, k)
    BY <1>6
  <2> DEFINE h == [s \in SUBSET (1..k + 1) |->
                     IF k + 1 \in s THEN One(g[s \ {k + 1}], k + 1) ELSE g[s]]
  <2>2. ASSUME NEW s \in SUBSET (1..k + 1), k + 1 \in s PROVE h[s] = Value(h, s)
    <3>1. last(s) = k + 1
      <4>1. s \in SUBSET (1..n) /\ s # {}
        BY <1>1, <2>2
      <4>2. last(s) \in 1..k + 1 /\ k + 1 <= last(s)
        BY <1>4, <2>2, <4>1
      <4> QED
        BY <4>2
    <3>2. s \ {k + 1} \in SUBSET (1..k + 1) /\ k + 1 \notin s \ {k + 1}
      OBVIOUS
    <3>3. h[s] = One(g[s \ {k + 1}], k + 1) /\ h[s \ {k + 1}] = g[s \ {k + 1}]
      BY <2>2, <3>2
    <3> HIDE DEF h
    <3> QED
      BY <2>2, <3>1, <3>3
  <2>3. ASSUME NEW s \in SUBSET (1..k + 1), k + 1 \notin s PROVE h[s] = Value(h, s)
    <3>1. s \in SUBSET (1..k)
      BY <2>3
    <3>2. h[s] = g[s] /\ g[s] = Value(g, s)
      BY <2>1, <2>3, <3>1
    <3>3. CASE s = {}
      BY <3>2, <3>3
    <3>4. CASE s # {}
      <4>1. s \ {last(s)} \in SUBSET (1..k + 1) /\ k + 1 \notin s \ {last(s)}
        BY <2>3
      <4>2. h[s \ {last(s)}] = g[s \ {last(s)}]
        BY <4>1
      <4> HIDE DEF h
      <4> QED
        BY <3>2, <3>4, <4>2
    <3> QED
      BY <3>3, <3>4
  <2>4. \A s \in SUBSET (1..k + 1) : h[s] = Value(h, s)
    BY <2>2, <2>3
  <2>5. Upto(h, k + 1)
    <3>1. h = [s \in SUBSET (1..k + 1) |-> h[s]]
      OBVIOUS
    <3> HIDE DEF h, Value
    <3> QED
      BY <2>4, <3>1
  <2> HIDE DEF h, Upto
  <2> QED
    BY <1>1, <2>5
<1>7. \A k \in 0..n : k \in T
  <2> HIDE DEF T
  <2> QED
    BY <1>1, <1>5, <1>6, UpTo
<1>8. Folds(fold)
  <2>1. n \in T
    <3> HIDE DEF T
    <3> QED
      BY <1>1, <1>7
  <2>2. PICK g : Upto(g, n)
    BY <2>1
  <2>3. Folds(g)
    <3> HIDE DEF Value
    <3> QED
      BY <1>1, <2>2
  <2> HIDE DEF Folds
  <2> QED
    BY <2>3 DEF fold
<1> DEFINE r == [k \in 0..n |-> fold[1..k]]
<1>9. \A s \in SUBSET (1..n) : fold[s] = Value(fold, s)
  <2> HIDE DEF Value
  <2> QED
    BY <1>1, <1>8
<1>10. r[0] = base
  <2>1. 1..0 = {} /\ 0 \in 0..n /\ {} \in SUBSET (1..n)
    BY <1>1
  <2> QED
    BY <1>9, <2>1
<1>11. ASSUME NEW k \in 1..n PROVE r[k] = One(r[k - 1], k)
  <2>1. 1..k \in SUBSET (1..n) /\ 1..k # {} /\ k \in 1..k /\ k - 1 \in 0..n /\ k \in 0..n
    BY <1>1
  <2>2. last(1..k) = k
    <3>1. last(1..k) \in 1..k /\ k <= last(1..k)
      BY <1>4, <2>1
    <3> QED
      BY <3>1
  <2>3. (1..k) \ {k} = 1..k - 1
    BY <1>1
  <2>4. fold[1..k] = One(fold[1..k - 1], k)
    BY <1>9, <2>1, <2>2, <2>3
  <2> QED
    BY <2>1, <2>4
<1>12. r[n] = fold[DOMAIN text] /\ n \in 0..n
  BY <1>1
<1> HIDE DEF r
<1>13. DocumentIs(r, text)
  BY <1>2, <1>10, <1>11, <1>12 DEF DocumentIs, DocumentRun, base, One, n
<1> QED
  BY <1>13

\* What the parser knows between two tokens.
Parts == {"ok", "too_deep", "stack", "expect", "value"}

Between(s) == DOMAIN s = Parts /\ s = [x \in Parts |-> s[x]] /\ s.ok \in BOOLEAN

\* Once it refuses it stays there, and it never is deep before.
LEMMA StepKeeps ==
  ASSUME NEW s, Between(s), NEW tok
  PROVE  /\ Between(Json!Step(s, tok))
         /\ ~s.ok => Json!Step(s, tok) = s
         /\ s.expect = "nothing" => ~Json!Step(s, tok).ok
         /\ tok.t = "cut" => ~Json!Step(s, tok).ok
<1> DEFINE Refused(x) == Between(x) /\ ~x.ok
<1>1. Refused(Json!Refuse(s))
  BY DEF Json!Refuse, Between, Parts
<1>2. ASSUME NEW x, Between(x), NEW expect, NEW stack, NEW value
      PROVE  /\ Between([x EXCEPT !.expect = expect])
             /\ Between([x EXCEPT !.stack = stack])
             /\ Between([x EXCEPT !.expect = expect, !.value = value])
             /\ Between([x EXCEPT !.expect = expect, !.stack = stack])
             /\ Between([x EXCEPT !.stack = stack, !.expect = expect])
  BY <1>2, Zenon DEF Between, Parts
<1>3. ASSUME NEW x, Between(x), NEW value PROVE Between(Json!Delivered(x, value))
  BY <1>2, <1>3, Zenon DEF Json!Delivered
<1>4. Between(Json!ClosePending(s))
  <2>1. Between([s EXCEPT !.stack = Json!Seqs!Front(@)])
    BY <1>2, Zenon
  <2> QED
    BY <1>3, <2>1, SMTT(40) DEF Json!ClosePending
<1>5. \A type, empty, expect : Between(Json!Opened(s, type, empty, expect))
  BY <1>2, Zenon DEF Json!Opened
<1>6. Refused([s EXCEPT !.ok = FALSE, !.too_deep = TRUE])
  BY DEF Between, Parts
<1>7. Between(Json!ParseValue(s, tok))
  BY <1>1, <1>3, <1>5, <1>6, Zenon DEF Json!ParseValue
<1>8. Between(Json!ParseObject(s, tok))
  BY <1>1, <1>2, <1>4, Zenon DEF Json!ParseObject
<1>9. Between(Json!ParseArray(s, tok))
  BY <1>1, <1>2, <1>4, Zenon DEF Json!ParseArray
<1>10. ASSUME tok.t = "cut"
       PROVE  /\ Refused(Json!ParseValue(s, tok)) /\ Refused(Json!ParseObject(s, tok))
              /\ Refused(Json!ParseArray(s, tok))
  <2>1. Refused(Json!ParseValue(s, tok))
    BY <1>1, <1>6, <1>10 DEF Json!ParseValue
  <2>2. Refused(Json!ParseObject(s, tok))
    BY <1>1, <1>10 DEF Json!ParseObject
  <2>3. Refused(Json!ParseArray(s, tok))
    BY <1>1, <1>10 DEF Json!ParseArray
  <2> QED
    BY <2>1, <2>2, <2>3
<1>11. Between(Json!Step(s, tok))
  BY <1>1, <1>7, <1>8, <1>9, Zenon DEF Json!Step
<1>12. ~s.ok => Json!Step(s, tok) = s
  BY DEF Json!Step
<1>13. s.expect = "nothing" => ~Json!Step(s, tok).ok
  BY <1>1 DEF Json!Step
<1>14. tok.t = "cut" => ~Json!Step(s, tok).ok
  BY <1>1, <1>10, Zenon DEF Json!Step
<1> QED
  BY <1>11, <1>12, <1>13, <1>14

\* Every state of a run is one, and one that refuses is the last.
LEMMA RunsRefuseForGood ==
  ASSUME NEW V, NEW text \in Seq(V), NEW r, DocumentRun(r, text)
  PROVE  /\ \A k \in 0..Len(text) : Between(r[k])
         /\ \A k \in 0..Len(text) : r[Len(text)].ok => r[k].ok
<1> DEFINE n == Len(text)
           T == {k \in 0..n : Between(r[k])}
<1>1. n \in Nat
  BY LenProperties
<1>2. 0 \in T
  <2>1. Between(Json!Start)
    BY DEF Json!Start, Between, Parts
  <2> QED
    BY <1>1, <2>1 DEF DocumentRun
<1>3. ASSUME NEW k \in 0..n - 1, k \in T PROVE k + 1 \in T
  <2>1. k + 1 \in 1..n /\ k + 1 \in 0..n /\ (k + 1) - 1 = k
    BY <1>1
  <2>2. r[k + 1] = Json!Step(r[k], text[k + 1])
    BY <2>1 DEF DocumentRun
  <2> QED
    BY <1>3, <2>1, <2>2, StepKeeps
<1>4. \A k \in 0..n : k \in T
  <2> HIDE DEF T, n
  <2> QED
    BY <1>1, <1>2, <1>3, UpTo
<1>5. \A k \in 0..n : Between(r[k])
  BY <1>4
<1>6. ASSUME NEW j \in 0..n, ~r[j].ok PROVE ~r[n].ok
  <2> DEFINE m == n - j
             U == {k \in 0..m : r[j + k] = r[j]}
  <2>1. m \in Nat /\ j + 0 = j /\ j + m = n
    BY <1>1
  <2>2. 0 \in U
    BY <2>1
  <2>3. ASSUME NEW k \in 0..m - 1, k \in U PROVE k + 1 \in U
    <3>1. j + k \in 0..n /\ j + (k + 1) \in 1..n /\ (j + (k + 1)) - 1 = j + k /\ k + 1 \in 0..m
      BY <1>1, <2>1
    <3>2. r[j + (k + 1)] = Json!Step(r[j + k], text[j + (k + 1)])
      BY <3>1 DEF DocumentRun
    <3>3. Json!Step(r[j + k], text[j + (k + 1)]) = r[j + k]
      BY <1>5, <1>6, <2>3, <3>1, StepKeeps
    <3> QED
      BY <2>3, <3>1, <3>2, <3>3
  <2>4. \A k \in 0..m : k \in U
    <3> HIDE DEF U, m
    <3> QED
      BY <2>1, <2>2, <2>3, UpTo
  <2>5. r[j + m] = r[j]
    <3>1. m \in 0..m
      BY <2>1
    <3> HIDE DEF m
    <3> QED
      BY <2>4, <3>1
  <2> QED
    BY <1>6, <2>1, <2>5
<1> QED
  BY <1>5, <1>6

\* Two documents that start alike are parsed alike that far.
LEMMA PrefixesRunAlike ==
  ASSUME NEW V, NEW text \in Seq(V), NEW W, NEW other \in Seq(W), NEW n \in Nat,
         n <= Len(text), n <= Len(other), \A k \in 1..n : text[k] = other[k],
         NEW r, DocumentRun(r, text), NEW q, DocumentRun(q, other)
  PROVE  r[n] = q[n]
<1> DEFINE T == {k \in 0..n : r[k] = q[k]}
<1>1. Len(text) \in Nat /\ Len(other) \in Nat
  BY LenProperties
<1>2. 0 \in T
  BY DEF DocumentRun
<1>3. ASSUME NEW k \in 0..n - 1, k \in T PROVE k + 1 \in T
  <2>1. k + 1 \in 1..n /\ k + 1 \in 0..n /\ (k + 1) - 1 = k
          /\ k + 1 \in 1..Len(text) /\ k + 1 \in 1..Len(other)
    BY <1>1
  <2>2. r[k + 1] = Json!Step(r[k], text[k + 1]) /\ q[k + 1] = Json!Step(q[k], other[k + 1])
    BY <2>1 DEF DocumentRun
  <2> QED
    BY <1>3, <2>1, <2>2
<1>4. \A k \in 0..n : k \in T
  <2> HIDE DEF T
  <2> QED
    BY <1>2, <1>3, UpTo
<1> QED
  BY <1>4

Refusals == {"malformed", "too-deep"}

\* What ParsePackManifestJson makes of a document that is not one value.
LEMMA RefusedDocument ==
  ASSUME NEW V, NEW text \in Seq(V), Len(text) <= MaxTokens, MaxTokens \in Nat,
         NEW r, DocumentIs(r, text), ~r[Len(text)].ok \/ r[Len(text)].expect # "nothing"
  PROVE  Json!ParsePackManifestJson(text) \in Refusals
<1> DEFINE n == Len(text)
           s == Json!ParseDocument(text)
<1>1. n \in Nat /\ n \in 0..n
  BY LenProperties
<1>2. Between(r[n])
  BY <1>1, RunsRefuseForGood DEF DocumentIs
<1>3. ~s.ok
  <2>1. s = Json!Ended(r[n])
    BY DEF DocumentIs
  <2> QED
    BY <1>2, <2>1 DEF Json!Ended, Between, Parts
<1> HIDE DEF s
<1> QED
  BY <1>1, <1>3 DEF Json!ParsePackManifestJson, Refusals, s

\* A manifest that is taken is refused when it is cut, between two tokens or
\* inside one, anywhere, whatever its fields are and however it is nested.
THEOREM CutManifestsAreRefused ==
  ASSUME NEW V, NEW text \in Seq(V), MaxTokens \in Nat
  PROVE  Json!CutManifestIsRefused(text)
<1> DEFINE l == Len(text)
           cut == [t |-> "cut", v |-> ""]
<1>1. l \in Nat
  BY LenProperties
<1> SUFFICES ASSUME Json!ParsePackManifestJson(text) = "none", NEW n \in 0..l - 1
             PROVE  /\ Json!ParsePackManifestJson(SubSeq(text, 1, n)) \in Refusals
                    /\ Json!ParsePackManifestJson(Append(SubSeq(text, 1, n), cut)) \in Refusals
  BY Zenon DEF Json!CutManifestIsRefused, Refusals
<1>2. l <= MaxTokens /\ Json!ParseDocument(text).ok
  BY <1>1 DEF Json!ParsePackManifestJson
<1>3. PICK r : DocumentIs(r, text)
  BY DocumentRuns
<1>4. \A k \in 0..l : Between(r[k]) /\ (r[l].ok => r[k].ok)
  BY <1>3, RunsRefuseForGood DEF DocumentIs
<1>5. r[l].ok
  <2>1. Between(r[l]) /\ Json!ParseDocument(text) = Json!Ended(r[l])
    BY <1>1, <1>3, <1>4 DEF DocumentIs
  <2>2. Json!Ended(r[l]).ok => r[l].ok
    BY <2>1 DEF Json!Ended, Between, Parts
  <2> QED
    BY <1>2, <2>1, <2>2
<1>6. Between(r[n]) /\ r[n].expect # "nothing"
  <2>1. n \in 0..l /\ n + 1 \in 0..l /\ n + 1 \in 1..l /\ (n + 1) - 1 = n
    BY <1>1
  <2>2. r[n + 1] = Json!Step(r[n], text[n + 1])
    BY <1>3, <2>1 DEF DocumentIs, DocumentRun
  <2>3. r[n + 1].ok
    BY <1>4, <1>5, <2>1
  <2>4. Between(r[n])
    BY <1>4, <2>1
  <2>5. r[n].expect = "nothing" => ~Json!Step(r[n], text[n + 1]).ok
    BY <2>4, StepKeeps
  <2> QED
    BY <2>2, <2>3, <2>4, <2>5
<1> DEFINE u == SubSeq(text, 1, n)
           w == Append(u, cut)
           W == V \cup {cut}
<1>7. u \in Seq(V) /\ Len(u) = n /\ \A k \in 1..n : u[k] = text[k]
  <2>1. n \in 0..Len(text) /\ 1 \in 1..Len(text) + 1
    BY <1>1
  <2> QED
    BY <2>1, SubSeqProperties
<1> HIDE DEF u
<1>8. /\ w \in Seq(W) /\ Len(w) = n + 1 /\ w[n + 1] = cut
      /\ \A k \in 1..n : w[k] = u[k]
  <2>1. u \in Seq(W) /\ cut \in W
    BY <1>7, Part!SeqMonotone, Zenon
  <2> HIDE DEF cut, W
  <2> QED
    BY <1>7, <2>1, AppendProperties
<1> HIDE DEF w, W, cut, l
<1>9. Json!ParsePackManifestJson(u) \in Refusals
  <2>1. PICK q : DocumentIs(q, u)
    BY <1>7, DocumentRuns
  <2>2. q[n] = r[n]
    <3>1. DocumentRun(q, u) /\ DocumentRun(r, text) /\ n \in Nat /\ n <= Len(u) /\ n <= Len(text)
      BY <1>1, <1>3, <1>7, <2>1 DEF DocumentIs, l
    <3> QED
      BY <1>7, <3>1, PrefixesRunAlike
  <2>3. Len(u) <= MaxTokens
    BY <1>1, <1>2, <1>7
  <2> QED
    BY <1>6, <1>7, <2>1, <2>2, <2>3, RefusedDocument
<1>10. Json!ParsePackManifestJson(w) \in Refusals
  <2>1. PICK q : DocumentIs(q, w)
    BY <1>8, DocumentRuns
  <2>2. q[n] = r[n]
    <3>1. DocumentRun(q, w) /\ DocumentRun(r, text)
      BY <1>3, <2>1 DEF DocumentIs
    <3>2. \A k \in 1..n : w[k] = text[k]
      BY <1>7, <1>8
    <3>3. n \in Nat /\ n <= n + 1 /\ n <= l
      BY <1>1
    <3>4. n <= Len(w) /\ n <= Len(text)
      BY <1>8, <3>3 DEF l
    <3> QED
      BY <1>8, <3>1, <3>2, <3>3, <3>4, PrefixesRunAlike
  <2>3. q[n + 1] = Json!Step(q[n], cut)
    <3>1. n + 1 \in 1..n + 1 /\ (n + 1) - 1 = n
      BY <1>1
    <3> QED
      BY <1>8, <2>1, <3>1 DEF DocumentIs, DocumentRun
  <2>4. ~q[n + 1].ok
    <3>1. cut.t = "cut"
      BY DEF cut
    <3> QED
      BY <1>6, <2>2, <2>3, <3>1, StepKeeps
  <2>5. Len(w) <= MaxTokens
    <3>1. n + 1 <= MaxTokens
      BY <1>1, <1>2
    <3> QED
      BY <1>8, <3>1
  <2> QED
    BY <1>8, <2>1, <2>4, <2>5, RefusedDocument
<1> QED
  BY <1>9, <1>10, Zenon DEF u, w, cut

\* The tokens that the run's documents are made of.
Kinds == {"string", "number", "literal", "{", "}", "[", "]", ":", ","}
Words == {"", "pack_id", "a", "bounds", "min_zoom", "max_zoom", "priority", "sources",
          "required_attribution", "other", "c", "true", "x", "osm", "provenance_id",
          "min_lon", "min_lat", "max_lon", "max_lat"}
Tokens == [t : Kinds, v : Int \cup Words]
Texts == Seq(Tokens)

LEMMA TokensAre ==
  /\ \A w \in Words : Str(w) \in Tokens
  /\ \A n \in Int : Num(n) \in Tokens /\ [t |-> "number", v |-> n] \in Tokens
  /\ \A c \in Kinds : Chr(c) \in Tokens
  /\ [t |-> "literal", v |-> "true"] \in Tokens
<1>1. "string" \in Kinds /\ "number" \in Kinds /\ "literal" \in Kinds /\ "" \in Words /\ "true" \in Words
  BY DEF Kinds, Words
<1>2. \A n \in Int : 10 * n \in Int
  OBVIOUS
<1>3. \A k \in Kinds, v \in Int \cup Words : [t |-> k, v |-> v] \in Tokens
  BY DEF Tokens
<1> QED
  BY <1>1, <1>2, <1>3, Zenon DEF Str, Num, Chr

LEMMA CharsAreTexts ==
  /\ <<Chr("{")>> \in Texts /\ <<Chr("}")>> \in Texts /\ <<Chr("[")>> \in Texts
  /\ <<Chr("]")>> \in Texts /\ <<Chr(",")>> \in Texts
  /\ <<Chr("["), Chr("]")>> \in Texts /\ <<Chr("{"), Chr("}")>> \in Texts
<1>1. /\ "{" \in Kinds /\ "}" \in Kinds /\ "[" \in Kinds /\ "]" \in Kinds /\ "," \in Kinds
  BY DEF Kinds
<1>2. /\ Chr("{") \in Tokens /\ Chr("}") \in Tokens /\ Chr("[") \in Tokens /\ Chr("]") \in Tokens
      /\ Chr(",") \in Tokens
  BY <1>1, TokensAre, Zenon
<1>3. \A a, b \in Tokens : <<a>> \in Texts /\ <<a, b>> \in Texts
  BY DEF Texts
<1> QED
  BY <1>2, <1>3, Zenon

LEMMA MembersAre ==
  ASSUME NEW key \in Words, NEW tokens \in Texts
  PROVE  Member(key, tokens) \in Texts /\ Member(key, tokens)[1].v = key
<1> DEFINE first == Str(key)
           colon == Chr(":")
           head == <<first, colon>>
<1>1. first \in Tokens /\ colon \in Tokens
  <2>1. ":" \in Kinds
    BY DEF Kinds
  <2> QED
    BY <2>1, TokensAre
<1>2. first.v = key
  BY DEF Str
<1> HIDE DEF first, colon
<1>3. head \in Texts /\ Len(head) = 2 /\ head[1] = first
  BY <1>1 DEF Texts
<1> HIDE DEF head
<1> DEFINE both == head \o tokens
<1>4. both \in Texts /\ both[1] = first
  <2>1. /\ both \in Texts
        /\ \A i \in 1..Len(head) + Len(tokens) :
             both[i] = IF i <= Len(head) THEN head[i] ELSE tokens[i - Len(head)]
    BY <1>3, ConcatProperties DEF Texts
  <2>2. Len(tokens) \in Nat
    BY LenProperties DEF Texts
  <2> HIDE DEF both
  <2> QED
    BY <1>3, <2>1, <2>2
<1> HIDE DEF both
<1> QED
  BY <1>2, <1>4 DEF Member, both, head, first, colon

LEMMA JoinedIsAText ==
  ASSUME NEW parts \in Seq(Texts), parts # <<>>
  PROVE  Joined(parts) \in Texts
<1> DEFINE tail == Tail(parts)
           n == Len(tail)
           X == Texts
           base == Head(parts)
           last(s) == Seqs!Max(s)
           mx == [s \in SUBSET (1..n) |-> last(s)]
           One(acc, i) == acc \o <<Chr(",")>> \o tail[i]
           step == [q \in X \X (1..n) |-> One(q[1], q[2])]
           Folds(h) == h = [s \in SUBSET DOMAIN tail |->
                              IF s = {} THEN base ELSE One(h[s \ {last(s)}], last(s))]
           fold == CHOOSE h : Folds(h)
<1>0. tail \in Seq(Texts) /\ base \in Texts
  BY HeadTailProperties
<1>1. n \in Nat /\ DOMAIN tail = 1..n
  BY <1>0, LenProperties
<1>2. Joined(parts) = fold[DOMAIN tail]
  BY DEF Joined, Seqs!FoldLeft, Seqs!MapThenFoldSet
<1> HIDE DEF fold, n, base
<1>3. base \in X
  BY <1>0
<1>4. \A x \in X, i \in 1..n : One(x, i) \in X
  <2> SUFFICES ASSUME NEW x \in X, NEW i \in 1..n PROVE One(x, i) \in X
    BY Zenon
  <2> DEFINE comma == <<Chr(",")>>
             p == tail[i]
  <2>1. comma \in Texts
    BY CharsAreTexts, Zenon
  <2>2. p \in Texts
    BY <1>0, ElementOfSeq DEF n
  <2> HIDE DEF comma, p
  <2>3. x \o comma \in Texts
    BY <2>1, ConcatProperties DEF Texts
  <2>4. (x \o comma) \o p \in Texts
    BY <2>2, <2>3, ConcatProperties DEF Texts
  <2> QED
    BY <2>4, Zenon DEF comma, p
<1> HIDE DEF One, X, tail
<1>5. step \in [X \X (1..n) -> X]
  BY <1>4
<1>6. \A x \in X, i \in 1..n : step[<<x, i>>] = One(x, i) /\ step[<<x, i>>] \in X
  BY <1>4
<1>7. Lasts(mx, n) /\ \A s \in SUBSET (1..n) : mx[s] = last(s)
  <2>1. \A s \in SUBSET (1..n) : s # {} => last(s) \in s /\ \A i \in s : i <= last(s)
    BY <1>1, LastPosition
  <2> HIDE DEF last
  <2> QED
    BY <2>1 DEF Lasts
<1> HIDE DEF step, mx
<1>8. PICK g \in [SUBSET (1..n) -> X] : Fold(g, n, mx, base, step)
  BY ONLY <1>1, <1>3, <1>5, <1>7, FoldExists
<1>9. Folds(fold)
  <2>1. ASSUME NEW s \in SUBSET (1..n), s # {}
        PROVE  g[s] = One(g[s \ {last(s)}], last(s))
    <3>1. g[s] = step[<<g[s \ {mx[s]}], mx[s]>>] /\ mx[s] \in 1..n /\ g[s \ {mx[s]}] \in X
      BY <1>7, <1>8, <2>1 DEF Fold, Lasts
    <3> HIDE DEF last
    <3> QED
      BY <1>6, <1>7, <3>1
  <2>2. g[{}] = base
    BY <1>8 DEF Fold
  <2>3. Folds(g)
    <3> HIDE DEF last
    <3> QED
      BY <1>1, <1>8, <2>1, <2>2
  <2> HIDE DEF Folds
  <2> QED
    BY <2>3 DEF fold
<1>10. fold[{}] = base
  <2>1. {} \in SUBSET (1..n)
    OBVIOUS
  <2> HIDE DEF last
  <2> QED
    BY <1>1, <1>9, <2>1
<1>11. \A s \in SUBSET (1..n) :
         s # {} /\ fold[s \ {mx[s]}] \in X => fold[s] = step[<<fold[s \ {mx[s]}], mx[s]>>]
  <2> SUFFICES ASSUME NEW s \in SUBSET (1..n), s # {}, fold[s \ {mx[s]}] \in X
               PROVE  fold[s] = step[<<fold[s \ {mx[s]}], mx[s]>>]
    OBVIOUS
  <2>1. fold[s] = One(fold[s \ {last(s)}], last(s))
    <3> HIDE DEF last
    <3> QED
      BY <1>1, <1>9
  <2>2. mx[s] = last(s) /\ mx[s] \in 1..n
    BY <1>7 DEF Lasts
  <2> HIDE DEF last
  <2> QED
    BY <1>6, <2>1, <2>2
<1>12. \E r \in [0..n -> X] : RecursionTo(r, n, base, step, fold[1..n])
  <2>1. \A x \in X, i \in 1..n : step[<<x, i>>] \in X
    BY <1>6, Zenon
  <2>2. n \in Nat /\ base \in X /\ Lasts(mx, n) /\ fold[{}] = base
    BY <1>1, <1>3, <1>7, <1>10
  <2> HIDE DEF last, Folds
  <2> QED
    BY ONLY <1>11, <2>1, <2>2, FoldRuns
<1>13. PICK r \in [0..n -> X] : Recursion(r, n, base, step) /\ r[n] = fold[1..n]
  BY <1>12 DEF RecursionTo
<1>14. r[n] \in X /\ r[n] = fold[DOMAIN tail]
  <2>1. n \in 0..n
    BY <1>1
  <2> QED
    BY <1>1, <1>13, <2>1
<1> QED
  BY <1>2, <1>14 DEF X

LEMMA NestedTexts ==
  /\ \A members \in Seq(Texts) : members # <<>> => Obj(members) \in Texts
  /\ \A items \in Seq(Texts) : Arr(items) \in Texts
<1>1. \A a, b, c \in Texts : (a \o b) \o c \in Texts
  <2> SUFFICES ASSUME NEW a \in Texts, NEW b \in Texts, NEW c \in Texts PROVE (a \o b) \o c \in Texts
    OBVIOUS
  <2>1. a \o b \in Texts
    BY ConcatProperties DEF Texts
  <2> QED
    BY <2>1, ConcatProperties DEF Texts
<1>2. ASSUME NEW members \in Seq(Texts), members # <<>> PROVE Obj(members) \in Texts
  BY <1>1, <1>2, CharsAreTexts, JoinedIsAText, Zenon DEF Obj
<1>3. ASSUME NEW items \in Seq(Texts) PROVE Arr(items) \in Texts
  BY <1>1, CharsAreTexts, JoinedIsAText, Zenon DEF Arr
<1> QED
  BY <1>2, <1>3

\* One token, two members: the small texts that documents are made of.
LEMMA SmallTexts ==
  /\ <<>> \in Seq(Texts)
  /\ \A a \in Tokens : <<a>> \in Texts
  /\ \A p \in Texts : <<p>> \in Seq(Texts)
  /\ \A p, q \in Texts : <<p, q>> \in Seq(Texts)
<1>1. <<>> \in Seq(Texts)
  OBVIOUS
<1>2. \A a \in Tokens : <<a>> \in Texts
  BY DEF Texts
<1>3. \A p \in Texts : <<p>> \in Seq(Texts)
  OBVIOUS
<1>4. \A p, q \in Texts : <<p, q>> \in Seq(Texts)
  OBVIOUS
<1> QED
  BY <1>1, <1>2, <1>3, <1>4

\* The whole manifest is eight members whose keys are words.
LEMMA WholeIsItsMembers ==
  /\ Whole \in Seq(Texts) /\ Len(Whole) = 8
  /\ \A i \in 1..8 : Whole[i] \in Texts /\ Whole[i][1].v \in Words
<1>1. /\ Num(0) \in Tokens /\ Num(1) \in Tokens /\ Num(2) \in Tokens /\ Num(3) \in Tokens
      /\ Num(-2) \in Tokens /\ [t |-> "number", v |-> 15] \in Tokens
      /\ Str("a") \in Tokens /\ Str("c") \in Tokens /\ Str("osm") \in Tokens
      /\ [t |-> "literal", v |-> "true"] \in Tokens
  <2>1. "a" \in Words /\ "c" \in Words /\ "osm" \in Words
    BY DEF Words
  <2>2. 0 \in Int /\ 1 \in Int /\ 2 \in Int /\ 3 \in Int /\ -2 \in Int /\ 15 \in Int
    OBVIOUS
  <2> QED
    BY <2>1, <2>2, TokensAre
<1> DEFINE Known(m) == m \in Texts /\ m[1].v \in Words
<1>2. \A k \in Words, p \in Texts : Known(Member(k, p))
  BY MembersAre
<1>3. /\ "pack_id" \in Words /\ "bounds" \in Words /\ "min_zoom" \in Words /\ "max_zoom" \in Words
      /\ "priority" \in Words /\ "sources" \in Words /\ "required_attribution" \in Words
      /\ "other" \in Words /\ "provenance_id" \in Words /\ "min_lon" \in Words /\ "min_lat" \in Words
      /\ "max_lon" \in Words /\ "max_lat" \in Words
  BY DEF Words
<1>4. BoundsDoc \in Texts
  <2> DEFINE a == Member("min_lon", <<Num(1)>>)
             b == Member("min_lat", <<Num(0)>>)
             c == Member("max_lon", <<Num(2)>>)
             d == Member("max_lat", <<[t |-> "number", v |-> 15]>>)
  <2>1. a \in Texts /\ b \in Texts /\ c \in Texts /\ d \in Texts
    BY <1>1, <1>2, <1>3, SmallTexts
  <2> HIDE DEF a, b, c, d
  <2>2. <<a, b, c, d>> \in Seq(Texts) /\ <<a, b, c, d>> # <<>>
    BY <2>1
  <2> QED
    BY <2>2, NestedTexts DEF BoundsDoc, a, b, c, d
<1>5. Arr(<<SourceDoc>>) \in Texts
  <2> DEFINE a == Member("provenance_id", <<Str("osm")>>)
  <2>1. a \in Texts
    BY <1>1, <1>2, <1>3, SmallTexts
  <2> HIDE DEF a
  <2>2. <<a>> \in Seq(Texts) /\ <<a>> # <<>>
    BY <2>1
  <2>3. SourceDoc \in Texts
    BY <2>2, NestedTexts DEF SourceDoc, a
  <2> QED
    BY <2>3, NestedTexts, SmallTexts
<1>6. Arr(<<<<Str("c")>>>>) \in Texts
  <2> DEFINE a == <<Str("c")>>
  <2>1. a \in Texts
    BY <1>1, SmallTexts
  <2> HIDE DEF a
  <2>2. Arr(<<a>>) \in Texts
    BY <2>1, NestedTexts, SmallTexts
  <2> QED
    BY <2>2 DEF a
<1>7. Arr(<<<<Chr("{"), Chr("}")>>, <<[t |-> "literal", v |-> "true"]>>>>) \in Texts
  <2> DEFINE a == <<Chr("{"), Chr("}")>>
             b == <<[t |-> "literal", v |-> "true"]>>
  <2>1. a \in Texts /\ b \in Texts
    BY <1>1, CharsAreTexts, SmallTexts, Zenon
  <2> HIDE DEF a, b
  <2>2. Arr(<<a, b>>) \in Texts
    BY <2>1, NestedTexts, SmallTexts
  <2> QED
    BY <2>2, Zenon DEF a, b
<1> DEFINE m1 == Member("pack_id", <<Str("a")>>)
           m2 == Member("bounds", BoundsDoc)
           m3 == Member("min_zoom", <<Num(0)>>)
           m4 == Member("max_zoom", <<Num(3)>>)
           m5 == Member("priority", <<Num(-2)>>)
           m6 == Member("sources", Arr(<<SourceDoc>>))
           m7 == Member("required_attribution", Arr(<<<<Str("c")>>>>))
           m8 == Member("other", Arr(<<<<Chr("{"), Chr("}")>>, <<[t |-> "literal", v |-> "true"]>>>>))
<1>8. Known(m1) /\ Known(m2) /\ Known(m3) /\ Known(m4)
  <2> HIDE DEF Known
  <2> QED
    BY <1>1, <1>2, <1>3, <1>4, SmallTexts
<1>9. Known(m5) /\ Known(m6) /\ Known(m7) /\ Known(m8)
  <2> HIDE DEF Known
  <2> QED
    BY <1>1, <1>2, <1>3, <1>5, <1>6, <1>7, SmallTexts, Zenon
<1>10. Whole = <<m1, m2, m3, m4, m5, m6, m7, m8>>
  BY DEF Whole
<1> HIDE DEF m1, m2, m3, m4, m5, m6, m7, m8
<1>11. Whole \in Seq(Texts)
  <2>1. <<m1, m2, m3, m4, m5, m6, m7, m8>> \in Seq(Texts)
    BY <1>8, <1>9
  <2> QED
    BY <1>10, <2>1
<1>12. Len(Whole) = 8
  BY <1>10
<1>13. \A i \in 1..8 : Whole[i] \in Texts /\ Whole[i][1].v \in Words
  <2>1. /\ Whole[1] = m1 /\ Whole[2] = m2 /\ Whole[3] = m3 /\ Whole[4] = m4
        /\ Whole[5] = m5 /\ Whole[6] = m6 /\ Whole[7] = m7 /\ Whole[8] = m8
    BY <1>10
  <2>2. \A i \in 1..8 : i = 1 \/ i = 2 \/ i = 3 \/ i = 4 \/ i = 5 \/ i = 6 \/ i = 7 \/ i = 8
    OBVIOUS
  <2> QED
    BY <1>8, <1>9, <2>1, <2>2
<1> QED
  BY <1>11, <1>12, <1>13

LEMMA OthersAreTexts == \A o \in Others : o \in Texts
<1>1. /\ Num(7) \in Tokens /\ Num(1) \in Tokens /\ Str("x") \in Tokens
      /\ [t |-> "number", v |-> 5] \in Tokens
  <2>1. "x" \in Words /\ 7 \in Int /\ 1 \in Int /\ 5 \in Int
    BY DEF Words
  <2> QED
    BY <2>1, TokensAre
<1> DEFINE none == Arr(<<>>)
           one == Arr(<<none>>)
           two == Arr(<<one>>)
           seven == <<Num(7)>>
           x == <<Str("x")>>
           five == <<[t |-> "number", v |-> 5]>>
           number == <<Num(1)>>
           numbers == Arr(<<number>>)
<1>2. none \in Texts
  BY NestedTexts, SmallTexts
<1>3. seven \in Texts /\ x \in Texts /\ five \in Texts /\ number \in Texts
  BY <1>1, SmallTexts
<1>4. Others = {seven, x, five, none, one, numbers, two}
  BY DEF Others
<1> HIDE DEF none, seven, x, five, number
<1>5. one \in Texts /\ numbers \in Texts
  BY <1>2, <1>3, NestedTexts, SmallTexts
<1> HIDE DEF one, numbers
<1>6. two \in Texts
  BY <1>5, NestedTexts, SmallTexts
<1> HIDE DEF two
<1> QED
  BY <1>2, <1>3, <1>4, <1>5, <1>6

LEMMA DocumentsAreTexts == \A text \in Documents : text \in Texts
<1>1. /\ Whole \in Seq(Texts) /\ Len(Whole) = 8
      /\ \A i \in 1..8 : Whole[i] \in Texts /\ Whole[i][1].v \in Words
  BY WholeIsItsMembers
<1>2. Obj(Whole) \in Texts /\ Obj(Whole \o Whole) \in Texts
  <2>1. Whole \o Whole \in Seq(Texts) /\ Len(Whole \o Whole) = 16
    <3>1. Whole \in Seq(Texts)
      BY <1>1
    <3>2. Whole \o Whole \in Seq(Texts) /\ Len(Whole \o Whole) = Len(Whole) + Len(Whole)
      BY ONLY <3>1, ConcatProperties
    <3> QED
      BY <1>1, <3>2
  <2>2. Whole # <<>> /\ Whole \o Whole # <<>>
    <3> DEFINE both == Whole \o Whole
               none == <<>>
    <3>1. Len(none) = 0
      OBVIOUS
    <3>2. Len(both) = 16 /\ Len(Whole) = 8
      BY <1>1, <2>1
    <3> HIDE DEF both, none
    <3>3. \A s : s = none => Len(s) = 0
      BY <3>1
    <3>4. both # none /\ Whole # none
      BY <3>2, <3>3
    <3> QED
      BY <3>4 DEF both, none
  <2> DEFINE both == Whole \o Whole
  <2> HIDE DEF both
  <2>3. both \in Seq(Texts) /\ both # <<>>
    BY <2>1, <2>2 DEF both
  <2>4. Obj(Whole) \in Texts /\ Obj(both) \in Texts
    BY <1>1, <2>2, <2>3, NestedTexts
  <2> QED
    BY <2>4 DEF both
<1>3. \A n \in Nat : Nest(n) \in Texts
  <2> SUFFICES ASSUME NEW n \in Nat PROVE Nest(n) \in Texts
    OBVIOUS
  <2> DEFINE open == Chr("[")
             close == Chr("]")
  <2>1. open \in Tokens /\ close \in Tokens
    <3>1. "[" \in Kinds /\ "]" \in Kinds
      BY DEF Kinds
    <3> QED
      BY <3>1, TokensAre
  <2> HIDE DEF open, close
  <2> DEFINE a == [i \in 1..n |-> open]
             b == [i \in 1..n |-> close]
  <2>2. a \in Seq(Tokens) /\ b \in Seq(Tokens)
    BY <2>1, IsASeq
  <2> HIDE DEF a, b
  <2>3. a \o b \in Seq(Tokens)
    BY <2>2, ConcatProperties
  <2> QED
    BY <2>3 DEF Nest, Texts, a, b, open, close
<1>4. <<Num(1)>> \in Texts
  <2>1. Num(1) \in Tokens
    <3>1. 1 \in Int
      OBVIOUS
    <3> QED
      BY <3>1, TokensAre
  <2> QED
    BY <2>1, SmallTexts
<1>5. Obj(Whole) \o <<Chr("}")>> \in Texts
  BY <1>2, CharsAreTexts, ConcatProperties, Zenon DEF Texts
<1>6. \A i \in 1..8, o \in Others : Obj([Whole EXCEPT ![i] = Member(@[1].v, o)]) \in Texts
  <2> SUFFICES ASSUME NEW i \in 1..8, NEW o \in Others
               PROVE  Obj([Whole EXCEPT ![i] = Member(@[1].v, o)]) \in Texts
    OBVIOUS
  <2> DEFINE m == Member(Whole[i][1].v, o)
             changed == [Whole EXCEPT ![i] = m]
  <2>1. m \in Texts
    BY <1>1, MembersAre, OthersAreTexts
  <2> HIDE DEF m
  <2>2. changed \in Seq(Texts) /\ Len(changed) = 8
    <3>1. changed \in [1..8 -> Texts]
      <4>1. DOMAIN Whole = 1..8
        BY <1>1, LenProperties
      <4>2. \A k \in 1..8 : Whole[k] \in Texts
        BY <1>1
      <4>3. changed = [k \in 1..8 |-> IF k = i THEN m ELSE Whole[k]]
        BY ONLY <4>1
      <4> QED
        BY ONLY <2>1, <4>2, <4>3
    <3>2. changed = [k \in 1..8 |-> changed[k]] /\ \A k \in 1..8 : changed[k] \in Texts
      BY <3>1
    <3> HIDE DEF changed
    <3>3. changed \in Seq(Texts)
      BY <3>2, IsASeq
    <3> QED
      BY <3>1, <3>3, LenProperties
  <2>3. changed # <<>>
    <3> HIDE DEF changed
    <3> QED
      BY <2>2
  <2>4. Obj(changed) \in Texts
    <3> HIDE DEF changed
    <3> QED
      BY <2>2, <2>3, NestedTexts
  <2> QED
    BY <2>4 DEF m
<1>7. \A i \in 1..8 : Obj(Seqs!RemoveAt(Whole, i)) \in Texts
  <2> SUFFICES ASSUME NEW i \in 1..8 PROVE Obj(Seqs!RemoveAt(Whole, i)) \in Texts
    OBVIOUS
  <2> DEFINE a == SubSeq(Whole, 1, i - 1)
             b == SubSeq(Whole, i + 1, 8)
             left == Seqs!RemoveAt(Whole, i)
  <2>1. a \in Seq(Texts) /\ Len(a) = i - 1
    <3>1. 1 \in Int /\ i - 1 \in Int /\ \A k \in 1..i - 1 : Whole[k] \in Texts
      <4>1. \A k \in 1..i - 1 : k \in 1..8
        OBVIOUS
      <4> QED
        BY <1>1, <4>1
    <3> DEFINE e == i - 1
    <3> HIDE DEF e
    <3>2. a \in Seq(Texts) /\ Len(a) = IF 1 <= e THEN e - 1 + 1 ELSE 0
      BY <3>1, SubSeqProperties DEF e
    <3>3. (IF 1 <= e THEN e - 1 + 1 ELSE 0) = i - 1
      BY DEF e
    <3> QED
      BY <3>2, <3>3
  <2>2. b \in Seq(Texts) /\ Len(b) = 8 - i
    <3> DEFINE f == i + 1
    <3>1. f \in Int /\ 8 \in Int /\ \A k \in f..8 : Whole[k] \in Texts
      <4>1. \A k \in f..8 : k \in 1..8
        OBVIOUS
      <4> QED
        BY <1>1, <4>1
    <3> HIDE DEF f
    <3>2. b \in Seq(Texts) /\ Len(b) = IF f <= 8 THEN 8 - f + 1 ELSE 0
      BY <3>1, SubSeqProperties DEF f
    <3>3. (IF f <= 8 THEN 8 - f + 1 ELSE 0) = 8 - i
      BY DEF f
    <3> QED
      BY <3>2, <3>3
  <2>3. left = a \o b
    BY <1>1 DEF Seqs!RemoveAt
  <2> HIDE DEF a, b, left
  <2>4. left \in Seq(Texts) /\ Len(left) = 7
    BY <2>1, <2>2, <2>3, ConcatProperties
  <2>5. left # <<>>
    BY <2>4, SMTT(30)
  <2> QED
    BY <2>4, <2>5, NestedTexts DEF left
<1>8. MaxDepth + 1 \in Nat /\ MaxDepth + 2 \in Nat
  BY DocumentAssumption
<1> DEFINE Changed(i, o) == Obj([Whole EXCEPT ![i] = Member(@[1].v, o)])
           Left(i) == Obj(Seqs!RemoveAt(Whole, i))
           first == {Obj(Whole), Obj(Whole \o Whole), Nest(MaxDepth + 1), Nest(MaxDepth + 2), <<Num(1)>>,
                     Obj(Whole) \o <<Chr("}")>>}
           second == {Changed(i, o) : i \in 1..8, o \in Others}
           third == {Left(i) : i \in 1..8}
<1>9. Documents = first \cup second \cup third
  BY DEF Documents
<1>10. \A text \in first : text \in Texts
  <2>1. Nest(MaxDepth + 1) \in Texts /\ Nest(MaxDepth + 2) \in Texts
    BY <1>3, <1>8
  <2> QED
    BY <1>2, <1>4, <1>5, <2>1, Zenon
<1>11. /\ \A i \in 1..8, o \in Others : Changed(i, o) \in Texts
       /\ \A i \in 1..8 : Left(i) \in Texts
  BY <1>6, <1>7
<1> HIDE DEF Changed, Left
<1>12. (\A text \in second : text \in Texts) /\ (\A text \in third : text \in Texts)
  BY <1>11
<1> HIDE DEF first, second, third
<1> QED
  BY <1>9, <1>10, <1>12

\* Whichever manifest the library's run looks at, it is refused when it is cut.
THEOREM LibraryCutManifestsAreRefused == LibrarySpec => []CutManifestIsRefused
<1>1. (topic = "manifest" => input \in Documents) => CutManifestIsRefused
  <2> SUFFICES ASSUME input \in Documents PROVE Json!CutManifestIsRefused(input)
    BY DEF CutManifestIsRefused
  <2>1. input \in Seq(Tokens) /\ MaxTokens \in Nat
    BY DocumentsAreTexts, DocumentAssumption DEF Texts
  <2> QED
    BY <2>1, CutManifestsAreRefused
<1> QED
  BY <1>1, InputsStay, PTL

-----------------------------------------------------------------------------
(* Drawings.                                                               *)

LEMMA DrawingLasts ==
  ASSUME NEW n \in Nat
  PROVE  Lasts([s \in SUBSET (1..n) |-> View!Seqs!Max(s)], n)
<1>1. ASSUME NEW s \in SUBSET (1..n), s # {}
      PROVE  View!Seqs!Max(s) \in s /\ \A i \in s : i <= View!Seqs!Max(s)
  <2>1. View!Seqs!Max(s) = Seqs!Max(s)
    BY DEF View!Seqs!Max, Seqs!Max
  <2> QED
    BY <1>1, <2>1, LastPosition
<1> QED
  BY <1>1 DEF Lasts

\* The calls that a feature whose points are in P may make.
Places(P, map, v) == {View!OnScreen(v, map, p) : p \in P}

Calls(P, f, map, v, style) ==
  [op : {"pixel", "line", "polygon"}, at : Seq(Places(P, map, v)),
   paint : {View!ResolveFeatureStyle(f.kind, v.zoom, style)}]

\* A feature is drawn by calls, of which none is a refusal.
LEMMA FeatureIsCalls ==
  ASSUME NEW P, NEW f, f.paths \in Seq(Seq(P)), NEW map, NEW v, NEW style
  PROVE  /\ View!RenderOneFeature(f, map, v, style) \in Seq(Calls(P, f, map, v, style))
         /\ View!RenderOneFeature(f, map, v, style) # View!NoDrawing
<1> DEFINE C == Calls(P, f, map, v, style)
           Q == Places(P, map, v)
           paint == View!ResolveFeatureStyle(f.kind, v.zoom, style)
           paths == [i \in DOMAIN f.paths |-> [j \in DOMAIN f.paths[i] |-> View!OnScreen(v, map, f.paths[i][j])]]
           points(path) == [j \in DOMAIN path |-> [op |-> "pixel", at |-> <<path[j]>>, paint |-> paint]]
           lines(path) == [j \in 1..Len(path) - 1 |->
                             [op |-> "line", at |-> <<path[j], path[j + 1]>>, paint |-> paint]]
           dots == [i \in DOMAIN paths |-> points(paths[i])]
           strokes == [i \in DOMAIN paths |-> lines(paths[i])]
           n == Len(f.paths)
           drawn == View!RenderOneFeature(f, map, v, style)
<1>1. n \in Nat /\ DOMAIN f.paths = 1..n /\ DOMAIN paths = 1..n
  BY LenProperties
<1>2. \A i \in 1..n : paths[i] \in Seq(Q)
  <2> SUFFICES ASSUME NEW i \in 1..n PROVE paths[i] \in Seq(Q)
    OBVIOUS
  <2> DEFINE path == f.paths[i]
             at == [j \in DOMAIN path |-> View!OnScreen(v, map, path[j])]
  <2>1. path \in Seq(P) /\ paths[i] = at
    BY <1>1, ElementOfSeq
  <2> HIDE DEF path
  <2>2. Len(path) \in Nat /\ DOMAIN path = 1..Len(path) /\ \A j \in 1..Len(path) : path[j] \in P
    BY <2>1, LenProperties, ElementOfSeq
  <2>3. at = [j \in 1..Len(path) |-> View!OnScreen(v, map, path[j])]
    BY <2>2
  <2>4. \A j \in 1..Len(path) : View!OnScreen(v, map, path[j]) \in Q
    BY <2>2 DEF Places
  <2>5. [j \in 1..Len(path) |-> View!OnScreen(v, map, path[j])] \in Seq(Q)
    BY <2>2, <2>4, IsASeq
  <2> HIDE DEF at
  <2> QED
    BY <2>1, <2>3, <2>5
<1>3. \A a, b \in Q : /\ [op |-> "pixel", at |-> <<a>>, paint |-> paint] \in C
                      /\ [op |-> "line", at |-> <<a, b>>, paint |-> paint] \in C
  <2> HIDE DEF Q
  <2>1. \A a, b \in Q : <<a>> \in Seq(Q) /\ <<a, b>> \in Seq(Q)
    OBVIOUS
  <2>2. \A s \in Seq(Q), op \in {"pixel", "line", "polygon"} : [op |-> op, at |-> s, paint |-> paint] \in C
    BY DEF Calls, Q
  <2> QED
    BY <2>1, <2>2
<1>4. \A s \in Seq(Q) : [op |-> "polygon", at |-> s, paint |-> paint] \in C
  BY DEF Calls
<1> HIDE DEF Q, C, paint
<1>5. \A path \in Seq(Q) : points(path) \in Seq(C) /\ lines(path) \in Seq(C)
  <2> SUFFICES ASSUME NEW path \in Seq(Q) PROVE points(path) \in Seq(C) /\ lines(path) \in Seq(C)
    OBVIOUS
  <2>1. Len(path) \in Nat /\ DOMAIN path = 1..Len(path) /\ \A j \in 1..Len(path) : path[j] \in Q
    BY LenProperties, ElementOfSeq
  <2>2. \A j \in 1..Len(path) : [op |-> "pixel", at |-> <<path[j]>>, paint |-> paint] \in C
    BY <1>3, <2>1
  <2>3. [j \in 1..Len(path) |-> [op |-> "pixel", at |-> <<path[j]>>, paint |-> paint]] \in Seq(C)
    BY <2>1, <2>2, IsASeq
  <2>4. CASE Len(path) = 0
    <3>1. lines(path) = <<>>
      BY <2>4
    <3>2. <<>> \in Seq(C)
      OBVIOUS
    <3> QED
      BY <2>1, <2>3, <3>1, <3>2
  <2>5. CASE Len(path) # 0
    <3> DEFINE m == Len(path) - 1
    <3>1. m \in Nat /\ \A j \in 1..m : j \in 1..Len(path) /\ j + 1 \in 1..Len(path)
      BY <2>1, <2>5
    <3>2. \A j \in 1..m : [op |-> "line", at |-> <<path[j], path[j + 1]>>, paint |-> paint] \in C
      BY <1>3, <2>1, <3>1
    <3>3. [j \in 1..m |-> [op |-> "line", at |-> <<path[j], path[j + 1]>>, paint |-> paint]] \in Seq(C)
      <4> HIDE DEF m
      <4> QED
        BY <3>1, <3>2, IsASeq
    <3> QED
      BY <2>1, <2>3, <3>3
  <2> QED
    BY <2>4, <2>5
<1> HIDE DEF points, lines, n, paths
<1>6. \A seqs \in [1..n -> Seq(C)] : View!Seqs!FlattenSeq(seqs) \in Seq(C)
  <2> SUFFICES ASSUME NEW seqs \in [1..n -> Seq(C)] PROVE View!Seqs!FlattenSeq(seqs) \in Seq(C)
    OBVIOUS
  <2>1. PICK c \in [0..n -> Seq(C)] : Part!EndToEndIs(c, seqs, n, Part!Seqs!FlattenSeq(seqs))
    BY <1>1, Part!FlattenRuns
  <2>2. View!Seqs!FlattenSeq(seqs) = Part!Seqs!FlattenSeq(seqs)
    BY DEF View!Seqs!FlattenSeq, Part!Seqs!FlattenSeq
  <2> QED
    BY <1>1, <2>1, <2>2 DEF Part!EndToEndIs
<1>7. dots \in [1..n -> Seq(C)] /\ strokes \in [1..n -> Seq(C)]
  BY <1>1, <1>2, <1>5
<1>8. <<>> \in Seq(C)
  OBVIOUS
<1>9. paths # <<>> /\ Len(paths[1]) >= 3 => <<[op |-> "polygon", at |-> paths[1], paint |-> paint]>> \in Seq(C)
  <2> SUFFICES ASSUME paths # <<>> PROVE <<[op |-> "polygon", at |-> paths[1], paint |-> paint]>> \in Seq(C)
    OBVIOUS
  <2>1. n # 0
    <3> SUFFICES ASSUME n = 0 PROVE paths = <<>>
      OBVIOUS
    <3>1. DOMAIN paths = {} /\ paths = [i \in DOMAIN paths |-> paths[i]]
      BY <1>1 DEF paths
    <3> QED
      BY <3>1
  <2> DEFINE filled == [op |-> "polygon", at |-> paths[1], paint |-> paint]
  <2>2. filled \in C
    BY <1>1, <1>2, <1>4, <2>1
  <2> HIDE DEF filled
  <2>3. <<filled>> \in Seq(C)
    BY <2>2
  <2> QED
    BY <2>3 DEF filled
<1>10. drawn \in {<<>>, View!Seqs!FlattenSeq(dots), View!Seqs!FlattenSeq(strokes)}
         \/ (paths # <<>> /\ Len(paths[1]) >= 3 /\ drawn = <<[op |-> "polygon", at |-> paths[1], paint |-> paint]>>)
  BY Zenon DEF View!RenderOneFeature, paths, points, lines, paint
<1> HIDE DEF drawn, dots, strokes
<1>11. drawn \in Seq(C)
  BY <1>6, <1>7, <1>8, <1>9, <1>10
<1>12. drawn # View!NoDrawing
  <2> SUFFICES ASSUME drawn = View!NoDrawing PROVE FALSE
    OBVIOUS
  <2>1. Len(drawn) = 1 /\ drawn[1].op = "refused"
    BY DEF View!NoDrawing
  <2>2. drawn[1] \in C
    <3>1. 1 \in 1..Len(drawn)
      BY <2>1
    <3> QED
      BY ONLY <1>11, <3>1, ElementOfSeq
  <2>3. drawn[1].op \in {"pixel", "line", "polygon"}
    BY <2>2 DEF C, Calls
  <2> QED
    BY <2>1, <2>3
<1> QED
  BY <1>11, <1>12 DEF drawn, C

\* A feature's own map.
MapFor(f, placement, v, default) == View!TileMap(v, placement, View!Extent(f, default))

\* A tile drawn whole, over one kept map, is its features drawn one by one,
\* however many there are, of whatever shapes, extents, kinds and style.
THEOREM TilesAreTheirFeatures ==
  ASSUME NEW P, NEW D, NEW features \in Seq(D), \A f \in D : f.paths \in Seq(Seq(P)),
         NEW placement, NEW v, NEW style, NEW default, default # 0
  PROVE  View!TileIsItsFeatures(features, placement, v, style, default)
<1> DEFINE n == Len(features)
           each(i) == View!RenderFeatureAt(features[i], placement, v, style, default)
           whole == View!RenderFeatureTileAt(features, placement, v, style, default)
           bad == v.zoom \notin 0..2 \/ placement.z # v.zoom
           own(i) == MapFor(features[i], placement, v, default)
           drawing(i) == View!RenderOneFeature(features[i], own(i), v, style)
           of(i) == Calls(P, features[i], own(i), v, style)
           all == UNION {of(i) : i \in 1..n}
<1>1. n \in Nat /\ DOMAIN features = 1..n /\ \A i \in 1..n : features[i] \in D
  BY LenProperties, ElementOfSeq
<1>2. CASE bad
  <2>1. whole = View!NoDrawing /\ \A i \in DOMAIN features : each(i) = View!NoDrawing
    BY <1>2, Zenon DEF View!RenderFeatureTileAt, View!RenderFeatureAt
  <2>2. DOMAIN features = {} => features = <<>>
    <3>1. features = [i \in DOMAIN features |-> features[i]]
      BY <1>1, LenProperties
    <3> QED
      BY <3>1
  <2> HIDE DEF whole, each
  <2>3. IF \E i \in DOMAIN features : each(i) = View!NoDrawing THEN whole = View!NoDrawing
        ELSE features # <<>> => whole = View!Seqs!FlattenSeq([i \in DOMAIN features |-> each(i)])
    BY <2>1, <2>2
  <2> QED
    BY <2>3 DEF View!TileIsItsFeatures, whole, each
<1>3. CASE ~bad
  <2> DEFINE X == [map : {View!NothingDrawn.map} \cup {own(i) : i \in 1..n}, drawn : Seq(all)]
             base == View!NothingDrawn
             last(s) == View!Seqs!Max(s)
             mx == [s \in SUBSET (1..n) |-> last(s)]
             One(acc, i) == View!RenderNext(acc, features[i], placement, v, style, default)
             step == [q \in X \X (1..n) |-> One(q[1], q[2])]
             Folds(h) == h = [s \in SUBSET DOMAIN features |->
                                IF s = {} THEN base ELSE One(h[s \ {last(s)}], last(s))]
             fold == CHOOSE h : Folds(h)
  <2>1. \A i \in 1..n : drawing(i) \in Seq(of(i)) /\ drawing(i) # View!NoDrawing
    <3> SUFFICES ASSUME NEW i \in 1..n PROVE drawing(i) \in Seq(of(i)) /\ drawing(i) # View!NoDrawing
      OBVIOUS
    <3>1. features[i].paths \in Seq(Seq(P))
      BY <1>1
    <3> QED
      BY <3>1, FeatureIsCalls
  <2>2. \A i \in 1..n : drawing(i) \in Seq(all)
    <3> HIDE DEF drawing, of, n
    <3> SUFFICES ASSUME NEW i \in 1..n PROVE drawing(i) \in Seq(all)
      OBVIOUS
    <3>1. of(i) \subseteq all
      OBVIOUS
    <3> QED
      BY <2>1, <3>1, Part!SeqMonotone
  <2>3. \A i \in 1..n : each(i) = drawing(i)
    BY <1>3 DEF View!RenderFeatureAt, MapFor
  <2>4. whole = fold[DOMAIN features].drawn
    BY <1>3 DEF View!RenderFeatureTileAt, View!Seqs!FoldLeft, View!Seqs!MapThenFoldSet
  <2> HIDE DEF fold, n, whole, each
  <2>5. base \in X
    <3>1. <<>> \in Seq(all)
      OBVIOUS
    <3> HIDE DEF all, own
    <3> QED
      BY <3>1 DEF View!NothingDrawn
  <2>6. ASSUME NEW x \in X, NEW i \in 1..n PROVE One(x, i) = [map |-> own(i), drawn |-> x.drawn \o drawing(i)]
    <3> DEFINE e(j) == View!Extent(features[j], default)
    <3>1. e(i) # 0
      BY DEF View!Extent
    <3>2. \A j : own(j) = View!TileMap(v, placement, e(j)) /\ own(j).extent = e(j)
      BY DEF MapFor, View!TileMap
    <3>3. View!NothingDrawn.map.extent = 0
      BY DEF View!NothingDrawn
    <3>4. x.map = View!NothingDrawn.map \/ \E j \in 1..n : x.map = own(j)
      <4> HIDE DEF all, own
      <4> QED
        OBVIOUS
    <3> HIDE DEF e, own
    <3>5. View!Prepare(x.map, v, placement, e(i)) = own(i)
      <4>1. ASSUME x.map.extent = e(i) PROVE x.map = own(i)
        BY <3>1, <3>2, <3>3, <3>4, <4>1
      <4> QED
        BY <3>2, <4>1 DEF View!Prepare
    <3> QED
      BY <3>5 DEF View!RenderNext, e
  <2> HIDE DEF One
  <2>7. \A x \in X, i \in 1..n : One(x, i) \in X
    <3> SUFFICES ASSUME NEW x \in X, NEW i \in 1..n PROVE One(x, i) \in X
      OBVIOUS
    <3> HIDE DEF all, own, drawing
    <3> DEFINE both == x.drawn \o drawing(i)
    <3>1. both \in Seq(all)
      <4>1. x.drawn \in Seq(all)
        OBVIOUS
      <4> QED
        BY <2>2, <4>1, ConcatProperties
    <3> HIDE DEF both
    <3>2. [map |-> own(i), drawn |-> both] \in X
      BY <3>1
    <3> QED
      BY <2>6, <3>2 DEF both
  <2> HIDE DEF X
  <2>8. step \in [X \X (1..n) -> X]
    BY <2>7
  <2>9. \A x \in X, i \in 1..n : step[<<x, i>>] = One(x, i) /\ step[<<x, i>>] \in X
    BY <2>7
  <2>10. Lasts(mx, n) /\ \A s \in SUBSET (1..n) : mx[s] = last(s)
    BY <1>1, DrawingLasts
  <2> HIDE DEF base, step, mx
  <2>11. PICK g \in [SUBSET (1..n) -> X] : Fold(g, n, mx, base, step)
    BY ONLY <1>1, <2>5, <2>8, <2>10, FoldExists
  <2>12. Folds(fold)
    <3>1. ASSUME NEW s \in SUBSET (1..n), s # {}
          PROVE  g[s] = One(g[s \ {last(s)}], last(s))
      <4>1. g[s] = step[<<g[s \ {mx[s]}], mx[s]>>] /\ mx[s] \in 1..n /\ g[s \ {mx[s]}] \in X
        BY <2>10, <2>11, <3>1 DEF Fold, Lasts
      <4> HIDE DEF last
      <4> QED
        BY <2>9, <2>10, <4>1
    <3>2. g[{}] = base
      BY <2>11 DEF Fold
    <3>3. Folds(g)
      <4> HIDE DEF last
      <4> QED
        BY <1>1, <2>11, <3>1, <3>2
    <3> HIDE DEF Folds
    <3> QED
      BY <3>3 DEF fold
  <2>13. fold[{}] = base
    <3>1. {} \in SUBSET (1..n)
      OBVIOUS
    <3> HIDE DEF last
    <3> QED
      BY <1>1, <2>12, <3>1
  <2>14. \A s \in SUBSET (1..n) :
           s # {} /\ fold[s \ {mx[s]}] \in X => fold[s] = step[<<fold[s \ {mx[s]}], mx[s]>>]
    <3> SUFFICES ASSUME NEW s \in SUBSET (1..n), s # {}, fold[s \ {mx[s]}] \in X
                 PROVE  fold[s] = step[<<fold[s \ {mx[s]}], mx[s]>>]
      OBVIOUS
    <3>1. fold[s] = One(fold[s \ {last(s)}], last(s))
      <4> HIDE DEF last
      <4> QED
        BY <1>1, <2>12
    <3>2. mx[s] = last(s) /\ mx[s] \in 1..n
      BY <2>10 DEF Lasts
    <3> HIDE DEF last
    <3> QED
      BY <2>9, <3>1, <3>2
  <2>15. \E r \in [0..n -> X] : RecursionTo(r, n, base, step, fold[1..n])
    <3>1. \A x \in X, i \in 1..n : step[<<x, i>>] \in X
      BY <2>9, Zenon
    <3>2. n \in Nat /\ base \in X /\ Lasts(mx, n) /\ fold[{}] = base
      BY <1>1, <2>5, <2>10, <2>13
    <3> HIDE DEF last, Folds
    <3> QED
      BY ONLY <2>14, <3>1, <3>2, FoldRuns
  <2>16. PICK r \in [0..n -> X] : Recursion(r, n, base, step) /\ r[n] = fold[1..n]
    BY <2>15 DEF RecursionTo
  <2>17. ASSUME NEW k \in 1..n PROVE r[k] = One(r[k - 1], k)
    <3>1. r[k] = step[<<r[k - 1], k>>] /\ k - 1 \in 0..n
      BY <1>1, <2>16 DEF Recursion
    <3> QED
      BY <2>9, <2>16, <3>1
  <2>20. \A i \in 1..n : One(r[i - 1], i) = [map |-> own(i), drawn |-> r[i - 1].drawn \o drawing(i)]
    <3>1. \A i \in 1..n : i - 1 \in 0..n
      BY <1>1
    <3> QED
      BY <2>6, <2>16, <3>1
  <2> DEFINE parts == [i \in 1..n |-> drawing(i)]
  <2>21. PICK c \in [0..n -> Seq(all)] : Part!EndToEndIs(c, parts, n, Part!Seqs!FlattenSeq(parts))
    <3> HIDE DEF drawing, all
    <3>1. parts \in [1..n -> Seq(all)]
      BY <2>2
    <3> HIDE DEF parts
    <3> QED
      BY <1>1, <3>1, Part!FlattenRuns
  <2> HIDE DEF drawing, all, own
  <2> DEFINE T == {k \in 0..n : r[k].drawn = c[k]}
  <2>22. 0 \in T
    <3>1. r[0] = base /\ c[0] = <<>>
      BY <2>16, <2>21 DEF Recursion, Part!EndToEndIs, Part!EndToEnd
    <3> QED
      BY <1>1, <3>1 DEF base, View!NothingDrawn
  <2>23. ASSUME NEW k \in 0..n - 1, k \in T PROVE k + 1 \in T
    <3>1. k + 1 \in 1..n /\ k + 1 \in 0..n /\ (k + 1) - 1 = k
      BY <1>1
    <3> DEFINE both == r[k].drawn \o drawing(k + 1)
    <3>2. r[k + 1] = [map |-> own(k + 1), drawn |-> both]
      BY <2>17, <2>20, <3>1
    <3>3. c[k + 1] = c[k] \o drawing(k + 1)
      BY <2>21, <3>1 DEF Part!EndToEndIs, Part!EndToEnd
    <3>4. both = c[k + 1]
      BY <2>23, <3>3
    <3> HIDE DEF both
    <3> QED
      BY <3>1, <3>2, <3>4
  <2>24. \A k \in 0..n : k \in T
    <3> HIDE DEF T
    <3> QED
      BY <1>1, <2>22, <2>23, UpTo
  <2>25. whole = Part!Seqs!FlattenSeq(parts)
    <3>1. n \in 0..n
      BY <1>1
    <3>2. r[n].drawn = c[n]
      BY <2>24, <3>1
    <3> QED
      BY <1>1, <2>4, <2>16, <2>21, <3>2 DEF Part!EndToEndIs
  <2>26. View!Seqs!FlattenSeq(parts) = Part!Seqs!FlattenSeq(parts)
    BY DEF View!Seqs!FlattenSeq, Part!Seqs!FlattenSeq
  <2>27. parts = [i \in DOMAIN features |-> each(i)]
    BY <1>1, <2>3
  <2>28. ~\E i \in DOMAIN features : each(i) = View!NoDrawing
    BY <1>1, <2>1, <2>3
  <2> HIDE DEF parts
  <2>29. whole = View!Seqs!FlattenSeq([i \in DOMAIN features |-> each(i)])
    BY <2>25, <2>26, <2>27
  <2> QED
    BY <2>28, <2>29 DEF View!TileIsItsFeatures, whole, each
<1> QED
  BY <1>2, <1>3

\* Every tile that the library's run draws is its features.
THEOREM LibraryTilesAreTheirFeatures == LibrarySpec => []TileIsItsFeatures
<1>1. (topic = "drawing" => input \in DrawInputs) => TileIsItsFeatures
  <2> SUFFICES ASSUME input \in DrawInputs
               PROVE  View!TileIsItsFeatures(input.features, input.placement, input.view, Style, 4)
    BY DEF TileIsItsFeatures
  <2> DEFINE P == {<<0, 0>>, <<2, 3>>, <<4, 0>>, <<1, 1>>}
             path == <<<<0, 0>>, <<2, 3>>, <<4, 0>>>>
             dot == <<<<1, 1>>>>
             paths == <<path, dot>>
  <2>1. path \in Seq(P) /\ dot \in Seq(P)
    <3> DEFINE a == <<0, 0>>
               b == <<2, 3>>
               c == <<4, 0>>
               d == <<1, 1>>
    <3>1. a \in P /\ b \in P /\ c \in P /\ d \in P
      OBVIOUS
    <3> HIDE DEF a, b, c, d, P
    <3>2. <<a, b, c>> \in Seq(P) /\ <<d>> \in Seq(P)
      BY <3>1
    <3> QED
      BY <3>2 DEF a, b, c, d
  <2> HIDE DEF path, dot, P
  <2>2. paths \in Seq(Seq(P))
    BY <2>1
  <2>3. \A t, k, e : Drawable(t, k, e).paths = paths
    BY DEF Drawable, path, dot
  <2>4. [Drawable("line", "road", 8) EXCEPT !.kind_assigned = FALSE].paths = paths
    BY DEF Drawable, path, dot
  <2> HIDE DEF paths
  <2>5. \A f \in Drawables : f.paths \in Seq(Seq(P))
    <3> SUFFICES ASSUME NEW f \in Drawables PROVE f.paths = paths
      BY <2>2
    <3>1. CASE \E t, k, e : f = Drawable(t, k, e)
      BY <2>3, <3>1
    <3>2. CASE f = [Drawable("line", "road", 8) EXCEPT !.kind_assigned = FALSE]
      BY <2>4, <3>2
    <3> QED
      BY <3>1, <3>2 DEF Drawables
  <2>6. input.features \in [1..2 -> Drawables]
    BY DEF DrawInputs
  <2>7. input.features \in Seq(Drawables)
    <3>1. input.features = [i \in 1..2 |-> input.features[i]] /\ \A i \in 1..2 : input.features[i] \in Drawables
      BY <2>6
    <3> QED
      BY <3>1, IsASeq
  <2>8. 4 # 0
    OBVIOUS
  <2> QED
    BY <2>5, <2>7, <2>8, TilesAreTheirFeatures
<1> QED
  BY <1>1, InputsStay, PTL

\* Every line the library's run strokes is painted by its runs.
THEOREM LibraryRunsPaintTheBrush == LibrarySpec => []RunsPaintTheBrush
<1>1. (topic = "line" => input \in LineInputs) => RunsPaintTheBrush
  <2> SUFFICES ASSUME input \in LineInputs PROVE Part!RunsPaintTheBrush(input.line, input.tenths, 3, 3)
    BY DEF RunsPaintTheBrush
  <2>1. input.tenths \in {5, 16, 30} /\ \E a, b \in LineEnds : input.line = a \o b
    BY DEF LineInputs
  <2>2. PICK a, b \in LineEnds : input.line = a \o b
    BY <2>1
  <2> DEFINE line == <<a[1], a[2], b[1], b[2]>>
  <2>3. a \in Int \X Int /\ b \in Int \X Int
    BY DEF LineEnds
  <2>4. a \o b = line /\ a[1] \in Int /\ a[2] \in Int /\ b[1] \in Int /\ b[2] \in Int
    BY <2>3, Part!TwoPixels
  <2>5. Part!IsLine(line)
    <3> SUFFICES ASSUME NEW i \in 1..4 PROVE line[i] \in Int
      BY DEF Part!IsLine
    <3>1. i = 1 \/ i = 2 \/ i = 3 \/ i = 4
      OBVIOUS
    <3> QED
      BY <2>4, <3>1
  <2>6. input.line = line
    BY <2>2, <2>4
  <2> HIDE DEF line
  <2>7. Part!IsLine(input.line) /\ input.tenths \in Int /\ 3 \in Nat \ {0}
    BY <2>1, <2>5, <2>6
  <2> QED
    BY <2>7, Part!StrokesPaintTheBrush
<1> QED
  BY <1>1, InputsStay, PTL

\* Every level the library's run looks at is a curve.
THEOREM LibraryLevelsAreCurves == LibrarySpec => []LevelsAreCurves
<1>1. (topic = "level" => input \in 0..MaxLevel) => LevelsAreCurves
  <2> SUFFICES ASSUME input \in 0..MaxLevel PROVE Part!LevelIsACurve(input)
    BY DEF LevelsAreCurves
  <2>1. \A k \in 0..input : k \in 0..MaxLevel
    BY LevelAssumption
  <2>2. /\ MaxLevel \in Nat /\ Word \in Nat \ {0}
        /\ \A k \in 0..input : Word % Part!Side[k] = 0
    BY <2>1, LevelAssumption
  <2> QED
    BY <2>2, Part!EveryLevelIsACurve
<1> QED
  BY <1>1, InputsStay, PTL

-----------------------------------------------------------------------------
(* The camera and the picker: the run's world is 16 units around.          *)

LEMMA HalfTheWorld == Map!HalfWorld = 8
<1>1. Map!PowerOfTwo = CHOOSE h : h = [k \in 0..2 + 1 |-> IF k = 0 THEN 1 ELSE 2 * h[k - 1]]
  BY DEF Map!PowerOfTwo
<1> DEFINE p == Map!PowerOfTwo
<1>2. p[0] = 1 /\ \A k \in 1..2 + 1 : p[k] = 2 * p[k - 1]
  <2> HIDE DEF p
  <2>1. 2 + 1 \in Nat
    OBVIOUS
  <2> QED
    BY <1>1, <2>1, Doubling DEF p
<1>3. p[3] = 8
  <2> HIDE DEF p
  <2>1. p[1] = 2 /\ p[2] = 2 * p[1] /\ p[3] = 2 * p[2]
    BY <1>2
  <2> QED
    BY <2>1
<1>4. Map!World = 16
  BY <1>3 DEF Map!World, Map!Px
<1> QED
  BY <1>4 DEF Map!HalfWorld

LEMMA MeansStay ==
  \A s, n \in -Map!HalfWorld..Map!HalfWorld : MCMeanLat(s, n) \in -Map!HalfWorld..Map!HalfWorld
  BY HalfTheWorld DEF MCMeanLat

\* Every screen the library's run looks at is painted by its placements.
THEOREM LibraryPlacementsPaintTheScreen == LibrarySpec => []PlacementsPaintTheScreen
<1>1. (topic = "view" => input \in Views) => PlacementsPaintTheScreen
  <2> SUFFICES ASSUME input \in Views PROVE Map!PlacementsPaintTheScreen(input)
    BY DEF PlacementsPaintTheScreen
  <2>1. input \in Map!Cameras
    BY DEF Views, Map!Cameras
  <2> QED
    BY <2>1, MeansStay, Map!TilesPaintTheScreen
<1> QED
  BY <1>1, InputsStay, PTL

\* Every box the library's run fills or fits leaves no margin.
THEOREM LibraryFillLeavesNoMargin == LibrarySpec => []FillLeavesNoMargin
<1>1. (topic = "fill" => input \in Fills) => FillLeavesNoMargin
  <2> SUFFICES ASSUME input \in Fills PROVE Map!FillLeavesNoMargin(input.view, input.bounds)
    BY DEF FillLeavesNoMargin
  <2>1. input.view \in Map!Cameras
    BY DEF Fills, Screen, Map!Cameras
  <2> QED
    BY <2>1, MeansStay, Map!FilledOrFitted
<1> QED
  BY <1>1, InputsStay, PTL

\* Every point of every screen the library's run looks at stays.
THEOREM LibraryAnchorStays == LibrarySpec => []AnchorStays
<1>1. (topic = "view" => input \in Views) => AnchorStays
  <2> SUFFICES ASSUME input \in Views, NEW sx \in 0..input.width, NEW sy \in 0..input.height,
                      NEW delta \in {-1, 1}
               PROVE  Map!AnchorStays(input, sx, sy, delta)
    BY DEF AnchorStays
  <2>1. input \in Map!Cameras /\ sx \in Int /\ sy \in Int /\ delta \in Int
    BY DEF Views, Map!Cameras
  <2> QED
    BY <2>1, MeansStay, Map!PointsStay
<1> QED
  BY <1>1, InputsStay, PTL

\* The location picker of the library's run: its zoom stays in range and an
\* untouched picker selects its opening point.
THEOREM LibrarySelectionsAreDeliberate == LibrarySpec => []SelectionIsDeliberate
<1>1. LibraryInit => Map!PickerInit
  BY DEF LibraryInit
<1>2. [LibraryNext]_libraryVars => [Map!PickerNext]_(Map!pickerVars)
  BY DEF LibraryNext, libraryVars, Map!pickerVars
<1>3. Map!PickerAssumption
  BY DEF Map!PickerAssumption, Map!Cameras, MCScreens, Screen
<1>4. Map!PickerSpec => []Map!SelectionIsDeliberate
  BY <1>3, MeansStay, Map!SelectionsAreDeliberate
<1>5. Map!SelectionIsDeliberate => SelectionIsDeliberate
  BY DEF SelectionIsDeliberate
<1> QED
  BY <1>1, <1>2, <1>4, <1>5, PTL DEF LibrarySpec, Map!PickerSpec
=============================================================================
