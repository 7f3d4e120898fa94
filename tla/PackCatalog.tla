---------------------------- MODULE PackCatalog ----------------------------
(***************************************************************************)
(* PackCatalog and ResolvePack (src/src/core/pack.cpp): the local packs a  *)
(* device knows and the one it draws a request from.  Longitudes are whole *)
(* units in -MaxLon..MaxLon and latitudes in -MaxLat..MaxLat; both         *)
(* endpoints belong to a box, and min_lon > max_lon means that it crosses  *)
(* the antimeridian.                                                       *)
(***************************************************************************)
EXTENDS Integers, Sequences, FiniteSets

Seqs == INSTANCE SequencesExt

CONSTANTS
  Manifests,       \* the manifests that may be offered to Add()
  MaxLon, MaxLat,  \* 180 degrees and kMercatorMaxLatDeg
  MaxZoom,         \* the largest valid zoom
  Requests,        \* the boxes that may be asked for
  NoPack

VARIABLE packs     \* packs_, in insertion order

ASSUME CatalogAssumption ==
  MaxLon \in Nat \ {0} /\ MaxLat \in Nat \ {0} /\ MaxZoom \in Nat

\* priority is an int and ids are totally ordered; of the rest of a manifest
\* nothing is assumed before it is validated.
ASSUME ManifestAssumption ==
  NoPack \notin Manifests /\ \A m \in Manifests : m.priority \in Int /\ m.pack_id \in Int

ValidBounds(b) ==
  /\ b.min_lon \in -MaxLon..MaxLon /\ b.max_lon \in -MaxLon..MaxLon
  /\ b.min_lat \in -MaxLat..MaxLat /\ b.max_lat \in -MaxLat..MaxLat
  /\ b.min_lat <= b.max_lat

ZoomIsValid(z) == z \in 0..MaxZoom

\* The part of ValidatePackManifest the catalogue's answers depend on: `sound`
\* stands for its checks of fields that only have to be present and well formed.
Valid(m) ==
  /\ m.sound
  /\ ValidBounds(m.bounds)
  /\ ZoomIsValid(m.min_zoom) /\ ZoomIsValid(m.max_zoom) /\ m.min_zoom <= m.max_zoom

\* Mutant: a box across the antimeridian keeps its western part only.
SplitLongitudeWest(b) ==
  {[min |-> b.min_lon, max |-> IF b.min_lon <= b.max_lon THEN b.max_lon ELSE MaxLon]}

SplitLongitude(b) ==
  IF b.min_lon <= b.max_lon
  THEN {[min |-> b.min_lon, max |-> b.max_lon]}
  ELSE {[min |-> b.min_lon, max |-> MaxLon], [min |-> -MaxLon, max |-> b.max_lon]}

Contains(outer, inner) ==
  /\ inner.min_lat >= outer.min_lat /\ inner.max_lat <= outer.max_lat
  /\ \A i \in SplitLongitude(inner) : \E o \in SplitLongitude(outer) :
       i.min >= o.min /\ i.max <= o.max

\* Whether ResolvePack considers pack m at all for a request.
Eligible(m, requested, zoom) ==
  zoom \in m.min_zoom..m.max_zoom /\ Contains(m.bounds, requested)

\* Mutant: a tie goes to the pack found last.
BeatsOrTies(m, best) == best = NoPack \/ m.priority >= best.priority

\* The comparison of the scan: pack ids are ordered by std::string, here Int.
Beats(m, best) ==
  \/ best = NoPack
  \/ m.priority > best.priority
  \/ m.priority = best.priority /\ m.pack_id > best.pack_id

ResolvePack(catalog, requested, zoom) ==
  IF ~ValidBounds(requested) \/ ~ZoomIsValid(zoom) THEN NoPack
  ELSE Seqs!FoldLeft(LAMBDA best, m : IF Eligible(m, requested, zoom) /\ Beats(m, best)
                                 THEN m ELSE best,
                NoPack, catalog)

-----------------------------------------------------------------------------
Init == packs = <<>>

\* Add() refuses an invalid manifest and an identity it already has.
Add(m) ==
  /\ Valid(m)
  /\ \A i \in DOMAIN packs : packs[i].pack_id # m.pack_id
  /\ packs' = Append(packs, m)

Next == \E m \in Manifests : Add(m)

Spec == Init /\ [][Next]_packs

-----------------------------------------------------------------------------
\* What a box covers, on the map: half units, so that a gap between two whole
\* longitudes is seen.
Covered(b) ==
  {lon \in -2 * MaxLon..2 * MaxLon :
     IF b.min_lon <= b.max_lon THEN lon >= 2 * b.min_lon /\ lon <= 2 * b.max_lon
                               ELSE lon >= 2 * b.min_lon \/ lon <= 2 * b.max_lon}
  \X (2 * b.min_lat..2 * b.max_lat)

\* The pack drawn covers every point of the request at its zoom, and a request
\* goes without a pack only when no local pack covers it: on both sides of the
\* antimeridian alike ("Exactly one basemap is selected", docs/MAP_PACKS.md).
ResolvedPackCoversRequest ==
  \A q \in Requests, z \in 0..MaxZoom :
    LET answer == ResolvePack(packs, q, z)
        covers == {m \in {packs[i] : i \in DOMAIN packs} :
                     z \in m.min_zoom..m.max_zoom /\ Covered(q) \subseteq Covered(m.bounds)}
    IN  ValidBounds(q) =>
          IF covers = {} THEN answer = NoPack
          ELSE answer \in covers /\ \A m \in covers : m.priority <= answer.priority

\* The order in which a card's packs are found never matters: the same packs
\* added in the opposite order give the same answers.
OrderDoesNotMatter ==
  \A q \in Requests, z \in 0..MaxZoom :
    ResolvePack(Seqs!Reverse(packs), q, z) = ResolvePack(packs, q, z)
=============================================================================
