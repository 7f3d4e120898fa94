--------------------------- MODULE PackDiscovery ---------------------------
(***************************************************************************)
(* DiscoverPacks (src/src/core/pack_discovery.cpp): what a device makes of *)
(* the files in its pack directory when it boots.                          *)
(*                                                                         *)
(* A directory is a record of three functions on filename stems: archive   *)
(* (<stem>.pmtiles), manifest (<stem>.manifest.json) and checksum          *)
(* (<stem>.sha256, never read by the device), each NoFile where there is   *)
(* none.  A stem is the sequence of its dot-separated parts.  An archive   *)
(* is known by its content and its size; a manifest holds the identity of  *)
(* the pack, the archive's hash (its content) and size, and whether        *)
(* ValidatePackManifest accepts the rest of it.                            *)
(***************************************************************************)
EXTENDS Integers, Sequences, FiniteSets

CONSTANTS
  SortedStems,  \* every stem a file may have, in std::sort's order of names
  NoFile,       \* the file does not exist
  Torn          \* a manifest cut short: not well-formed JSON

\* Mutant: the archive's size is not compared with the manifest's.
VerdictWithoutSize(dir, unreadable, s) ==
  LET m == dir.manifest[s]
  IN  IF s \in unreadable THEN "unreadable"
      ELSE IF m = Torn THEN "bad-json"
      ELSE IF ~m.valid \/ m.size = 0 THEN "invalid-manifest"
      ELSE IF dir.archive[s] = NoFile THEN "archive-missing"
      ELSE "added"

\* The checks made of one manifest by itself, in the order DiscoverPacks makes
\* them.
Verdict(dir, unreadable, s) ==
  LET m == dir.manifest[s]
      a == dir.archive[s]
  IN  IF s \in unreadable THEN "unreadable"
      ELSE IF m = Torn THEN "bad-json"
      ELSE IF ~m.valid \/ m.size = 0 THEN "invalid-manifest"
      ELSE IF a = NoFile THEN "archive-missing"
      ELSE IF a.size # m.size THEN "archive-size-mismatch"
      ELSE "added"

\* Add refuses an identity that it has: the first in order keeps it.
Duplicate(dir, unreadable, i) ==
  \E j \in 1..i - 1 :
    /\ dir.manifest[SortedStems[j]] # NoFile
    /\ Verdict(dir, unreadable, SortedStems[j]) = "added"
    /\ dir.manifest[SortedStems[j]].id = dir.manifest[SortedStems[i]].id

\* The scan: one rejected manifest never hides the packs beside it.
DiscoverPacks(dir, unreadable) ==
  LET names == {i \in DOMAIN SortedStems : dir.manifest[SortedStems[i]] # NoFile}
      verdict(i) == Verdict(dir, unreadable, SortedStems[i])
      added == {i \in names : verdict(i) = "added" /\ ~Duplicate(dir, unreadable, i)}
  IN  [catalog |-> {[stem |-> SortedStems[i], manifest |-> dir.manifest[SortedStems[i]]] : i \in added},
       rejected |-> {[stem |-> SortedStems[i],
                      why |-> IF verdict(i) = "added" THEN "duplicate" ELSE verdict(i)] :
                       i \in names \ added}]
=============================================================================
