------------------------------ MODULE PackCard ------------------------------
(***************************************************************************)
(* From a build to a booted device: provision_pack.py,                     *)
(* build_regional_pack.py and build_world_overview.py                      *)
(* (src/tools/pack-builder) write a pack's files one at a time, in a work  *)
(* directory or straight onto the card; the device boots on what the card  *)
(* holds.  The extraction or a write may                                   *)
(* fail (OSError, CalledProcessError), and the program may be killed, or   *)
(* the card pulled, between any two steps or in the middle of a write.     *)
(*                                                                         *)
(* A request: the tool, its outputs (several for the world overview), each *)
(* the name of a pack (its file's stem) and the area it holds; the         *)
(* region_id, whether the device accepts the schema, the directory built   *)
(* in, the one staged to, --force and --existing-output.                   *)
(***************************************************************************)
EXTENDS PackDiscovery

CONSTANTS
  Requests,      \* the runs a user may make
  SizeOf(_),     \* size in bytes of a whole archive of an area
  Dirs, Card,    \* the directories packs are built in; the card's
  Nowhere,       \* --sd-root is not given
  NoRequest, Off,
  MaxRuns

VARIABLES
  pc,        \* the step the builder is at
  request,   \* the run under way, or the last one
  nth,       \* the output it is at
  outcome,   \* how the last run ended
  files,     \* what each directory holds
  device,    \* what the device found when it booted, or Off
  runs

vars == <<pc, request, nth, outcome, files, device, runs>>

Stems == {SortedStems[i] : i \in DOMAIN SortedStems}
Areas == UNION {{r.outputs[i].area : i \in DOMAIN r.outputs} : r \in Requests}

ASSUME CardAssumption == Card \in Dirs /\ Nowhere \notin Dirs /\ MaxRuns \in Nat
ASSUME WholeArchives == \A a \in Areas : SizeOf(a) \in Nat \ {0}
\* What DiscoverPacks relies on: it never reads an archive to compare hashes.
ASSUME SizesTellApart == \A a, b \in Areas : SizeOf(a) = SizeOf(b) => a = b

\* A name, and the stem of the manifest written for it: write_sidecars takes
\* the suffix off the output's name twice, with_suffix("") and then
\* with_suffix(".manifest.json"), so that a name with a period loses a part.
SidecarStem(name) == IF Len(name) > 1 THEN SubSeq(name, 1, Len(name) - 1) ELSE name

\* <name>.partial.pmtiles
Partial(name) == Append(name, "partial")

WholeArchive(area) == [content |-> area, size |-> SizeOf(area)]
TornArchive(area) == [content |-> "part", size |-> 0]

\* The names are listed in order, and what is made is not nothing.
ASSUME FilesAssumption ==
  /\ SortedStems \in Seq(Stems)
  /\ \A a \in Areas : WholeArchive(a) # NoFile
  /\ \A r \in Requests, a \in Areas :
       [id |-> <<r.region, a>>, hash |-> a, size |-> SizeOf(a), valid |-> r.valid] \notin {NoFile, Torn}

\* A run makes at least one pack, each under a name of its own that a pack may
\* have; what it calls partial is no pack of its own.  Only a single archive is
\* finalized after the fact; provision_pack.py, which makes one, alone stages.
ASSUME RequestAssumption ==
  /\ NoRequest \notin Requests
  /\ \A r \in Requests :
       /\ r.outputs \in Seq([name : Stems, area : Areas]) /\ r.outputs # <<>>
       /\ r.dir \in Dirs /\ r.dest \in Dirs \cup {Nowhere}
       /\ r.existing \/ r.tool = "provision" => Len(r.outputs) = 1
       /\ r.tool # "provision" => r.dest = Nowhere
       /\ \A i, j \in DOMAIN r.outputs : r.outputs[i].name = r.outputs[j].name => i = j
       /\ \A i \in DOMAIN r.outputs :
            /\ SidecarStem(r.outputs[i].name) \in Stems
            /\ Partial(r.outputs[i].name) \in Stems \ {r.outputs[j].name : j \in DOMAIN r.outputs}

\* The identity that a user gives an archive finalized after the fact belongs to
\* its file name.
ASSUME IdentityAssumption ==
  \A r, q \in Requests : \A i \in DOMAIN r.outputs, j \in DOMAIN q.outputs :
    r.existing /\ r.region = q.region /\ r.outputs[i].area = q.outputs[j].area =>
      q.existing /\ r.outputs[i].name = q.outputs[j].name

Target == request.outputs[nth].name
Area == request.outputs[nth].area
Last == nth = Len(request.outputs)
\* The world's names have no period; its sidecars are made from them whole.
Sidecars == SidecarStem(Target)
Names(r) == {r.outputs[i].name : i \in DOMAIN r.outputs}

\* What a device that booted now would offer.
Offered(dir) ==
  {[id |-> e.manifest.id, content |-> dir.archive[e.stem].content] :
     e \in DiscoverPacks(dir, {}).catalog}

EmptyDir == [kind \in {"archive", "manifest", "checksum"} |->
               [s \in Stems |-> NoFile]]

Init == /\ pc = "idle" /\ request = NoRequest /\ nth = 1 /\ outcome = "none"
        /\ files = [d \in Dirs |-> EmptyDir]
        /\ device = Off /\ runs = 0

Put(d, kind, stem, what) == files' = [files EXCEPT ![d][kind][stem] = what]

\* Archives are taken out of a directory.
Remove(fs, d, stems) ==
  [fs EXCEPT ![d].archive = [stem \in DOMAIN @ |-> IF stem \in stems THEN NoFile ELSE @[stem]]]
Partials(r) == {Partial(name) : name \in Names(r)}

-----------------------------------------------------------------------------
(* One run of a builder.                                                   *)

\* Mutant: the partial archive is looked for instead of the output.
RefusesPartial(r) ==
  \/ ~r.force /\ \E partial \in Partials(r) : files[r.dir].archive[partial] # NoFile
  \/ r.existing /\ \A name \in Names(r) : files[r.dir].archive[name] = NoFile

\* "refusing to replace immutable pack": each tool looks for its own files.
\* An archive that is only given its sidecars must be there.
Refuses(r) ==
  LET there(kind) == \E name \in Names(r) : files[r.dir][kind][name] # NoFile
  IN  \/ r.existing /\ ~there("archive")
      \/ /\ ~r.force
         /\ \/ there("archive") /\ ~r.existing
            \/ there("manifest")
            \/ r.tool = "regional" /\ there("checksum")

\* The card goes back to the computer: the device is off.
Start(r) ==
  /\ pc = "idle" /\ runs < MaxRuns
  /\ request' = r /\ nth' = 1 /\ device' = Off /\ runs' = runs + 1
  /\ IF Refuses(r)
     THEN pc' = "idle" /\ outcome' = "refused" /\ UNCHANGED files
     ELSE /\ pc' = IF r.existing THEN "manifest" ELSE "extract"
          /\ outcome' = "none"
          /\ files' = IF r.existing THEN files ELSE Remove(files, r.dir, Partials(r))

Goes(from, to) == pc = from /\ pc' = to
Quiet == UNCHANGED <<request, device, runs>>

\* On to a step of this output or, once it is through, of the next one; after
\* the last, to what comes then.
Round(from, again, then) ==
  /\ pc = from
  /\ IF Last THEN pc' = then /\ nth' = 1 ELSE pc' = again /\ nth' = nth + 1

\* go-pmtiles extract (planetiler for the first overview, the others are cut
\* from that), then partial.replace(output); when every archive is in place,
\* the two sidecars of each.
Extract ==
  /\ Goes("extract", "replace")
  /\ Put(request.dir, "archive", Partial(Target), WholeArchive(Area))
  /\ Quiet /\ UNCHANGED <<nth, outcome>>

Replace ==
  /\ Round("replace", "extract", "manifest")
  /\ LET made == files[request.dir].archive[Partial(Target)]
     IN  files' = Remove([files EXCEPT ![request.dir].archive[Target] = made],
                         request.dir, {Partial(Target)})
  /\ Quiet /\ UNCHANGED outcome

\* Mutant: the manifest is written before the archive's hash is known.
NewManifestUnhashed ==
  [id |-> <<request.region, Area>>, hash |-> "unknown",
   size |-> files[request.dir].archive[Target].size, valid |-> request.valid]

NewManifest ==
  LET a == files[request.dir].archive[Target]
  IN  [id |-> <<request.region, Area>>, hash |-> a.content,
       size |-> a.size, valid |-> request.valid]

WriteManifest ==
  /\ Goes("manifest", "checksum")
  /\ Put(request.dir, "manifest", Sidecars, NewManifest)
  /\ Quiet /\ UNCHANGED <<nth, outcome>>

\* write_sidecars is done, and so is the run unless the pack goes elsewhere.
Stages == request.tool = "provision" /\ request.dest \notin {request.dir, Nowhere}

WriteChecksum ==
  /\ Round("checksum", "manifest", IF Stages THEN "stage_archive" ELSE "idle")
  /\ Put(request.dir, "checksum", Sidecars,
         files[request.dir].archive[Target].content)
  /\ outcome' = IF Stages \/ ~Last THEN "none" ELSE "ok"
  /\ Quiet

\* Mutant: a file that the destination already has is kept.
StageFileIfNew(from, to, kind, stem) ==
  /\ Goes(from, to)
  /\ LET found == files[request.dir][kind][stem]
     IN  IF found = NoFile \/ files[request.dest][kind][stem] # NoFile
         THEN UNCHANGED files
         ELSE Put(request.dest, kind, stem, found)
  /\ Quiet /\ UNCHANGED nth

\* stage(): each file that exists is copied under its own name, over whatever
\* the destination holds.
StageFile(from, to, kind, stem) ==
  /\ Goes(from, to)
  /\ LET found == files[request.dir][kind][stem]
     IN  IF found = NoFile THEN UNCHANGED files
                           ELSE Put(request.dest, kind, stem, found)
  /\ Quiet /\ UNCHANGED nth

StageArchive == /\ StageFile("stage_archive", "stage_manifest", "archive", Target)
                /\ UNCHANGED outcome
StageManifest == /\ StageFile("stage_manifest", "stage_checksum", "manifest", Sidecars)
                 /\ UNCHANGED outcome
StageChecksum == /\ StageFile("stage_checksum", "idle", "checksum", Sidecars)
                 /\ outcome' = "ok"

\* What a step that does not complete may leave of the file it was writing.
Interrupted ==
  \/ UNCHANGED files
  \/ pc = "extract" /\ Put(request.dir, "archive", Partial(Target), TornArchive(Area))
  \/ pc = "manifest" /\ Put(request.dir, "manifest", Sidecars, Torn)
  \/ pc = "checksum" /\ Put(request.dir, "checksum", Sidecars, Torn)
  \/ pc = "stage_archive" /\ Put(request.dest, "archive", Target, TornArchive(Area))
  \/ pc = "stage_manifest" /\ Put(request.dest, "manifest", Sidecars, Torn)
  \/ pc = "stage_checksum" /\ Put(request.dest, "checksum", Sidecars, Torn)

\* An exception: `finally` unlinks the partial archive, and main exits with 2.
Fail ==
  /\ pc # "idle"
  /\ pc' = "idle" /\ outcome' = "failed"
  /\ \/ pc \in {"extract", "replace"} /\ files' = Remove(files, request.dir, Partials(request))
     \/ pc \notin {"extract", "replace"} /\ Interrupted
  /\ Quiet /\ UNCHANGED nth

\* The program is killed, or the card pulled: nothing is cleaned up.
Crash ==
  /\ pc # "idle"
  /\ pc' = "idle" /\ outcome' = "crashed"
  /\ Interrupted
  /\ Quiet /\ UNCHANGED nth

\* The device boots on the card; some manifests may be unreadable.
Boot ==
  /\ pc = "idle" /\ device = Off
  /\ \E unreadable \in SUBSET {s \in DOMAIN files[Card].manifest :
                                 files[Card].manifest[s] # NoFile} :
       device' = DiscoverPacks(files[Card], unreadable)
  /\ UNCHANGED <<pc, request, nth, outcome, files, runs>>

Next == \/ \E r \in Requests : Start(r)
        \/ Extract \/ Replace \/ WriteManifest \/ WriteChecksum
        \/ StageArchive \/ StageManifest \/ StageChecksum
        \/ Fail \/ Crash \/ Boot

Spec == Init /\ [][Next]_vars

-----------------------------------------------------------------------------
Archives == {WholeArchive(a) : a \in Areas} \cup {TornArchive(a) : a \in Areas}

TypeOK ==
  /\ pc \in {"idle", "extract", "replace", "manifest", "checksum",
            "stage_archive", "stage_manifest", "stage_checksum"}
  /\ request \in Requests \cup {NoRequest}
  /\ request # NoRequest => nth \in DOMAIN request.outputs
  /\ outcome \in {"none", "ok", "refused", "failed", "crashed"}
  /\ \A d \in Dirs :
       /\ files[d].archive \in [Stems -> Archives \cup {NoFile}]
       /\ \A s \in Stems : files[d].manifest[s] \in {NoFile, Torn} \/
            files[d].manifest[s].hash \in {a.content : a \in Archives}
       /\ files[d].checksum \in [Stems -> {a.content : a \in Archives} \cup {NoFile, Torn}]
  /\ runs \in 0..MaxRuns

\* A device never draws from an archive other than the one its manifest
\* describes, whatever was interrupted, forced, staged over or left behind by
\* earlier runs.  The size check is the only thing that stands in between, so
\* this is for archives that their sizes tell apart.
BootedPacksAreWhole ==
  device # Off =>
    \A e \in device.catalog : files[Card].archive[e.stem].content = e.manifest.hash

\* A run that ends with success has put every pack it was asked for where the
\* device finds it (what an archive finalized after the fact holds is its
\* maker's claim): "plus the sidecars on the same filename stem"
\* (src/tools/pack-builder/README.md:183-185).
SuccessIsOffered ==
  outcome = "ok" /\ request.valid /\ ~request.existing /\ Card \in {request.dir, request.dest} =>
    \A i \in DOMAIN request.outputs :
      LET area == request.outputs[i].area
      IN  [id |-> <<request.region, area>>, content |-> area] \in Offered(files[Card])

\* Without --force no step of a run takes from the card a pack that it offered:
\* "Existing artifacts are refused unless --force is explicit"
\* (src/tools/pack-builder/README.md:36).
UnforcedKeepsOffered ==
  [][request' # NoRequest /\ ~request'.force =>
       Offered(files[Card]) \subseteq Offered(files'[Card])]_vars

\* The same, for the runs that write in one directory only.
UnforcedInPlaceKeepsOffered ==
  [][request' # NoRequest /\ ~request'.force /\ request'.dest \in {request'.dir, Nowhere} =>
       Offered(files[Card]) \subseteq Offered(files'[Card])]_vars
=============================================================================
