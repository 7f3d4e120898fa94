--------------------------- MODULE PackCardProofs ---------------------------
(***************************************************************************)
(* A device draws whole packs only, for every set of requests, any number  *)
(* of runs, and wherever they fail or are killed.                          *)
(***************************************************************************)
EXTENDS PackCard, CommonLemmas

Kinds == {"archive", "manifest", "checksum"}
Contents == {a.content : a \in Archives}

\* A manifest that tells of an archive that some run made, whole or torn.
Honest(m) == \E a \in Archives : m.hash = a.content /\ m.size = a.size

\* Every file in every directory is one that a run may have made.
Filed(fs) ==
  /\ DOMAIN fs = Dirs
  /\ \A d \in Dirs :
       /\ DOMAIN fs[d] = Kinds
       /\ fs[d].archive \in [Stems -> Archives \cup {NoFile}]
       /\ DOMAIN fs[d].manifest = Stems
       /\ \A s \in Stems : fs[d].manifest[s] \in {NoFile, Torn} \/ Honest(fs[d].manifest[s])
       /\ fs[d].checksum \in [Stems -> Contents \cup {NoFile, Torn}]

\* Where the builder is.
Steps == {"idle", "extract", "replace", "manifest", "checksum",
          "stage_archive", "stage_manifest", "stage_checksum"}
Places ==
  /\ pc \in Steps
  /\ outcome \in {"none", "ok", "refused", "failed", "crashed"}
  /\ runs \in 0..MaxRuns
  /\ request \in Requests \cup {NoRequest}
  /\ pc # "idle" => request \in Requests /\ device = Off
  /\ request \in Requests => nth \in DOMAIN request.outputs
  /\ pc \in {"stage_archive", "stage_manifest", "stage_checksum"} => request.dest \in Dirs

\* The archive of an output is in place.
Made(i) == files[request.dir].archive[request.outputs[i].name] \in Archives

\* Archives come first: all of them stand before the first manifest.
ArchivesFirst ==
  /\ pc = "replace" => files[request.dir].archive[Partial(Target)] \in Archives
  /\ pc \in {"extract", "replace"} => \A i \in 1..nth - 1 : Made(i)
  /\ pc \in {"manifest", "checksum"} => \A i \in DOMAIN request.outputs : Made(i)

IInv == Filed(files) /\ Places /\ ArchivesFirst /\ BootedPacksAreWhole

-----------------------------------------------------------------------------
LEMMA EmptyFiled == Filed([d \in Dirs |-> EmptyDir])
BY DEF Filed, EmptyDir, Kinds

LEMMA ArchiveFiled ==
  ASSUME NEW fs, Filed(fs), NEW d, NEW stem, NEW what \in Archives \cup {NoFile}
  PROVE  Filed([fs EXCEPT ![d]["archive"][stem] = what])
BY DEF Filed, Kinds

LEMMA ManifestFiled ==
  ASSUME NEW fs, Filed(fs), NEW d, NEW stem, NEW what, what \in {NoFile, Torn} \/ Honest(what)
  PROVE  Filed([fs EXCEPT ![d]["manifest"][stem] = what])
BY DEF Filed, Kinds

LEMMA ChecksumFiled ==
  ASSUME NEW fs, Filed(fs), NEW d, NEW stem, NEW what \in Contents \cup {NoFile, Torn}
  PROVE  Filed([fs EXCEPT ![d]["checksum"][stem] = what])
BY DEF Filed, Kinds

LEMMA RemoveFiled ==
  ASSUME NEW fs, Filed(fs), NEW d, NEW stems
  PROVE  Filed(Remove(fs, d, stems))
BY DEF Filed, Remove, Kinds


-----------------------------------------------------------------------------
\* Of one size, of one content: only whole archives have a size.
LEMMA SizeTells ==
  ASSUME NEW a \in Archives, NEW b \in Archives, a.size = b.size, a.size # 0
  PROVE  a.content = b.content
<1>1. PICK x \in Areas : a = WholeArchive(x)
  BY DEF Archives, TornArchive
<1>2. PICK y \in Areas : b = WholeArchive(y)
  BY DEF Archives, TornArchive
<1>3. SizeOf(x) = SizeOf(y)
  BY <1>1, <1>2 DEF WholeArchive
<1> QED
  BY <1>1, <1>2, <1>3, SizesTellApart

\* What a device offers is what its manifests describe.
LEMMA DeviceIsWhole ==
  ASSUME Filed(files), NEW unreadable
  PROVE  \A e \in DiscoverPacks(files[Card], unreadable).catalog :
           files[Card].archive[e.stem].content = e.manifest.hash
<1> DEFINE dir == files[Card]
<1>1. SUFFICES ASSUME NEW i \in DOMAIN SortedStems,
                      dir.manifest[SortedStems[i]] # NoFile,
                      Verdict(dir, unreadable, SortedStems[i]) = "added"
               PROVE  dir.archive[SortedStems[i]].content = dir.manifest[SortedStems[i]].hash
  BY DEF DiscoverPacks
<1> DEFINE s == SortedStems[i]
           m == dir.manifest[s]
           a == dir.archive[s]
<1>2. s \in Stems
  BY DEF Stems
<1>3. m # Torn /\ m.size # 0 /\ a # NoFile /\ a.size = m.size
  BY <1>1 DEF Verdict
<1>4. a \in Archives
  BY <1>2, <1>3, CardAssumption DEF Filed
<1>5. Honest(m)
  BY <1>1, <1>2, <1>3, CardAssumption DEF Filed
<1>6. PICK b \in Archives : m.hash = b.content /\ m.size = b.size
  BY <1>5 DEF Honest
<1>7. a.content = b.content
  BY <1>3, <1>4, <1>6, SizeTells
<1> QED
  BY <1>6, <1>7

-----------------------------------------------------------------------------
\* The outputs of a request.
LEMMA OutputsOf ==
  ASSUME NEW r \in Requests
  PROVE  /\ Len(r.outputs) \in Nat \ {0} /\ DOMAIN r.outputs = 1..Len(r.outputs)
         /\ \A i \in DOMAIN r.outputs :
              r.outputs[i].name \in Stems /\ r.outputs[i].area \in Areas
<1> DEFINE Output == [name : Stems, area : Areas]
           outputs == r.outputs
<1>1. outputs \in Seq(Output) /\ outputs # <<>>
  BY RequestAssumption
<1> HIDE DEF Output, outputs
<1>2. /\ Len(outputs) \in Nat \ {0} /\ DOMAIN outputs = 1..Len(outputs)
      /\ \A i \in DOMAIN outputs : outputs[i] \in Output
  BY <1>1
<1>3. \A o \in Output : o.name \in Stems /\ o.area \in Areas
  BY DEF Output
<1> QED
  BY <1>2, <1>3 DEF outputs

\* What a request under way may be taken for.
LEMMA UnderWay ==
  ASSUME Places, request \in Requests
  PROVE  /\ Len(request.outputs) \in Nat /\ DOMAIN request.outputs = 1..Len(request.outputs)
         /\ nth \in 1..Len(request.outputs)
         /\ Target \in Stems /\ Area \in Areas /\ Sidecars \in Stems
         /\ \A i \in DOMAIN request.outputs : request.outputs[i].name \in Stems
         /\ Partial(Target) \in Stems
         /\ \A i \in DOMAIN request.outputs : request.outputs[i].name # Partial(Target)
         /\ request.dir \in Dirs
<1>1. nth \in DOMAIN request.outputs
  BY DEF Places
<1>2. /\ SidecarStem(Target) \in Stems
      /\ Partial(Target) \in Stems \ {request.outputs[j].name : j \in DOMAIN request.outputs}
  BY <1>1, RequestAssumption DEF Target
<1> QED
  BY <1>1, <1>2, OutputsOf, RequestAssumption DEF Target, Area, Sidecars

LEMMA InitEstablishes == Init => IInv
<1> SUFFICES ASSUME Init PROVE IInv
  OBVIOUS
<1>1. Filed(files)
  BY EmptyFiled DEF Init
<1>2. Places
  BY CardAssumption, RequestAssumption DEF Init, Places, Steps
<1> QED
  BY <1>1, <1>2 DEF Init, IInv, ArchivesFirst, BootedPacksAreWhole

LEMMA StartKeeps ==
  ASSUME IInv, NEW r \in Requests, Start(r)
  PROVE  IInv'
<1>1. Len(r.outputs) \in Nat \ {0} /\ DOMAIN r.outputs = 1..Len(r.outputs) /\ r.dir \in Dirs
  BY OutputsOf, RequestAssumption
<1>2. 1 \in DOMAIN r.outputs
  BY <1>1
<1>3. Filed(files')
  BY RemoveFiled DEF Start, IInv
<1>4. Places'
  BY <1>2, CardAssumption DEF Start, IInv, Places, Steps
<1>5. ArchivesFirst'
  <2>1. CASE pc' = "manifest"
    <3>1. r.existing /\ ~Refuses(r) /\ files' = files /\ request' = r
      BY <2>1 DEF Start
    <3>2. DOMAIN r.outputs = {1}
      BY <3>1, <1>1, RequestAssumption
    <3>3. files[r.dir].archive[r.outputs[1].name] # NoFile
      BY <3>1, <3>2 DEF Refuses, Names
    <3>4. r.outputs[1].name \in Stems
      BY <1>2, OutputsOf
    <3>5. files[r.dir].archive[r.outputs[1].name] \in Archives
      BY <3>3, <3>4, <1>1 DEF IInv, Filed
    <3> QED
      BY <2>1, <3>1, <3>2, <3>5 DEF ArchivesFirst, Made
  <2>2. CASE pc' = "extract"
    BY <2>2 DEF Start, ArchivesFirst
  <2> QED
    BY <2>1, <2>2 DEF Start, ArchivesFirst
<1> QED
  BY <1>3, <1>4, <1>5 DEF Start, IInv, BootedPacksAreWhole

-----------------------------------------------------------------------------
\* While a run is under way the device is off, and so offers nothing.
LEMMA RunKeeps ==
  ASSUME IInv, pc # "idle", Quiet,
         Filed(files'), Places', ArchivesFirst'
  PROVE  IInv'
BY DEF IInv, Places, Quiet, BootedPacksAreWhole

LEMMA ExtractKeeps ==
  ASSUME IInv, Extract
  PROVE  IInv'
<1>1. request \in Requests /\ pc = "extract" /\ Places
  BY DEF Extract, Goes, IInv, Places
<1> DEFINE what == WholeArchive(Area)
           put == [files EXCEPT ![request.dir]["archive"][Partial(Target)] = what]
<1>2. files' = put /\ UNCHANGED <<request, nth, device, runs, outcome>> /\ pc' = "replace"
  BY DEF Extract, Put, Goes, Quiet
<1>3. what \in Archives
  BY <1>1, UnderWay DEF Archives
<1>4. Filed(files')
  BY <1>2, <1>3, ArchiveFiled DEF IInv
<1>5. Places'
  BY <1>1, <1>2 DEF Places, Steps
<1>6. /\ put[request.dir]["archive"][Partial(Target)] = what
      /\ \A s \in Stems \ {Partial(Target)} :
           put[request.dir]["archive"][s] = files[request.dir].archive[s]
  BY <1>1, UnderWay DEF IInv, Filed, Kinds
<1>7. \A i \in 1..nth - 1 : Made(i)'
  <2> SUFFICES ASSUME NEW i \in 1..nth - 1 PROVE Made(i)'
    OBVIOUS
  <2>1. i \in DOMAIN request.outputs
    BY <1>1, UnderWay
  <2>2. request.outputs[i].name \in Stems \ {Partial(Target)}
    BY <1>1, <2>1, UnderWay
  <2> QED
    BY <1>1, <1>2, <1>6, <2>2 DEF IInv, ArchivesFirst, Made
<1>8. files'[request'.dir].archive[Partial(Target)'] \in Archives
  BY <1>2, <1>3, <1>6 DEF Target
<1>9. ArchivesFirst'
  BY <1>2, <1>7, <1>8 DEF ArchivesFirst
<1> QED
  BY <1>1, <1>4, <1>5, <1>9, RunKeeps DEF Extract

\* The partial archive takes the output's place.
LEMMA ReplaceKeeps ==
  ASSUME IInv, Replace
  PROVE  IInv'
<1>1. request \in Requests /\ pc = "replace" /\ Places
  BY DEF Replace, Round, IInv, Places
<1> DEFINE made == files[request.dir].archive[Partial(Target)]
           put == [files EXCEPT ![request.dir]["archive"][Target] = made]
<1>2. /\ files' = Remove(put, request.dir, {Partial(Target)})
      /\ UNCHANGED <<request, device, runs, outcome>>
      /\ IF Last THEN pc' = "manifest" /\ nth' = 1 ELSE pc' = "extract" /\ nth' = nth + 1
  BY DEF Replace, Round, Quiet
<1>3. made \in Archives
  BY <1>1 DEF IInv, ArchivesFirst
<1>4. Filed(put)
  BY <1>3, ArchiveFiled DEF IInv
<1>5. Filed(files')
  BY <1>2, <1>4, RemoveFiled
<1>6. Places'
  BY <1>1, <1>2, UnderWay DEF Places, Steps, Last
<1>7. \A i \in 1..nth : Made(i)'
  <2> SUFFICES ASSUME NEW i \in 1..nth PROVE Made(i)'
    OBVIOUS
  <2>1. i \in DOMAIN request.outputs
    BY <1>1, UnderWay
  <2> DEFINE name == request.outputs[i].name
  <2>2. name \in Stems /\ name # Partial(Target) /\ request.dir \in Dirs /\ Target \in Stems
    BY <1>1, <2>1, UnderWay
  <2>3. files'[request.dir].archive[name] = put[request.dir].archive[name]
    BY <1>2, <1>4, <2>2 DEF Remove, Filed, Kinds
  <2>4. put[request.dir].archive[name] \in Archives
    <3>1. CASE i = nth
      BY <1>3, <2>2, <3>1 DEF Target, IInv, Filed, Kinds
    <3>2. CASE i # nth
      <4>1. files[request.dir].archive[name] \in Archives
        BY <1>1, <3>2, UnderWay DEF IInv, ArchivesFirst, Made
      <4> QED
        BY <1>3, <2>2, <4>1 DEF IInv, Filed, Kinds
    <3> QED
      BY <3>1, <3>2
  <2> QED
    BY <1>2, <2>3, <2>4 DEF Made
<1>8. ArchivesFirst'
  BY <1>1, <1>2, <1>7, UnderWay DEF ArchivesFirst, Last
<1> QED
  BY <1>1, <1>5, <1>6, <1>8, RunKeeps DEF Replace

\* What the sidecars of an output are taken of.
LEMMA OutputMade ==
  ASSUME IInv, pc \in {"manifest", "checksum"}
  PROVE  files[request.dir].archive[Target] \in Archives
<1>1. request \in Requests /\ Places
  BY DEF IInv, Places
<1>2. Made(nth)
  BY <1>1, UnderWay DEF IInv, ArchivesFirst
<1> QED
  BY <1>2 DEF Made, Target

\* Sidecars leave the archives alone.
LEMMA SidecarsLeave ==
  ASSUME NEW d, NEW kind \in {"manifest", "checksum"}, NEW stem, NEW what,
         Filed(files), Put(d, kind, stem, what), NEW e \in Dirs
  PROVE  files'[e].archive = files[e].archive
BY DEF Filed, Put, Kinds

LEMMA ManifestKeeps ==
  ASSUME IInv, WriteManifest
  PROVE  IInv'
<1>1. request \in Requests /\ pc = "manifest" /\ Places
  BY DEF WriteManifest, Goes, IInv, Places
<1>2. /\ Put(request.dir, "manifest", Sidecars, NewManifest)
      /\ UNCHANGED <<request, nth, device, runs, outcome>> /\ pc' = "checksum"
  BY DEF WriteManifest, Goes, Quiet
<1>3. Honest(NewManifest)
  BY <1>1, OutputMade DEF NewManifest, Honest
<1>4. Filed(files')
  BY <1>2, <1>3, ManifestFiled DEF IInv, Put
<1>5. Places'
  BY <1>1, <1>2 DEF Places, Steps
<1>6. files'[request.dir].archive = files[request.dir].archive
  BY <1>1, <1>2, UnderWay, SidecarsLeave DEF IInv
<1>7. ArchivesFirst'
  BY <1>1, <1>2, <1>6 DEF IInv, ArchivesFirst, Made
<1> QED
  BY <1>1, <1>4, <1>5, <1>7, RunKeeps DEF WriteManifest

LEMMA ChecksumKeeps ==
  ASSUME IInv, WriteChecksum
  PROVE  IInv'
<1>1. request \in Requests /\ pc = "checksum" /\ Places
  BY DEF WriteChecksum, Round, IInv, Places
<1> DEFINE what == files[request.dir].archive[Target].content
<1>2. /\ Put(request.dir, "checksum", Sidecars, what)
      /\ UNCHANGED <<request, device, runs>>
      /\ outcome' \in {"none", "ok"}
      /\ IF Last THEN pc' = (IF Stages THEN "stage_archive" ELSE "idle") /\ nth' = 1
                 ELSE pc' = "manifest" /\ nth' = nth + 1
  BY DEF WriteChecksum, Round, Quiet
<1>3. what \in Contents
  BY <1>1, OutputMade DEF Contents
<1>4. Filed(files')
  BY <1>2, <1>3, ChecksumFiled DEF IInv, Put
<1>5. Places'
  BY <1>1, <1>2, UnderWay, RequestAssumption DEF Places, Steps, Last, Stages
<1>6. files'[request.dir].archive = files[request.dir].archive
  BY <1>1, <1>2, UnderWay, SidecarsLeave DEF IInv
<1>7. ArchivesFirst'
  BY <1>1, <1>2, <1>6 DEF IInv, ArchivesFirst, Made
<1> QED
  BY <1>1, <1>4, <1>5, <1>7, RunKeeps DEF WriteChecksum

LEMMA StageKeeps ==
  ASSUME IInv, StageArchive \/ StageManifest \/ StageChecksum
  PROVE  IInv'
<1>1. /\ request \in Requests /\ Places /\ Filed(files)
      /\ pc \in {"stage_archive", "stage_manifest", "stage_checksum"}
  BY DEF StageArchive, StageManifest, StageChecksum, StageFile, Goes, IInv, Places
<1>2. /\ UNCHANGED <<request, nth, device, runs>>
      /\ pc' \in {"stage_manifest", "stage_checksum", "idle"}
      /\ outcome' \in {outcome, "ok"}
  BY DEF StageArchive, StageManifest, StageChecksum, StageFile, Goes, Quiet
<1>3. Target \in Stems /\ Sidecars \in Stems /\ request.dir \in Dirs
  BY <1>1, UnderWay
<1>4. Filed(files')
  <2>1. CASE StageArchive
    <3>1. files[request.dir].archive[Target] \in Archives \cup {NoFile}
      BY <1>1, <1>3 DEF Filed
    <3> DEFINE put == [files EXCEPT ![request.dest]["archive"][Target] =
                         files[request.dir]["archive"][Target]]
    <3>2. files' = files \/ files' = put
      BY <2>1 DEF StageArchive, StageFile, Put
    <3>3. Filed(put)
      BY <1>1, <3>1, ArchiveFiled
    <3> QED
      BY <1>1, <3>2, <3>3
  <2>2. CASE StageManifest
    <3>1. \/ files[request.dir].manifest[Sidecars] \in {NoFile, Torn}
          \/ Honest(files[request.dir].manifest[Sidecars])
      BY <1>1, <1>3 DEF Filed
    <3> DEFINE put == [files EXCEPT ![request.dest]["manifest"][Sidecars] =
                         files[request.dir]["manifest"][Sidecars]]
    <3>2. files' = files \/ files' = put
      BY <2>2 DEF StageManifest, StageFile, Put
    <3>3. Filed(put)
      BY <1>1, <3>1, ManifestFiled
    <3> QED
      BY <1>1, <3>2, <3>3
  <2>3. CASE StageChecksum
    <3>1. files[request.dir].checksum[Sidecars] \in Contents \cup {NoFile, Torn}
      BY <1>1, <1>3 DEF Filed
    <3> DEFINE put == [files EXCEPT ![request.dest]["checksum"][Sidecars] =
                         files[request.dir]["checksum"][Sidecars]]
    <3>2. files' = files \/ files' = put
      BY <2>3 DEF StageChecksum, StageFile, Put
    <3>3. Filed(put)
      BY <1>1, <3>1, ChecksumFiled
    <3> QED
      BY <1>1, <3>2, <3>3
  <2> QED
    BY <2>1, <2>2, <2>3
<1>5. Places'
  BY <1>1, <1>2 DEF Places, Steps
<1>6. ArchivesFirst'
  BY <1>2 DEF ArchivesFirst
<1> QED
  BY <1>1, <1>4, <1>5, <1>6, RunKeeps DEF StageArchive, StageManifest, StageChecksum, StageFile

\* Whatever a step that did not complete left behind.
LEMMA InterruptedFiled ==
  ASSUME IInv, request \in Requests, Interrupted
  PROVE  Filed(files')
<1>1. Places /\ Filed(files)
  BY DEF IInv
<1>2. TornArchive(Area) \in Archives
  BY <1>1, UnderWay DEF Archives
<1> DEFINE torn(d, kind, stem, what) == [files EXCEPT ![d][kind][stem] = what]
<1>3. \A d, stem : Filed(torn(d, "archive", stem, TornArchive(Area)))
  BY <1>1, <1>2, ArchiveFiled
<1>4. \A d, stem : Filed(torn(d, "manifest", stem, Torn))
  BY <1>1, ManifestFiled
<1>5. \A d, stem : Filed(torn(d, "checksum", stem, Torn))
  BY <1>1, ChecksumFiled
<1>6. \/ files' = files
      \/ \E d, stem : \/ files' = torn(d, "archive", stem, TornArchive(Area))
                       \/ files' = torn(d, "manifest", stem, Torn)
                       \/ files' = torn(d, "checksum", stem, Torn)
  BY DEF Interrupted, Put
<1> HIDE DEF torn
<1> QED
  BY <1>1, <1>3, <1>4, <1>5, <1>6

LEMMA EndKeeps ==
  ASSUME IInv, Fail \/ Crash
  PROVE  IInv'
<1>1. /\ request \in Requests /\ pc # "idle" /\ Places /\ Filed(files)
      /\ pc' = "idle" /\ outcome' \in {"failed", "crashed"}
      /\ UNCHANGED <<request, nth, device, runs>> /\ Quiet
  BY DEF Fail, Crash, Quiet, IInv, Places
<1>2. Filed(files')
  BY <1>1, InterruptedFiled, RemoveFiled DEF Fail, Crash
<1>3. Places'
  BY <1>1 DEF Places, Steps
<1>4. ArchivesFirst'
  BY <1>1 DEF ArchivesFirst
<1> QED
  BY <1>1, <1>2, <1>3, <1>4, RunKeeps

LEMMA BootKeeps ==
  ASSUME IInv, Boot
  PROVE  IInv'
<1>1. pc = "idle" /\ UNCHANGED <<pc, request, nth, outcome, files, runs>> /\ Filed(files)
  BY DEF Boot, IInv
<1>2. PICK unreadable : device' = DiscoverPacks(files[Card], unreadable)
  BY DEF Boot
<1>3. BootedPacksAreWhole'
  BY <1>1, <1>2, DeviceIsWhole DEF BootedPacksAreWhole
<1>4. Places'
  BY <1>1 DEF IInv, Places
<1>5. ArchivesFirst' /\ Filed(files')
  BY <1>1 DEF ArchivesFirst
<1> QED
  BY <1>3, <1>4, <1>5 DEF IInv

LEMMA StutterKeeps ==
  ASSUME IInv, UNCHANGED vars
  PROVE  IInv'
BY DEF vars, IInv, Filed, Places, ArchivesFirst, Made, Target, BootedPacksAreWhole

LEMMA NextKeeps == IInv /\ [Next]_vars => IInv'
<1> SUFFICES ASSUME IInv, [Next]_vars PROVE IInv'
  OBVIOUS
<1>1. CASE \E r \in Requests : Start(r)
  BY <1>1, StartKeeps
<1>2. CASE Extract \/ Replace
  BY <1>2, ExtractKeeps, ReplaceKeeps
<1>3. CASE WriteManifest \/ WriteChecksum
  BY <1>3, ManifestKeeps, ChecksumKeeps
<1>4. CASE StageArchive \/ StageManifest \/ StageChecksum
  BY <1>4, StageKeeps
<1>5. CASE Fail \/ Crash
  BY <1>5, EndKeeps
<1>6. CASE Boot
  BY <1>6, BootKeeps
<1>7. CASE UNCHANGED vars
  BY <1>7, StutterKeeps
<1> QED
  BY <1>1, <1>2, <1>3, <1>4, <1>5, <1>6, <1>7 DEF Next

LEMMA Invariance == Spec => []IInv
BY InitEstablishes, NextKeeps, PTL DEF Spec

\* TypeOK: whatever the runs do, the directories hold nothing but archives,
\* whole or torn, with manifests and checksums that were taken of one.
THEOREM CardTyped == Spec => []TypeOK
<1>1. IInv => TypeOK
  <2> SUFFICES ASSUME IInv PROVE TypeOK
    OBVIOUS
  <2>1. \A m : Honest(m) => m.hash \in Contents
    BY DEF Honest, Contents
  <2>2. request # NoRequest => nth \in DOMAIN request.outputs
    BY DEF IInv, Places
  <2>3. \A d \in Dirs :
          /\ files[d].archive \in [Stems -> Archives \cup {NoFile}]
          /\ \A s \in Stems :
               files[d].manifest[s] \in {NoFile, Torn} \/ files[d].manifest[s].hash \in Contents
          /\ files[d].checksum \in [Stems -> Contents \cup {NoFile, Torn}]
    BY <2>1 DEF IInv, Filed
  <2> QED
    BY <2>2, <2>3 DEF TypeOK, IInv, Places, Steps, Contents
<1> QED
  BY <1>1, Invariance, PTL

\* BootedPacksAreWhole: a device never draws from an archive that its manifest
\* does not describe, for every set of requests and any number of runs, with
\* failures and crashes at every step of provision_pack.py,
\* build_regional_pack.py and build_world_overview.py.
THEOREM BootedWhole == Spec => []BootedPacksAreWhole
<1>1. IInv => BootedPacksAreWhole
  BY DEF IInv
<1> QED
  BY <1>1, Invariance, PTL
-----------------------------------------------------------------------------
(* What a run leaves for the device.  Names have no period: with one, the  *)
(* manifest goes to another stem.                                          *)

PlainNames ==
  \A r \in Requests : \A i \in DOMAIN r.outputs : r.outputs[i].name = <<r.outputs[i].name[1]>>

\* A manifest beside the name that its maker gave it; unless the archive was
\* there before, it tells of the archive made with it.
Recorded(m, s) ==
  \E r \in Requests : \E i \in DOMAIN r.outputs :
    /\ s = r.outputs[i].name /\ m.id = <<r.region, r.outputs[i].area>>
    /\ r.existing \/ (m.hash = r.outputs[i].area /\ m.size = SizeOf(r.outputs[i].area))

AllRecorded(fs) ==
  \A d \in Dirs : \A s \in Stems :
    fs[d].manifest[s] \in {NoFile, Torn} \/ Recorded(fs[d].manifest[s], s)

\* The output i of the run, and the manifest that tells of it.
Whole(d, i) == files[d].archive[request.outputs[i].name] = WholeArchive(request.outputs[i].area)
Described(r, i) ==
  [id |-> <<r.region, r.outputs[i].area>>, hash |-> r.outputs[i].area,
   size |-> SizeOf(r.outputs[i].area), valid |-> r.valid]
Told(d, i) == files[d].manifest[request.outputs[i].name] = Described(request, i)

Staging == {"stage_archive", "stage_manifest", "stage_checksum"}

\* How far a run has got that makes its archives itself.
Building ==
  request \in Requests /\ ~request.existing =>
    /\ pc = "replace" => files[request.dir].archive[Partial(Target)] = WholeArchive(Area)
    /\ pc \in {"extract", "replace"} => \A i \in 1..nth - 1 : Whole(request.dir, i)
    /\ \A i \in DOMAIN request.outputs :
         /\ pc \in {"manifest", "checksum"} \cup Staging \/ outcome = "ok" => Whole(request.dir, i)
         /\ \/ pc = "manifest" /\ i < nth
            \/ pc = "checksum" /\ i <= nth
            \/ pc \in Staging
            \/ outcome = "ok"
            => Told(request.dir, i)
         /\ pc \in {"stage_manifest", "stage_checksum"} \/ (outcome = "ok" /\ Stages) =>
              Whole(request.dest, i)
         /\ pc = "stage_checksum" \/ (outcome = "ok" /\ Stages) => Told(request.dest, i)

\* Without --force no manifest stands where the run will write one.
Fresh ==
  request \in Requests /\ ~request.force =>
    \A i \in DOMAIN request.outputs :
      \/ pc \in {"extract", "replace"}
      \/ pc = "manifest" /\ i >= nth
      \/ pc = "checksum" /\ i > nth
      => files[request.dir].manifest[request.outputs[i].name] = NoFile

JInv ==
  /\ AllRecorded(files) /\ Building /\ Fresh
  /\ pc \in Staging => Stages
  /\ outcome = "ok" => pc = "idle" /\ request \in Requests
-----------------------------------------------------------------------------
LEMMA RemovedAt ==
  ASSUME NEW fs, Filed(fs), NEW d \in Dirs, NEW stems
  PROVE  \A e \in Dirs, k \in Kinds, s \in Stems :
           Remove(fs, d, stems)[e][k][s]
             = IF e = d /\ k = "archive" /\ s \in stems THEN NoFile ELSE fs[e][k][s]
BY DEF Filed, Kinds, Remove

\* A plain name is the stem of its sidecars, and nobody's partial archive.
LEMMA PlainName ==
  ASSUME PlainNames, NEW r \in Requests, NEW i \in DOMAIN r.outputs
  PROVE  /\ SidecarStem(r.outputs[i].name) = r.outputs[i].name
         /\ \A q \in Requests : \A j \in DOMAIN q.outputs : Partial(r.outputs[i].name) # q.outputs[j].name
<1> DEFINE name == r.outputs[i].name
<1>1. PICK part : name = <<part>>
  BY DEF PlainNames
<1>2. SidecarStem(name) = name
  BY <1>1 DEF SidecarStem
<1>3. Len(Partial(name)) = 2
  <2> DEFINE p == "partial"
  <2> HIDE DEF p
  <2>1. \A x, y : Len(Append(<<x>>, y)) = 2
    <3> SUFFICES ASSUME NEW x, NEW y PROVE Len(Append(<<x>>, y)) = 2
      OBVIOUS
    <3> DEFINE S == {x, y}
    <3>1. <<x>> \in Seq(S) /\ Len(<<x>>) = 1 /\ y \in S
      OBVIOUS
    <3> HIDE DEF S
    <3> QED
      BY <3>1
  <2> QED
    BY <1>1, <2>1 DEF Partial, p
<1>4. ASSUME NEW q \in Requests, NEW j \in DOMAIN q.outputs
      PROVE  Partial(name) # q.outputs[j].name
  <2>1. PICK other : q.outputs[j].name = <<other>>
    BY DEF PlainNames
  <2>2. Len(Partial(name)) = 2 /\ Len(q.outputs[j].name) = 1
    BY <1>3, <2>1
  <2> QED
    BY <2>2
<1> QED
  BY <1>2, <1>4

\* Of one identity, of one content, unless they are one file.
LEMMA SameIdentity ==
  ASSUME NEW m, NEW s, NEW n, NEW t, Recorded(m, s), Recorded(n, t), m.id = n.id, s # t
  PROVE  m.hash = n.hash
<1> DEFINE By(x, u, r, i) ==
             /\ u = r.outputs[i].name /\ x.id = <<r.region, r.outputs[i].area>>
             /\ r.existing \/ (x.hash = r.outputs[i].area /\ x.size = SizeOf(r.outputs[i].area))
<1>1. PICK r \in Requests : \E i \in DOMAIN r.outputs : By(m, s, r, i)
  BY DEF Recorded
<1>2. PICK i \in DOMAIN r.outputs : By(m, s, r, i)
  BY <1>1
<1>3. PICK q \in Requests : \E j \in DOMAIN q.outputs : By(n, t, q, j)
  BY DEF Recorded
<1>4. PICK j \in DOMAIN q.outputs : By(n, t, q, j)
  BY <1>3
<1>5. r.region = q.region /\ r.outputs[i].area = q.outputs[j].area
  <2>1. <<r.region, r.outputs[i].area>> = <<q.region, q.outputs[j].area>>
    BY <1>2, <1>4
  <2> QED
    BY <2>1
<1>6. ~r.existing /\ ~q.existing
  BY <1>2, <1>4, <1>5, IdentityAssumption
<1> QED
  BY <1>2, <1>4, <1>5, <1>6

-----------------------------------------------------------------------------
(* What a device would offer.                                              *)

Fine(dir, s) == dir.manifest[s] # NoFile /\ Verdict(dir, {}, s) = "added"
Offer(dir, s) == [id |-> dir.manifest[s].id, content |-> dir.archive[s].content]

LEMMA FineIsWhole ==
  ASSUME NEW fs, Filed(fs), AllRecorded(fs), NEW d \in Dirs, NEW s \in Stems, Fine(fs[d], s)
  PROVE  /\ fs[d].archive[s].content = fs[d].manifest[s].hash
         /\ Recorded(fs[d].manifest[s], s)
<1> DEFINE m == fs[d].manifest[s]
           a == fs[d].archive[s]
<1>1. m # NoFile /\ m # Torn /\ m.size # 0 /\ a # NoFile /\ a.size = m.size
  BY DEF Fine, Verdict
<1>2. a \in Archives
  BY <1>1 DEF Filed
<1>3. PICK b \in Archives : m.hash = b.content /\ m.size = b.size
  BY <1>1 DEF Filed, Honest
<1>4. a.content = b.content
  BY <1>1, <1>2, <1>3, SizeTells
<1>5. Recorded(m, s)
  BY <1>1 DEF AllRecorded
<1> QED
  BY <1>3, <1>4, <1>5

\* Every fine file is offered, if not itself then another of its identity, and
\* nothing else is.
LEMMA OfferedAreFine ==
  ASSUME NEW fs, Filed(fs), AllRecorded(fs)
  PROVE  \A o : o \in Offered(fs[Card]) <=> \E s \in Stems : Fine(fs[Card], s) /\ o = Offer(fs[Card], s)
<1> DEFINE dir == fs[Card]
<1>0. Card \in Dirs
  BY CardAssumption
<1>1. ASSUME NEW o \in Offered(dir) PROVE \E s \in Stems : Fine(dir, s) /\ o = Offer(dir, s)
  <2>1. PICK e \in DiscoverPacks(dir, {}).catalog :
          o = [id |-> e.manifest.id, content |-> dir.archive[e.stem].content]
    BY <1>1 DEF Offered
  <2>2. PICK i \in DOMAIN SortedStems :
          /\ e = [stem |-> SortedStems[i], manifest |-> dir.manifest[SortedStems[i]]]
          /\ Fine(dir, SortedStems[i])
    BY <2>1 DEF DiscoverPacks, Fine
  <2>3. SortedStems[i] \in Stems
    BY DEF Stems
  <2> QED
    BY <2>1, <2>2, <2>3 DEF Offer
<1>2. ASSUME NEW s \in Stems, Fine(dir, s) PROVE Offer(dir, s) \in Offered(dir)
  <2> DEFINE B == {j \in DOMAIN SortedStems :
                     Fine(dir, SortedStems[j]) /\ dir.manifest[SortedStems[j]].id = dir.manifest[s].id}
  <2>1. DOMAIN SortedStems = 1..Len(SortedStems) /\ Len(SortedStems) \in Nat
    BY FilesAssumption
  <2>2. B \in SUBSET Nat /\ B # {}
    BY <1>2, <2>1 DEF Stems
  <2>3. PICK k \in B : \A j \in B : k <= j
    <3> HIDE DEF B
    <3> QED
      BY <2>2, LeastNatural
  <2> DEFINE t == SortedStems[k]
  <2>4. Fine(dir, t) /\ dir.manifest[t].id = dir.manifest[s].id /\ t \in Stems /\ k \in DOMAIN SortedStems
    BY DEF Stems
  <2>5. ~Duplicate(dir, {}, k)
    <3> SUFFICES ASSUME Duplicate(dir, {}, k) PROVE FALSE
      OBVIOUS
    <3>1. PICK j \in 1..k - 1 :
            /\ dir.manifest[SortedStems[j]] # NoFile
            /\ Verdict(dir, {}, SortedStems[j]) = "added"
            /\ dir.manifest[SortedStems[j]].id = dir.manifest[t].id
      BY DEF Duplicate
    <3>2. j \in DOMAIN SortedStems
      BY <2>1, <2>4
    <3>3. j \in B
      BY <2>4, <3>1, <3>2 DEF Fine
    <3>4. k <= j /\ j \in 1..k - 1 /\ k \in Nat
      BY <2>1, <2>3, <2>4, <3>3
    <3> QED
      BY <3>4
  <2> DEFINE e == [stem |-> t, manifest |-> dir.manifest[t]]
  <2>6. e \in DiscoverPacks(dir, {}).catalog
    BY <2>4, <2>5 DEF DiscoverPacks, Fine
  <2>7. Offer(dir, t) \in Offered(dir)
    <3>1. e.manifest = dir.manifest[t] /\ e.stem = t
      OBVIOUS
    <3> HIDE DEF e, t
    <3>2. [id |-> e.manifest.id, content |-> dir.archive[e.stem].content] \in Offered(dir)
      BY <2>6 DEF Offered
    <3> QED
      BY <3>1, <3>2 DEF Offer
  <2>8. dir.archive[t].content = dir.archive[s].content
    <3>1. /\ dir.archive[t].content = dir.manifest[t].hash /\ Recorded(dir.manifest[t], t)
          /\ dir.archive[s].content = dir.manifest[s].hash /\ Recorded(dir.manifest[s], s)
      BY <1>0, <1>2, <2>4, FineIsWhole
    <3>2. s # t => dir.manifest[t].hash = dir.manifest[s].hash
      BY <2>4, <3>1, SameIdentity
    <3> QED
      BY <3>1, <3>2
  <2> QED
    BY <2>4, <2>7, <2>8 DEF Offer
<1> QED
  BY <1>1, <1>2
-----------------------------------------------------------------------------
(* JInv is kept.                                                           *)

\* A step writes one file.
Writes(d, kind, stem, what) ==
  \A e \in Dirs, k \in Kinds, s \in Stems :
    files'[e][k][s] = IF e = d /\ k = kind /\ s = stem THEN what ELSE files[e][k][s]

LEMMA PutWrites ==
  ASSUME Filed(files), NEW d \in Dirs, NEW kind \in Kinds, NEW stem \in Stems, NEW what,
         Put(d, kind, stem, what)
  PROVE  Writes(d, kind, stem, what)
<1> DEFINE put == [files EXCEPT ![d][kind][stem] = what]
<1>1. files' = put
  BY DEF Put
<1>2. \A e \in Dirs, k \in Kinds, s \in Stems :
        put[e][k][s] = IF e = d /\ k = kind /\ s = stem THEN what ELSE files[e][k][s]
  BY DEF Filed, Kinds
<1> HIDE DEF put
<1> QED
  BY <1>1, <1>2 DEF Writes

\* The names of a run's outputs tell them apart, and from the partial one.
LEMMA NamesApart ==
  ASSUME PlainNames, Places, request \in Requests
  PROVE  /\ Sidecars = Target
         /\ \A i \in DOMAIN request.outputs : i # nth => request.outputs[i].name # Target
<1>1. nth \in DOMAIN request.outputs
  BY DEF Places
<1>2. Sidecars = Target
  BY <1>1, PlainName DEF Sidecars, Target
<1> QED
  BY <1>1, <1>2, RequestAssumption DEF Target

\* A new manifest is recorded, or nothing, or torn.
LEMMA RecordedKept ==
  ASSUME AllRecorded(files), NEW fs,
         \A d \in Dirs, s \in Stems :
           \/ fs[d]["manifest"][s] = files[d]["manifest"][s]
           \/ fs[d]["manifest"][s] \in {NoFile, Torn}
           \/ Recorded(fs[d]["manifest"][s], s)
  PROVE  AllRecorded(fs)
<1> SUFFICES ASSUME NEW d \in Dirs, NEW s \in Stems
             PROVE  fs[d]["manifest"][s] \in {NoFile, Torn} \/ Recorded(fs[d]["manifest"][s], s)
  BY DEF AllRecorded
<1>1. files[d]["manifest"][s] \in {NoFile, Torn} \/ Recorded(files[d]["manifest"][s], s)
  BY DEF AllRecorded
<1>2. CASE fs[d]["manifest"][s] = files[d]["manifest"][s]
  BY <1>1, <1>2
<1> QED
  BY <1>2

LEMMA InitJ == Init => JInv
<1> SUFFICES ASSUME Init PROVE JInv
  OBVIOUS
<1>1. AllRecorded(files)
  BY DEF Init, AllRecorded, EmptyDir
<1>2. request \notin Requests
  BY RequestAssumption DEF Init
<1> QED
  BY <1>1, <1>2 DEF Init, JInv, Building, Fresh, Staging

LEMMA StartJ ==
  ASSUME IInv, JInv, NEW r \in Requests, Start(r)
  PROVE  JInv'
<1>1. Filed(files) /\ r.dir \in Dirs
  BY RequestAssumption DEF IInv
<1>2. \A e \in Dirs, s \in Stems : files'[e]["manifest"][s] = files[e]["manifest"][s]
  <2>1. files' = files \/ files' = Remove(files, r.dir, Partials(r))
    BY DEF Start
  <2>2. \A e \in Dirs, s \in Stems :
          Remove(files, r.dir, Partials(r))[e]["manifest"][s] = files[e]["manifest"][s]
    BY <1>1, RemovedAt DEF Kinds
  <2> QED
    BY <2>1, <2>2
<1>3. AllRecorded(files')
  BY <1>2, RecordedKept DEF JInv
<1>4. request' = r /\ nth' = 1 /\ outcome' # "ok"
  BY DEF Start
<1>5. CASE Refuses(r)
  <2>1. pc' = "idle"
    BY <1>5 DEF Start
  <2> QED
    BY <1>3, <1>4, <2>1 DEF JInv, Building, Fresh, Staging
<1>6. CASE ~Refuses(r)
  <2>1. pc' = IF r.existing THEN "manifest" ELSE "extract"
    BY <1>6 DEF Start
  <2>2. Building'
    BY <1>4, <2>1 DEF Building, Staging
  <2>3. ~r.force => \A i \in DOMAIN r.outputs : files[r.dir]["manifest"][r.outputs[i].name] = NoFile
    BY <1>6 DEF Refuses, Names
  <2>4. \A i \in DOMAIN r.outputs : r.outputs[i].name \in Stems
    BY OutputsOf
  <2>5. Fresh'
    BY <1>1, <1>2, <1>4, <2>3, <2>4 DEF Fresh
  <2> QED
    BY <1>3, <1>4, <2>1, <2>2, <2>5 DEF JInv, Staging
<1> QED
  BY <1>5, <1>6

LEMMA ExtractJ ==
  ASSUME PlainNames, IInv, JInv, Extract
  PROVE  JInv'
<1>1. /\ request \in Requests /\ pc = "extract" /\ pc' = "replace" /\ Places /\ Filed(files)
      /\ UNCHANGED <<request, nth, outcome>> /\ outcome # "ok"
  BY DEF Extract, Goes, Quiet, IInv, Places, JInv
<1>2. /\ request.dir \in Dirs /\ Partial(Target) \in Stems
      /\ \A i \in DOMAIN request.outputs :
           request.outputs[i].name \in Stems \ {Partial(Target)}
      /\ 1..nth - 1 \subseteq DOMAIN request.outputs
  BY <1>1, UnderWay
<1>3. Writes(request.dir, "archive", Partial(Target), WholeArchive(Area))
  BY <1>1, <1>2, PutWrites DEF Extract, Kinds
<1>4. \A e \in Dirs, s \in Stems : files'[e]["manifest"][s] = files[e]["manifest"][s]
  BY <1>3 DEF Writes, Kinds
<1>5. AllRecorded(files')
  BY <1>4, RecordedKept DEF JInv
<1>6. Target' = Target /\ Area' = Area
  BY <1>1 DEF Target, Area
<1>7. files'[request.dir]["archive"][Partial(Target)] = WholeArchive(Area)
  BY <1>2, <1>3 DEF Writes, Kinds
<1>8. \A i \in DOMAIN request.outputs :
        files'[request.dir]["archive"][request.outputs[i].name]
          = files[request.dir]["archive"][request.outputs[i].name]
  BY <1>2, <1>3 DEF Writes, Kinds
<1>9. Building'
  <2> SUFFICES ASSUME ~request.existing PROVE Building'
    BY <1>1 DEF Building
  <2>1. \A i \in 1..nth - 1 : Whole(request.dir, i)'
    BY <1>1, <1>2, <1>8 DEF JInv, Building, Whole
  <2> QED
    BY <1>1, <1>6, <1>7, <2>1 DEF Building, Staging
<1>10. Fresh'
  BY <1>1, <1>2, <1>4 DEF JInv, Fresh
<1> QED
  BY <1>1, <1>5, <1>9, <1>10 DEF JInv, Staging

LEMMA ReplaceJ ==
  ASSUME PlainNames, IInv, JInv, Replace
  PROVE  JInv'
<1>1. /\ request \in Requests /\ pc = "replace" /\ Places /\ Filed(files)
      /\ UNCHANGED <<request, outcome>> /\ outcome # "ok"
      /\ IF Last THEN pc' = "manifest" /\ nth' = 1 ELSE pc' = "extract" /\ nth' = nth + 1
  BY DEF Replace, Round, Quiet, IInv, Places, JInv
<1>2. /\ request.dir \in Dirs /\ Partial(Target) \in Stems /\ Target \in Stems
      /\ \A i \in DOMAIN request.outputs :
           request.outputs[i].name \in Stems \ {Partial(Target)}
      /\ Len(request.outputs) \in Nat /\ DOMAIN request.outputs = 1..Len(request.outputs)
      /\ nth \in 1..Len(request.outputs)
  BY <1>1, UnderWay
<1> DEFINE made == files[request.dir]["archive"][Partial(Target)]
           put == [files EXCEPT ![request.dir]["archive"][Target] = made]
<1>3. files' = Remove(put, request.dir, {Partial(Target)})
  BY DEF Replace
<1>4. made \in Archives
  BY <1>1 DEF IInv, ArchivesFirst
<1>5. Filed(put)
  BY <1>1, <1>4, ArchiveFiled
<1>6. \A e \in Dirs, k \in Kinds, s \in Stems :
        put[e][k][s] = IF e = request.dir /\ k = "archive" /\ s = Target THEN made ELSE files[e][k][s]
  <2> DEFINE kind == "archive"
  <2>1. kind \in Kinds
    BY DEF Kinds
  <2> HIDE DEF made, kind
  <2>2. \A e \in Dirs, k \in Kinds, s \in Stems :
          [files EXCEPT ![request.dir][kind][Target] = made][e][k][s]
            = IF e = request.dir /\ k = kind /\ s = Target THEN made ELSE files[e][k][s]
    BY <1>1, <1>2, <2>1 DEF Filed, Kinds
  <2> QED
    BY <2>2 DEF kind
<1>7. \A e \in Dirs, k \in Kinds, s \in Stems :
        files'[e][k][s] = IF e = request.dir /\ k = "archive" /\ s \in {Partial(Target)}
                          THEN NoFile ELSE put[e][k][s]
  <2> HIDE DEF put
  <2> QED
    BY <1>2, <1>3, <1>5, RemovedAt
<1> HIDE DEF put
<1>8. \A e \in Dirs, s \in Stems : files'[e]["manifest"][s] = files[e]["manifest"][s]
  BY <1>6, <1>7 DEF Kinds
<1>9. AllRecorded(files')
  BY <1>8, RecordedKept DEF JInv
<1>10. \A i \in DOMAIN request.outputs : i # nth => request.outputs[i].name # Target
  BY <1>1, NamesApart
<1>11. Building'
  <2> SUFFICES ASSUME ~request.existing PROVE Building'
    BY <1>1 DEF Building
  <2>1. ASSUME NEW i \in 1..nth PROVE files'[request.dir]["archive"][request.outputs[i].name] = WholeArchive(request.outputs[i].area)
    <3>1. i \in DOMAIN request.outputs
      BY <1>2
    <3>2. files'[request.dir]["archive"][request.outputs[i].name] = put[request.dir]["archive"][request.outputs[i].name]
      BY <1>2, <1>7, <3>1 DEF Kinds
    <3>3. CASE i = nth
      <4>1. made = WholeArchive(request.outputs[i].area)
        BY <1>1, <3>3 DEF JInv, Building, Area
      <4>2. request.outputs[i].name = Target
        BY <3>3 DEF Target
      <4> QED
        BY <1>2, <1>6, <3>2, <4>1, <4>2 DEF Kinds
    <3>4. CASE i # nth
      <4>1. i \in 1..nth - 1
        BY <1>2, <3>4
      <4>2. Whole(request.dir, i)
        BY <1>1, <4>1 DEF JInv, Building
      <4>3. request.outputs[i].name # Target /\ request.outputs[i].name \in Stems
        BY <1>2, <1>10, <3>1, <3>4
      <4>4. put[request.dir]["archive"][request.outputs[i].name] = files[request.dir]["archive"][request.outputs[i].name]
        BY <1>2, <1>6, <4>3 DEF Kinds
      <4> QED
        BY <3>2, <4>2, <4>4 DEF Whole
    <3> QED
      BY <3>3, <3>4
  <2>2. \A i \in 1..nth : Whole(request.dir, i)'
    BY <1>1, <2>1 DEF Whole
  <2>3. CASE Last
    <3>1. pc' = "manifest" /\ nth' = 1 /\ nth = Len(request.outputs)
      BY <1>1, <2>3 DEF Last
    <3>2. \A i \in DOMAIN request.outputs : Whole(request.dir, i)' /\ ~(i < nth')
      BY <1>2, <2>2, <3>1
    <3> QED
      BY <1>1, <3>1, <3>2 DEF Building, Staging
  <2>4. CASE ~Last
    <3>1. pc' = "extract" /\ nth' = nth + 1
      BY <1>1, <2>4
    <3>2. \A i \in 1..nth' - 1 : Whole(request.dir, i)'
      BY <1>2, <2>2, <3>1
    <3> QED
      BY <1>1, <3>1, <3>2 DEF Building, Staging
  <2> QED
    BY <2>3, <2>4
<1>12. Fresh'
  BY <1>1, <1>2, <1>8 DEF JInv, Fresh
<1> QED
  BY <1>1, <1>9, <1>11, <1>12 DEF JInv, Staging

\* The manifest that a run writes tells of the archive that it made.
LEMMA NewManifestIs ==
  ASSUME JInv, Places, request \in Requests, pc = "manifest"
  PROVE  /\ Recorded(NewManifest, Target)
         /\ ~request.existing => NewManifest = Described(request, nth)
<1>1. nth \in DOMAIN request.outputs
  BY DEF Places
<1>2. ~request.existing => NewManifest = Described(request, nth)
  <2> SUFFICES ASSUME ~request.existing PROVE NewManifest = Described(request, nth)
    OBVIOUS
  <2> DEFINE a == files[request.dir].archive[Target]
  <2>1. a = WholeArchive(Area)
    BY <1>1 DEF JInv, Building, Whole, Target, Area
  <2>2. a.content = Area /\ a.size = SizeOf(Area)
    BY <2>1 DEF WholeArchive
  <2> HIDE DEF a
  <2>3. NewManifest = [id |-> <<request.region, Area>>, hash |-> a.content, size |-> a.size, valid |-> request.valid]
    BY DEF NewManifest, a
  <2> QED
    BY <2>2, <2>3 DEF Described, Area
<1>3. NewManifest.id = <<request.region, Area>>
  BY DEF NewManifest
<1>4. ~request.existing => NewManifest.hash = Area /\ NewManifest.size = SizeOf(Area)
  BY <1>2 DEF Described, Area
<1>5. Recorded(NewManifest, Target)
  BY <1>1, <1>3, <1>4 DEF Recorded, Target, Area
<1> QED
  BY <1>2, <1>5

LEMMA ManifestJ ==
  ASSUME PlainNames, IInv, JInv, WriteManifest
  PROVE  JInv'
<1>1. /\ request \in Requests /\ pc = "manifest" /\ pc' = "checksum" /\ Places /\ Filed(files)
      /\ UNCHANGED <<request, nth, outcome>> /\ outcome # "ok"
  BY DEF WriteManifest, Goes, Quiet, IInv, Places, JInv
<1>2. /\ request.dir \in Dirs /\ Target \in Stems
      /\ \A i \in DOMAIN request.outputs : request.outputs[i].name \in Stems
      /\ Len(request.outputs) \in Nat /\ DOMAIN request.outputs = 1..Len(request.outputs)
      /\ nth \in 1..Len(request.outputs)
  BY <1>1, UnderWay
<1>3. /\ Sidecars = Target
      /\ \A i \in DOMAIN request.outputs : i # nth => request.outputs[i].name # Target
  BY <1>1, NamesApart
<1>4. /\ Recorded(NewManifest, Target)
      /\ ~request.existing => NewManifest = Described(request, nth)
  BY <1>1, NewManifestIs
<1>5. Writes(request.dir, "manifest", Target, NewManifest)
  BY <1>1, <1>2, <1>3, PutWrites DEF WriteManifest, Kinds
<1> DEFINE new == NewManifest
<1> HIDE DEF new
<1>6. \A e \in Dirs, s \in Stems :
        files'[e]["manifest"][s] = IF e = request.dir /\ s = Target THEN new ELSE files[e]["manifest"][s]
  BY <1>5 DEF Writes, Kinds, new
<1>7. AllRecorded(files')
  BY <1>4, <1>6, RecordedKept DEF JInv, new
<1>8. \A e \in Dirs, s \in Stems : files'[e]["archive"][s] = files[e]["archive"][s]
  BY <1>5 DEF Writes, Kinds
<1>9. Building'
  <2> SUFFICES ASSUME ~request.existing PROVE Building'
    BY <1>1 DEF Building
  <2>1. \A i \in DOMAIN request.outputs : Whole(request.dir, i)'
    BY <1>1, <1>2, <1>8 DEF JInv, Building, Whole
  <2>2. ASSUME NEW i \in DOMAIN request.outputs, i <= nth PROVE Told(request.dir, i)'
    <3>1. CASE i = nth
      <4>1. files'[request.dir]["manifest"][request.outputs[i].name] = Described(request, i)
        BY <1>2, <1>4, <1>6, <3>1 DEF Target, new
      <4> QED
        BY <1>1, <4>1 DEF Told
    <3>2. CASE i # nth
      <4>1. i < nth
        BY <1>2, <2>2, <3>2
      <4>2. Told(request.dir, i)
        BY <1>1, <4>1 DEF JInv, Building
      <4>3. files'[request.dir]["manifest"][request.outputs[i].name] = files[request.dir]["manifest"][request.outputs[i].name]
        BY <1>2, <1>3, <1>6, <3>2
      <4> QED
        BY <1>1, <4>2, <4>3 DEF Told
    <3> QED
      BY <3>1, <3>2
  <2> QED
    BY <1>1, <2>1, <2>2 DEF Building, Staging
<1>10. Fresh'
  <2> SUFFICES ASSUME ~request.force, NEW i \in DOMAIN request.outputs, i > nth
               PROVE  files'[request.dir]["manifest"][request.outputs[i].name] = NoFile
    BY <1>1 DEF Fresh
  <2>1. i # nth /\ i >= nth
    BY <1>2
  <2>2. files[request.dir]["manifest"][request.outputs[i].name] = NoFile
    BY <1>1, <2>1 DEF JInv, Fresh
  <2> QED
    BY <1>2, <1>3, <1>6, <2>1, <2>2
<1> QED
  BY <1>1, <1>7, <1>9, <1>10 DEF JInv, Staging

\* The checksum is no part of what a device reads.
LEMMA ChecksumJ ==
  ASSUME PlainNames, IInv, JInv, WriteChecksum
  PROVE  JInv'
<1>1. /\ request \in Requests /\ pc = "checksum" /\ Places /\ Filed(files)
      /\ UNCHANGED request /\ outcome # "ok"
      /\ IF Last THEN pc' = (IF Stages THEN "stage_archive" ELSE "idle") /\ nth' = 1
                 ELSE pc' = "manifest" /\ nth' = nth + 1
      /\ outcome' = IF Stages \/ ~Last THEN "none" ELSE "ok"
  BY DEF WriteChecksum, Round, Quiet, IInv, Places, JInv
<1>2. /\ request.dir \in Dirs /\ Target \in Stems
      /\ \A i \in DOMAIN request.outputs : request.outputs[i].name \in Stems
      /\ Len(request.outputs) \in Nat /\ DOMAIN request.outputs = 1..Len(request.outputs)
      /\ nth \in 1..Len(request.outputs) /\ Sidecars \in Stems
  BY <1>1, UnderWay
<1> DEFINE what == files[request.dir]["archive"][Target].content
<1>3. Writes(request.dir, "checksum", Sidecars, what)
  <2>1. Put(request.dir, "checksum", Sidecars, what)
    BY DEF WriteChecksum
  <2> HIDE DEF what
  <2> QED
    BY <1>1, <1>2, <2>1, PutWrites DEF Kinds
<1>4. \A e \in Dirs, s \in Stems : /\ files'[e]["manifest"][s] = files[e]["manifest"][s]
                                   /\ files'[e]["archive"][s] = files[e]["archive"][s]
  BY <1>3 DEF Writes, Kinds
<1>5. AllRecorded(files')
  BY <1>4, RecordedKept DEF JInv
<1>6. Stages' <=> Stages
  BY <1>1 DEF Stages
<1>7. \A i \in DOMAIN request.outputs : Whole(request.dir, i)' <=> Whole(request.dir, i)
  BY <1>1, <1>2, <1>4 DEF Whole
<1>8. \A i \in DOMAIN request.outputs : Told(request.dir, i)' <=> Told(request.dir, i)
  BY <1>1, <1>2, <1>4 DEF Told
<1>9. ~request.existing => \A i \in DOMAIN request.outputs :
        Whole(request.dir, i)' /\ (i <= nth => Told(request.dir, i)')
  BY <1>1, <1>7, <1>8 DEF JInv, Building
<1>10. CASE Last
  <2>1. nth = Len(request.outputs) /\ nth' = 1 /\ pc' \in {"stage_archive", "idle"} /\ (pc' = "stage_archive" => Stages)
        /\ (outcome' = "ok" => ~Stages /\ pc' = "idle")
    BY <1>1, <1>10 DEF Last
  <2>2. \A i \in DOMAIN request.outputs : i <= nth
    BY <1>2, <2>1
  <2>3. Building'
    BY <1>1, <1>6, <1>9, <2>1, <2>2 DEF Building, Staging
  <2>4. Fresh'
    BY <2>1 DEF Fresh
  <2> QED
    BY <1>1, <1>5, <1>6, <2>1, <2>3, <2>4 DEF JInv, Staging
<1>11. CASE ~Last
  <2>1. nth' = nth + 1 /\ pc' = "manifest" /\ outcome' = "none"
    BY <1>1, <1>11
  <2>2. \A i \in DOMAIN request.outputs : (i < nth' <=> i <= nth) /\ (i >= nth' <=> i > nth)
    BY <1>2, <2>1
  <2>3. Building'
    BY <1>1, <1>9, <2>1, <2>2 DEF Building, Staging
  <2>4. Fresh'
    <3> SUFFICES ASSUME ~request.force, NEW i \in DOMAIN request.outputs, i > nth
                 PROVE  files'[request.dir]["manifest"][request.outputs[i].name] = NoFile
      BY <1>1, <2>1, <2>2 DEF Fresh
    <3> QED
      BY <1>1, <1>2, <1>4 DEF JInv, Fresh
  <2> QED
    BY <1>5, <2>1, <2>3, <2>4 DEF JInv, Staging
<1> QED
  BY <1>10, <1>11

\* A run that stages has one output, and copies it to another directory.
LEMMA StagesOne ==
  ASSUME PlainNames, IInv, JInv, pc \in Staging
  PROVE  /\ request \in Requests /\ Stages /\ request.dest \in Dirs /\ request.dest # request.dir
         /\ request.dir \in Dirs /\ Target \in Stems /\ Sidecars = Target
         /\ nth = 1 /\ DOMAIN request.outputs = {1} /\ outcome # "ok"
<1>1. request \in Requests /\ Places /\ Stages /\ outcome # "ok"
  BY DEF IInv, Places, JInv, Staging
<1>2. request.dest \in Dirs /\ request.dest # request.dir
  BY <1>1 DEF Places, Staging, Stages
<1>3. Len(request.outputs) = 1
  BY <1>1, RequestAssumption DEF Stages
<1>4. nth = 1 /\ DOMAIN request.outputs = {1} /\ request.dir \in Dirs /\ Target \in Stems
  BY <1>1, <1>3, UnderWay
<1> QED
  BY <1>1, <1>2, <1>4, NamesApart

LEMMA StageArchiveJ ==
  ASSUME PlainNames, IInv, JInv, StageArchive
  PROVE  JInv'
<1>1. pc = "stage_archive" /\ pc' = "stage_manifest" /\ UNCHANGED <<request, nth, outcome>> /\ Filed(files)
  BY DEF StageArchive, StageFile, Goes, Quiet, IInv
<1>2. /\ request \in Requests /\ Stages /\ request.dest \in Dirs /\ request.dest # request.dir
      /\ request.dir \in Dirs /\ Target \in Stems /\ Sidecars = Target
      /\ nth = 1 /\ DOMAIN request.outputs = {1} /\ outcome # "ok"
  BY <1>1, StagesOne DEF Staging
<1> DEFINE found == files[request.dir]["archive"][Target]
<1>3. \/ found = NoFile /\ files' = files
      \/ found # NoFile /\ Writes(request.dest, "archive", Target, found)
  <2>1. \/ found = NoFile /\ files' = files
        \/ found # NoFile /\ Put(request.dest, "archive", Target, found)
    BY DEF StageArchive, StageFile
  <2> HIDE DEF found
  <2> QED
    BY <1>1, <1>2, <2>1, PutWrites DEF Kinds
<1>4. \A e \in Dirs, s \in Stems : files'[e]["manifest"][s] = files[e]["manifest"][s]
  BY <1>3 DEF Writes, Kinds
<1>5. \A s \in Stems : files'[request.dir]["archive"][s] = files[request.dir]["archive"][s]
  BY <1>2, <1>3 DEF Writes, Kinds
<1>6. found # NoFile => files'[request.dest]["archive"][Target] = found
  BY <1>2, <1>3 DEF Writes, Kinds
<1>7. AllRecorded(files')
  BY <1>4, RecordedKept DEF JInv
<1>8. Target = request.outputs[1].name /\ Area = request.outputs[1].area
  BY <1>2 DEF Target, Area
<1>9. Stages' <=> Stages
  BY <1>1 DEF Stages
<1>10. Building'
  <2> SUFFICES ASSUME ~request.existing PROVE Building'
    BY <1>1 DEF Building
  <2>1. Whole(request.dir, 1) /\ Told(request.dir, 1)
    BY <1>1, <1>2 DEF JInv, Building, Staging
  <2>2. Area \in Areas
    BY <1>2, <1>8, OutputsOf
  <2>3. found = WholeArchive(Area) /\ found # NoFile
    BY <1>8, <2>1, <2>2, FilesAssumption DEF Whole
  <2>4. Whole(request.dir, 1)' /\ Told(request.dir, 1)'
    BY <1>1, <1>2, <1>4, <1>5, <1>8, <2>1 DEF Whole, Told
  <2>5. Whole(request.dest, 1)'
    BY <1>1, <1>6, <1>8, <2>3 DEF Whole
  <2> QED
    BY <1>1, <1>2, <2>4, <2>5 DEF Building
<1>11. Fresh'
  BY <1>1 DEF Fresh
<1> QED
  BY <1>1, <1>2, <1>7, <1>9, <1>10, <1>11 DEF JInv

LEMMA StageManifestJ ==
  ASSUME PlainNames, IInv, JInv, StageManifest
  PROVE  JInv'
<1>1. pc = "stage_manifest" /\ pc' = "stage_checksum" /\ UNCHANGED <<request, nth, outcome>> /\ Filed(files)
  BY DEF StageManifest, StageFile, Goes, Quiet, IInv
<1>2. /\ request \in Requests /\ Stages /\ request.dest \in Dirs /\ request.dest # request.dir
      /\ request.dir \in Dirs /\ Target \in Stems /\ Sidecars = Target
      /\ nth = 1 /\ DOMAIN request.outputs = {1} /\ outcome # "ok"
  BY <1>1, StagesOne DEF Staging
<1> DEFINE found == files[request.dir]["manifest"][Target]
<1>3. \/ found = NoFile /\ files' = files
      \/ found # NoFile /\ Writes(request.dest, "manifest", Target, found)
  <2>1. \/ found = NoFile /\ files' = files
        \/ found # NoFile /\ Put(request.dest, "manifest", Target, found)
    BY <1>2 DEF StageManifest, StageFile
  <2> HIDE DEF found
  <2> QED
    BY <1>1, <1>2, <2>1, PutWrites DEF Kinds
<1>4. found \in {NoFile, Torn} \/ Recorded(found, Target)
  BY <1>2 DEF JInv, AllRecorded
<1>5. AllRecorded(files')
  <2>1. \A e \in Dirs, s \in Stems :
          \/ files'[e]["manifest"][s] = files[e]["manifest"][s]
          \/ s = Target /\ files'[e]["manifest"][s] = found
    <3> HIDE DEF found
    <3> QED
      BY <1>3 DEF Writes, Kinds
  <2> HIDE DEF found
  <2> QED
    BY <1>4, <2>1, RecordedKept DEF JInv
<1>6. \A s \in Stems : files'[request.dir]["manifest"][s] = files[request.dir]["manifest"][s]
  BY <1>2, <1>3 DEF Writes, Kinds
<1>7. found # NoFile => files'[request.dest]["manifest"][Target] = found
  BY <1>2, <1>3 DEF Writes, Kinds
<1>8. \A e \in Dirs, s \in Stems : files'[e]["archive"][s] = files[e]["archive"][s]
  BY <1>3 DEF Writes, Kinds
<1>9. Target = request.outputs[1].name /\ Area = request.outputs[1].area
  BY <1>2 DEF Target, Area
<1>10. Stages' <=> Stages
  BY <1>1 DEF Stages
<1>11. Building'
  <2> SUFFICES ASSUME ~request.existing PROVE Building'
    BY <1>1 DEF Building
  <2>1. Whole(request.dir, 1) /\ Told(request.dir, 1) /\ Whole(request.dest, 1)
    BY <1>1, <1>2 DEF JInv, Building, Staging
  <2>2. Area \in Areas
    BY <1>2, <1>9, OutputsOf
  <2>3. found = Described(request, 1)
    BY <1>9, <2>1 DEF Told
  <2>4. found # NoFile
    BY <1>2, <1>9, <2>2, <2>3, FilesAssumption DEF Described
  <2>5. Whole(request.dir, 1)' /\ Told(request.dir, 1)' /\ Whole(request.dest, 1)'
    BY <1>1, <1>2, <1>6, <1>8, <1>9, <2>1 DEF Whole, Told
  <2>6. Told(request.dest, 1)'
    BY <1>1, <1>7, <1>9, <2>3, <2>4 DEF Told
  <2> QED
    BY <1>1, <1>2, <2>5, <2>6 DEF Building
<1>12. Fresh'
  BY <1>1 DEF Fresh
<1> QED
  BY <1>1, <1>2, <1>5, <1>10, <1>11, <1>12 DEF JInv

LEMMA StageChecksumJ ==
  ASSUME PlainNames, IInv, JInv, StageChecksum
  PROVE  JInv'
<1>1. pc = "stage_checksum" /\ pc' = "idle" /\ outcome' = "ok" /\ UNCHANGED <<request, nth>> /\ Filed(files)
  BY DEF StageChecksum, StageFile, Goes, Quiet, IInv
<1>2. /\ request \in Requests /\ Stages /\ request.dest \in Dirs /\ request.dest # request.dir
      /\ request.dir \in Dirs /\ Target \in Stems /\ Sidecars = Target
      /\ nth = 1 /\ DOMAIN request.outputs = {1} /\ outcome # "ok"
  BY <1>1, StagesOne DEF Staging
<1> DEFINE found == files[request.dir]["checksum"][Target]
<1>3. files' = files \/ Writes(request.dest, "checksum", Target, found)
  <2>1. files' = files \/ Put(request.dest, "checksum", Target, found)
    BY <1>2 DEF StageChecksum, StageFile
  <2> HIDE DEF found
  <2> QED
    BY <1>1, <1>2, <2>1, PutWrites DEF Kinds
<1>4. \A e \in Dirs, s \in Stems : /\ files'[e]["manifest"][s] = files[e]["manifest"][s]
                                   /\ files'[e]["archive"][s] = files[e]["archive"][s]
  BY <1>3 DEF Writes, Kinds
<1>5. AllRecorded(files')
  BY <1>4, RecordedKept DEF JInv
<1>6. request.outputs[1].name \in Stems
  BY <1>2, OutputsOf
<1>7. Stages' <=> Stages
  BY <1>1 DEF Stages
<1>8. Building'
  <2> SUFFICES ASSUME ~request.existing PROVE Building'
    BY <1>1 DEF Building
  <2>1. Whole(request.dir, 1) /\ Told(request.dir, 1) /\ Whole(request.dest, 1) /\ Told(request.dest, 1)
    BY <1>1, <1>2 DEF JInv, Building, Staging
  <2>2. Whole(request.dir, 1)' /\ Told(request.dir, 1)' /\ Whole(request.dest, 1)' /\ Told(request.dest, 1)'
    BY <1>1, <1>2, <1>4, <1>6, <2>1 DEF Whole, Told
  <2> QED
    BY <1>1, <1>2, <2>2 DEF Building
<1>9. Fresh'
  BY <1>1 DEF Fresh
<1> QED
  BY <1>1, <1>2, <1>5, <1>7, <1>8, <1>9 DEF JInv, Staging

\* A step that did not complete writes no manifest but a torn one.
LEMMA InterruptedLeaves ==
  ASSUME IInv, request \in Requests, Interrupted
  PROVE  \A d \in Dirs, s \in Stems :
           files'[d]["manifest"][s] = files[d]["manifest"][s] \/ files'[d]["manifest"][s] = Torn
<1>1. Places /\ Filed(files)
  BY DEF IInv
<1>2. \A d, stem, what : \A e \in Dirs, s \in Stems :
        [files EXCEPT ![d]["archive"][stem] = what][e]["manifest"][s] = files[e]["manifest"][s]
  BY <1>1 DEF Filed, Kinds
<1>3. \A d, stem, what : \A e \in Dirs, s \in Stems :
        [files EXCEPT ![d]["checksum"][stem] = what][e]["manifest"][s] = files[e]["manifest"][s]
  BY <1>1 DEF Filed, Kinds
<1>4. \A d, stem, what : \A e \in Dirs, s \in Stems :
        [files EXCEPT ![d]["manifest"][stem] = what][e]["manifest"][s] \in {files[e]["manifest"][s], what}
  BY <1>1 DEF Filed, Kinds
<1> DEFINE put(d, kind, stem, what) == [files EXCEPT ![d][kind][stem] = what]
           torn == TornArchive(Area)
<1>5. \/ files' = files
      \/ files' = put(request.dir, "archive", Partial(Target), torn)
      \/ files' = put(request.dir, "manifest", Sidecars, Torn)
      \/ files' = put(request.dir, "checksum", Sidecars, Torn)
      \/ files' = put(request.dest, "archive", Target, torn)
      \/ files' = put(request.dest, "manifest", Sidecars, Torn)
      \/ files' = put(request.dest, "checksum", Sidecars, Torn)
  BY DEF Interrupted, Put
<1>6. \A d, stem, what : \A e \in Dirs, s \in Stems :
        /\ put(d, "archive", stem, what)[e]["manifest"][s] = files[e]["manifest"][s]
        /\ put(d, "checksum", stem, what)[e]["manifest"][s] = files[e]["manifest"][s]
        /\ put(d, "manifest", stem, what)[e]["manifest"][s] \in {files[e]["manifest"][s], what}
  BY <1>2, <1>3, <1>4
<1> HIDE DEF put, torn
<1> QED
  BY <1>5, <1>6

LEMMA EndJ ==
  ASSUME IInv, JInv, Fail \/ Crash
  PROVE  JInv'
<1>1. /\ request \in Requests /\ Places /\ Filed(files)
      /\ pc' = "idle" /\ outcome' \in {"failed", "crashed"}
  BY DEF Fail, Crash, IInv, Places
<1>2. request.dir \in Dirs
  BY <1>1, RequestAssumption
<1>3. \A d \in Dirs, s \in Stems :
        files'[d]["manifest"][s] = files[d]["manifest"][s] \/ files'[d]["manifest"][s] = Torn
  <2>1. CASE Interrupted
    BY <1>1, <2>1, InterruptedLeaves
  <2>2. CASE files' = Remove(files, request.dir, Partials(request))
    <3>1. \A d \in Dirs, s \in Stems :
            Remove(files, request.dir, Partials(request))[d]["manifest"][s] = files[d]["manifest"][s]
      BY <1>1, <1>2, RemovedAt DEF Kinds
    <3> QED
      BY <2>2, <3>1
  <2> QED
    BY <2>1, <2>2 DEF Fail, Crash
<1>4. AllRecorded(files')
  BY <1>3, RecordedKept DEF JInv
<1> QED
  BY <1>1, <1>4 DEF JInv, Building, Fresh, Staging

\* A device that boots writes nothing.
LEMMA QuietJ ==
  ASSUME JInv, UNCHANGED <<pc, request, nth, outcome, files>>
  PROVE  JInv'
BY DEF JInv, AllRecorded, Building, Fresh, Stages, Whole, Told, Target, Area

LEMMA NextJ ==
  ASSUME PlainNames
  PROVE  IInv /\ JInv /\ [Next]_vars => JInv'
<1> SUFFICES ASSUME IInv, JInv, [Next]_vars PROVE JInv'
  OBVIOUS
<1>1. CASE \E r \in Requests : Start(r)
  BY <1>1, StartJ
<1>2. CASE Extract \/ Replace
  BY <1>2, ExtractJ, ReplaceJ
<1>3. CASE WriteManifest \/ WriteChecksum
  BY <1>3, ManifestJ, ChecksumJ
<1>4. CASE StageArchive \/ StageManifest \/ StageChecksum
  BY <1>4, StageArchiveJ, StageManifestJ, StageChecksumJ
<1>5. CASE Fail \/ Crash
  BY <1>5, EndJ
<1>6. CASE Boot \/ UNCHANGED vars
  <2>1. UNCHANGED <<pc, request, nth, outcome, files>>
    BY <1>6 DEF Boot, vars
  <2> QED
    BY <2>1, QuietJ
<1> QED
  BY <1>1, <1>2, <1>3, <1>4, <1>5, <1>6 DEF Next

LEMMA JInvariance ==
  ASSUME PlainNames
  PROVE  Spec => []JInv
<1>1. IInv /\ JInv /\ [Next]_vars => JInv'
  BY NextJ
<1> QED
  BY InitJ, <1>1, Invariance, PTL DEF Spec

\* What the device finds of an output that is whole and told of.
LEMMA WholeIsOffered ==
  ASSUME IInv, JInv, request \in Requests, request.valid, NEW i \in DOMAIN request.outputs,
         Whole(Card, i), Told(Card, i)
  PROVE  [id |-> <<request.region, request.outputs[i].area>>, content |-> request.outputs[i].area]
           \in Offered(files[Card])
<1> DEFINE name == request.outputs[i].name
           area == request.outputs[i].area
           dir == files[Card]
<1>1. name \in Stems /\ area \in Areas
  BY OutputsOf
<1>2. dir.manifest[name] = Described(request, i) /\ dir.archive[name] = WholeArchive(area)
  BY DEF Whole, Told
<1>3. Described(request, i) \notin {NoFile, Torn} /\ WholeArchive(area) # NoFile
  BY <1>1, FilesAssumption DEF Described
<1>4. SizeOf(area) # 0
  BY <1>1, WholeArchives
<1>5. /\ Described(request, i).valid = request.valid /\ Described(request, i).size = SizeOf(area)
      /\ Described(request, i).id = <<request.region, area>>
      /\ WholeArchive(area).size = SizeOf(area) /\ WholeArchive(area).content = area
  BY DEF Described, WholeArchive
<1> HIDE DEF name, area, dir
<1>6. Verdict(dir, {}, name) = "added"
  BY <1>2, <1>3, <1>4, <1>5 DEF Verdict
<1>7. Fine(dir, name)
  BY <1>2, <1>3, <1>6 DEF Fine
<1>8. Offer(dir, name) = [id |-> <<request.region, area>>, content |-> area]
  BY <1>2, <1>5 DEF Offer
<1>9. Offer(dir, name) \in Offered(dir)
  BY <1>1, <1>7, OfferedAreFine DEF IInv, JInv, dir
<1> QED
  BY <1>8, <1>9 DEF area, dir

\* SuccessIsOffered: a run of provision_pack.py, build_regional_pack.py or
\* build_world_overview.py that ends with success has put every pack it was
\* asked for where the device finds it, whatever earlier runs left behind there,
\* if names have no period.
THEOREM SuccessIsFound ==
  ASSUME PlainNames
  PROVE  Spec => []SuccessIsOffered
<1>1. IInv /\ JInv => SuccessIsOffered
  <2> SUFFICES ASSUME IInv, JInv, outcome = "ok", request.valid, ~request.existing,
                      Card \in {request.dir, request.dest}, NEW i \in DOMAIN request.outputs
               PROVE  [id |-> <<request.region, request.outputs[i].area>>, content |-> request.outputs[i].area]
                        \in Offered(files[Card])
    BY DEF SuccessIsOffered
  <2>1. request \in Requests
    BY DEF JInv
  <2>2. /\ Whole(request.dir, i) /\ Told(request.dir, i)
        /\ Stages => Whole(request.dest, i) /\ Told(request.dest, i)
    BY <2>1 DEF JInv, Building
  <2>3. Card # request.dir => Stages
    BY <2>1, CardAssumption, RequestAssumption DEF Stages
  <2>4. Whole(Card, i) /\ Told(Card, i)
    BY <2>2, <2>3
  <2> QED
    BY <2>1, <2>4, WholeIsOffered
<1> QED
  BY <1>1, Invariance, JInvariance, PTL

-----------------------------------------------------------------------------
(* Without --force, nothing that a device would take is touched.           *)

Spares(fs) ==
  \A d \in Dirs, s \in Stems :
    Fine(files[d], s) => /\ fs[d]["manifest"][s] = files[d]["manifest"][s]
                         /\ fs[d]["archive"][s] = files[d]["archive"][s]

LEMMA SparedIsOffered ==
  ASSUME Filed(files), AllRecorded(files), NEW fs, Filed(fs), AllRecorded(fs), Spares(fs)
  PROVE  Offered(files[Card]) \subseteq Offered(fs[Card])
<1> SUFFICES ASSUME NEW o \in Offered(files[Card]) PROVE o \in Offered(fs[Card])
  OBVIOUS
<1>1. PICK s \in Stems : Fine(files[Card], s) /\ o = Offer(files[Card], s)
  BY OfferedAreFine
<1>2. /\ fs[Card]["manifest"][s] = files[Card]["manifest"][s]
      /\ fs[Card]["archive"][s] = files[Card]["archive"][s]
  BY <1>1, CardAssumption DEF Spares
<1>3. Fine(fs[Card], s) /\ Offer(fs[Card], s) = o
  BY <1>1, <1>2 DEF Fine, Verdict, Offer
<1> QED
  BY <1>3, OfferedAreFine

\* What a device takes is nobody's partial archive.
LEMMA FineIsNotPartial ==
  ASSUME PlainNames, Filed(files), AllRecorded(files), NEW d \in Dirs, NEW s \in Stems, Fine(files[d], s)
  PROVE  \A r \in Requests : s \notin Partials(r)
<1>1. Recorded(files[d].manifest[s], s)
  BY FineIsWhole
<1>2. PICK q \in Requests : \E j \in DOMAIN q.outputs : s = q.outputs[j].name
  BY <1>1 DEF Recorded
<1> SUFFICES ASSUME NEW r \in Requests, s \in Partials(r) PROVE FALSE
  OBVIOUS
<1>3. PICK i \in DOMAIN r.outputs : s = Partial(r.outputs[i].name)
  BY DEF Partials, Names
<1> QED
  BY <1>2, <1>3, PlainName

LEMMA RemovedSpares ==
  ASSUME PlainNames, Filed(files), AllRecorded(files), NEW r \in Requests
  PROVE  Spares(Remove(files, r.dir, Partials(r)))
<1>1. r.dir \in Dirs
  BY RequestAssumption
<1> DEFINE fs == Remove(files, r.dir, Partials(r))
<1>2. \A e \in Dirs, k \in Kinds, s \in Stems :
        fs[e][k][s] = IF e = r.dir /\ k = "archive" /\ s \in Partials(r) THEN NoFile ELSE files[e][k][s]
  BY <1>1, RemovedAt
<1> HIDE DEF fs
<1>3. Spares(fs)
  BY <1>2, FineIsNotPartial DEF Spares, Kinds
<1> QED
  BY <1>3 DEF fs

\* What a run writes, and what a step that does not complete leaves: partial
\* archives, checksums, and an archive or a manifest where no manifest was.
Harmless(d, kind, stem) ==
  \/ kind = "archive" /\ stem = Partial(Target)
  \/ kind = "checksum"
  \/ files[d]["manifest"][stem] = NoFile

LEMMA HarmlessSpares ==
  ASSUME PlainNames, IInv, JInv, request \in Requests,
         NEW d \in Dirs, NEW kind \in Kinds, NEW stem \in Stems, NEW what,
         Put(d, kind, stem, what), Harmless(d, kind, stem)
  PROVE  Spares(files')
<1>1. Writes(d, kind, stem, what)
  BY PutWrites DEF IInv
<1>2. Filed(files) /\ AllRecorded(files) /\ Partial(Target) \in Partials(request)
  BY DEF IInv, JInv, Places, Partials, Names, Target
<1> SUFFICES ASSUME NEW e \in Dirs, NEW s \in Stems, Fine(files[e], s)
             PROVE  /\ files'[e]["manifest"][s] = files[e]["manifest"][s]
                    /\ files'[e]["archive"][s] = files[e]["archive"][s]
  BY DEF Spares
<1>3. s # Partial(Target)
  BY <1>2, FineIsNotPartial
<1>4. files[e]["manifest"][s] # NoFile
  BY DEF Fine
<1>5. \A k \in {"manifest", "archive"} : ~(e = d /\ k = kind /\ s = stem)
  BY <1>3, <1>4 DEF Harmless
<1> QED
  BY <1>1, <1>5 DEF Writes, Kinds

\* A run without --force has no manifest where it writes.
LEMMA TargetIsFresh ==
  ASSUME IInv, JInv, request \in Requests, ~request.force, pc \in {"replace", "manifest"}
  PROVE  files[request.dir]["manifest"][Target] = NoFile
<1>1. nth \in DOMAIN request.outputs /\ nth >= nth
  BY UnderWay DEF IInv, Places
<1> QED
  BY <1>1 DEF JInv, Fresh, Target

LEMMA ReplaceSpares ==
  ASSUME PlainNames, IInv, JInv, Replace, ~request.force
  PROVE  Spares(files')
<1>1. request \in Requests /\ pc = "replace" /\ Places /\ Filed(files) /\ AllRecorded(files)
  BY DEF Replace, Round, IInv, Places, JInv
<1>2. /\ request.dir \in Dirs /\ Partial(Target) \in Stems /\ Target \in Stems
      /\ files[request.dir]["manifest"][Target] = NoFile
  BY <1>1, UnderWay, TargetIsFresh
<1> DEFINE made == files[request.dir]["archive"][Partial(Target)]
           put == [files EXCEPT ![request.dir]["archive"][Target] = made]
<1>3. made \in Archives
  BY <1>1 DEF IInv, ArchivesFirst
<1>4. Filed(put)
  BY <1>1, <1>3, ArchiveFiled
<1>5. \A e \in Dirs, k \in Kinds, s \in Stems :
        ~(e = request.dir /\ k = "archive" /\ s = Target) => put[e][k][s] = files[e][k][s]
  BY <1>1, <1>2 DEF Filed, Kinds
<1>6. files' = Remove(put, request.dir, {Partial(Target)})
  BY DEF Replace
<1>7. \A e \in Dirs, k \in Kinds, s \in Stems :
        ~(e = request.dir /\ k = "archive" /\ s \in {Partial(Target)}) => files'[e][k][s] = put[e][k][s]
  <2> HIDE DEF put
  <2> QED
    BY <1>2, <1>4, <1>6, RemovedAt
<1> HIDE DEF put
<1> SUFFICES ASSUME NEW e \in Dirs, NEW s \in Stems, Fine(files[e], s)
             PROVE  /\ files'[e]["manifest"][s] = files[e]["manifest"][s]
                    /\ files'[e]["archive"][s] = files[e]["archive"][s]
  BY DEF Spares
<1>8. Partial(Target) \in Partials(request)
  BY <1>1 DEF Places, Partials, Names, Target
<1>9. s # Partial(Target)
  BY <1>1, <1>8, FineIsNotPartial
<1>10. ~(e = request.dir /\ s = Target)
  BY <1>2 DEF Fine
<1> QED
  BY <1>5, <1>7, <1>9, <1>10 DEF Kinds

LEMMA InterruptedSpares ==
  ASSUME PlainNames, IInv, JInv, request \in Requests, ~request.force, ~Stages, Interrupted
  PROVE  Spares(files')
<1>1. /\ request.dir \in Dirs /\ Partial(Target) \in Stems /\ Target \in Stems /\ Sidecars = Target
  BY UnderWay, NamesApart DEF IInv
<1>2. CASE UNCHANGED files
  BY <1>2 DEF Spares
<1>3. CASE pc = "extract" /\ Put(request.dir, "archive", Partial(Target), TornArchive(Area))
  BY <1>1, <1>3, HarmlessSpares DEF Harmless, Kinds
<1>4. CASE pc = "manifest" /\ Put(request.dir, "manifest", Sidecars, Torn)
  BY <1>1, <1>4, HarmlessSpares, TargetIsFresh DEF Harmless, Kinds
<1>5. CASE pc = "checksum" /\ Put(request.dir, "checksum", Sidecars, Torn)
  BY <1>1, <1>5, HarmlessSpares DEF Harmless, Kinds
<1>6. pc \notin Staging
  BY DEF JInv
<1> QED
  BY <1>2, <1>3, <1>4, <1>5, <1>6 DEF Interrupted, Staging

LEMMA NextSpares ==
  ASSUME PlainNames, IInv, JInv, [Next]_vars,
         request' # NoRequest, ~request'.force, request'.dest \in {request'.dir, Nowhere}
  PROVE  Spares(files')
<1>1. Filed(files) /\ AllRecorded(files)
  BY DEF IInv, JInv
<1>2. Spares(files)
  BY DEF Spares
<1>3. ASSUME NEW r \in Requests, Start(r) PROVE Spares(files')
  <2>1. files' = files \/ files' = Remove(files, r.dir, Partials(r))
    BY <1>3 DEF Start
  <2> QED
    BY <1>1, <1>2, <2>1, RemovedSpares
<1>4. CASE pc # "idle" /\ Quiet
  <2>1. request \in Requests /\ ~request.force /\ request.dest \in {request.dir, Nowhere} /\ Places
    BY <1>4 DEF IInv, Places, Quiet
  <2>2. ~Stages /\ pc \notin Staging
    BY <2>1 DEF Stages, JInv
  <2>3. /\ request.dir \in Dirs /\ Partial(Target) \in Stems /\ Target \in Stems /\ Sidecars = Target
    BY <2>1, UnderWay, NamesApart
  <2>4. CASE Extract
    BY <2>1, <2>3, <2>4, HarmlessSpares DEF Extract, Harmless, Kinds
  <2>5. CASE Replace
    BY <2>1, <2>5, ReplaceSpares
  <2>6. CASE WriteManifest
    <3>1. Put(request.dir, "manifest", Target, NewManifest) /\ pc = "manifest"
      BY <2>3, <2>6 DEF WriteManifest, Goes
    <3>2. Harmless(request.dir, "manifest", Target)
      BY <2>1, <3>1, TargetIsFresh DEF Harmless
    <3> QED
      BY <2>1, <2>3, <3>1, <3>2, HarmlessSpares DEF Kinds
  <2>7. CASE WriteChecksum
    BY <2>1, <2>3, <2>7, HarmlessSpares DEF WriteChecksum, Harmless, Kinds
  <2>8. ~StageArchive /\ ~StageManifest /\ ~StageChecksum
    BY <2>2 DEF StageArchive, StageManifest, StageChecksum, StageFile, Goes, Staging
  <2>9. CASE Fail \/ Crash
    <3>1. Interrupted \/ files' = Remove(files, request.dir, Partials(request))
      BY <2>9 DEF Fail, Crash
    <3> QED
      BY <1>1, <2>1, <2>2, <3>1, InterruptedSpares, RemovedSpares
  <2>10. CASE Boot \/ UNCHANGED vars \/ \E r \in Requests : Start(r)
    <3>1. ~Boot /\ ~(\E r \in Requests : Start(r))
      BY <1>4 DEF Boot, Start
    <3> QED
      BY <1>2, <2>10, <3>1 DEF vars
  <2> QED
    BY <2>4, <2>5, <2>6, <2>7, <2>8, <2>9, <2>10 DEF Next
<1>5. CASE Boot \/ UNCHANGED vars
  BY <1>2, <1>5 DEF Boot, vars
<1>6. CASE Next /\ ~Boot /\ ~(\E r \in Requests : Start(r))
  <2>1. pc # "idle" /\ Quiet
    BY <1>6 DEF Next, Extract, Replace, WriteManifest, WriteChecksum, StageArchive, StageManifest,
                StageChecksum, StageFile, Fail, Crash, Goes, Round
  <2> QED
    BY <1>4, <2>1
<1> QED
  BY <1>3, <1>5, <1>6

\* UnforcedInPlaceKeepsOffered: without --force, no step of a run that writes in
\* one directory, completed, failed or killed half-way, takes from the card a
\* pack that it offered, if names have no period.
THEOREM UnforcedKeeps ==
  ASSUME PlainNames
  PROVE  Spec => UnforcedInPlaceKeepsOffered
<1>1. IInv /\ JInv /\ IInv' /\ JInv' /\ [Next]_vars
        => [request' # NoRequest /\ ~request'.force /\ request'.dest \in {request'.dir, Nowhere} =>
              Offered(files[Card]) \subseteq Offered(files'[Card])]_vars
  <2> SUFFICES ASSUME IInv, JInv, IInv', JInv', [Next]_vars,
                      request' # NoRequest, ~request'.force, request'.dest \in {request'.dir, Nowhere}
               PROVE  Offered(files[Card]) \subseteq Offered(files'[Card])
    OBVIOUS
  <2>1. Spares(files')
    BY NextSpares
  <2>2. Filed(files) /\ AllRecorded(files) /\ Filed(files') /\ AllRecorded(files')
    BY DEF IInv, JInv
  <2> QED
    BY <2>1, <2>2, SparedIsOffered
<1> QED
  BY <1>1, Invariance, JInvariance, PTL DEF Spec, UnforcedInPlaceKeepsOffered
=============================================================================
