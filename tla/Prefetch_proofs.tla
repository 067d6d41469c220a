-------------------------- MODULE Prefetch_proofs --------------------------
(***************************************************************************)
(* Theorems about Prefetch, for any set of invocations, images and files   *)
(* and any number of runs.                                                 *)
(***************************************************************************)
EXTENDS Prefetch, TLAPS

\* A manifest vouches for no file with a checksum that is not complete.
Vouched(m) == \A f \in Hashed \ met : Vouches(m, f) => disk[f] = "whole"

\* So does every copy of it: on disk, half saved, in a process.
Checked ==
  /\ manifest # Torn => Vouched(manifest)
  /\ tmp \in Manifest => Vouched(tmp)
  /\ \A p \in Process : Vouched(run[p].mem)

\* Until two saves overlap, each one's file is its own.
Saves ==
  ~clash =>
    /\ manifest # Torn
    /\ \A p, q \in Process : Saving(p) /\ Saving(q) => p = q
    /\ \A p \in Process : run[p].at = "dump" => run[p].fd = "tmp"
    /\ \A p \in Process : run[p].at = "replace" => tmp = run[p].mem

\* What one manifest knows, the other does.
Covers(m, n) ==
  /\ \A i \in Image : m.images[i] # "absent" => n.images[i] # "absent"
  /\ \A f \in File : m.files[f].status # "absent" => n.files[f].status # "absent"

\* A process behind whose back nobody saved knows what the manifest does.
Fresh ==
  ~clash => \A p \in Process \ stale : run[p].at # "idle" => Covers(manifest, run[p].mem)

IInv == TypeOK /\ Checked /\ Saves /\ Fresh

-----------------------------------------------------------------------------
(* Types. *)

LEMMA NoManifestType == NoManifest \in Manifest
  BY DEF NoManifest, Manifest, ImageEntry, FileEntry

LEMMA NoRunType == NoRun \in Invocation
  BY NoManifestType DEF NoRun, Invocation, Place

LEMMA InitType == Init => TypeOK
<1> SUFFICES ASSUME Init PROVE TypeOK
  OBVIOUS
<1>1. disk \in [File -> Content] /\ docker \in SUBSET Image
  BY DEF Init, Content
<1>2. run \in [Process -> Invocation]
  BY NoRunType DEF Init
<1>3. started \in 0..MaxRuns
  BY PrefetchAssumption DEF Init
<1>4. manifest \in Manifest /\ tmp \in {NoTmp} /\ clash \in BOOLEAN
      /\ stale \in SUBSET Process /\ met \in SUBSET File
  BY NoManifestType DEF Init
<1> QED BY <1>1, <1>2, <1>3, <1>4 DEF TypeOK

\* Every way to start an invocation is a Load.
LEMMA LoadType ==
  ASSUME TypeOK, NEW p \in Process, NEW at \in {"images", "files", "push"},
         NEW images \in SUBSET Image, NEW files \in SUBSET File,
         NEW dry \in BOOLEAN, NEW skipFiles \in BOOLEAN,
         Load(p, at, images, files, dry, skipFiles)
  PROVE  TypeOK'
<1>1. manifest \in Manifest
  BY DEF TypeOK, Load
<1>2. [NoRun EXCEPT !.at = at, !.dry = dry, !.skipFiles = skipFiles,
         !.images = images, !.files = files, !.mem = manifest] \in Invocation
  BY <1>1, NoRunType DEF Invocation, Place
<1>3. run' \in [Process -> Invocation]
  BY <1>2 DEF TypeOK, Load
<1>4. started' \in 0..MaxRuns
  BY PrefetchAssumption DEF TypeOK, Load
<1> QED BY <1>3, <1>4 DEF TypeOK, Load, world, store

\* RecordFile takes an invocation to an invocation.
LEMMA RecordType ==
  ASSUME TypeOK, NEW p \in Process, NEW f \in File \cup {NoFile}, NEW ok \in BOOLEAN,
         NEW content, RecordFile(p, f, ok, content)
  PROVE  run' \in [Process -> Invocation]
<1>1. run[p] \in Invocation
  BY DEF TypeOK
<1>2. FileEntryOf(p, ok, content) \in FileEntry
  BY <1>1 DEF FileEntryOf, FileEntry, Invocation
<1>3. [run[p] EXCEPT !.at = "files", !.on = NoFile, !.files = @ \ {f},
         !.mem.files[f] = FileEntryOf(p, ok, content)] \in Invocation
  BY <1>1, <1>2 DEF Invocation, Place, Manifest
<1> QED BY <1>3 DEF TypeOK, RecordFile

\* So does what PullImage records.
LEMMA PulledType ==
  ASSUME NEW r \in Invocation, NEW i \in Image, NEW entry \in ImageEntry
  PROVE  [r EXCEPT !.images = @ \ {i}, !.mem.images[i] = entry] \in Invocation
<1>1. [r.mem EXCEPT !.images[i] = entry] \in Manifest
  BY DEF Invocation, Manifest
<1>2. r.images \ {i} \in SUBSET Image
  BY DEF Invocation
<1> QED BY <1>1, <1>2 DEF Invocation

LEMMA StepType == TypeOK /\ [Next]_vars => TypeOK'
<1> SUFFICES ASSUME TypeOK, [Next]_vars PROVE TypeOK'
  OBVIOUS
<1>t. /\ run \in [Process -> Invocation] /\ disk \in [File -> Content]
      /\ \A p \in Process : run[p] \in Invocation /\ run[p].mem \in Manifest
  BY DEF TypeOK, Invocation
<1>1. ASSUME NEW p \in Process, StartPull(p) \/ StartPush(p) PROVE TypeOK'
  BY <1>1, LoadType DEF StartPull, StartPush
<1>2. ASSUME NEW p \in Process, PullImage(p) PROVE TypeOK'
  <2>1. PICK i \in run[p].images, ok \in BOOLEAN :
          /\ docker' = IF ok /\ ~run[p].dry THEN docker \cup {i} ELSE docker
          /\ run' = [run EXCEPT ![p].images = @ \ {i},
                       ![p].mem.images[i] = IF ok THEN "pulled" ELSE "pull_failed"]
    BY <1>2 DEF PullImage
  <2>2. i \in Image
    BY <1>t, <2>1 DEF Invocation
  <2>3. [run[p] EXCEPT !.images = @ \ {i},
           !.mem.images[i] = IF ok THEN "pulled" ELSE "pull_failed"] \in Invocation
    <3> DEFINE entry == IF ok THEN "pulled" ELSE "pull_failed"
    <3>1. entry \in ImageEntry
      BY DEF ImageEntry
    <3> HIDE DEF entry
    <3>2. [run[p] EXCEPT !.images = @ \ {i}, !.mem.images[i] = entry] \in Invocation
      BY <1>t, <2>2, <3>1, PulledType
    <3> QED BY <3>2 DEF entry
  <2>4. run' \in [Process -> Invocation]
    BY <1>t, <2>1, <2>3
  <2>5. docker' \in SUBSET Image
    BY <2>1, <2>2 DEF TypeOK
  <2> QED BY <1>2, <2>4, <2>5 DEF TypeOK, PullImage, store
<1>3. ASSUME NEW p \in Process, ImagesDone(p) \/ FilesDone(p) \/ Push(p) PROVE TypeOK'
  <2>1. [run[p] EXCEPT !.at = "open"] \in Invocation
        /\ [run[p] EXCEPT !.at = "open", !.next = "idle"] \in Invocation
        /\ [run[p] EXCEPT !.at = "open", !.next = "files"] \in Invocation
    BY <1>t DEF Invocation, Place
  <2>2. run' \in [Process -> Invocation]
    BY <1>3, <1>t, <2>1 DEF ImagesDone, FilesDone, Push
  <2> QED BY <1>3, <2>2 DEF TypeOK, ImagesDone, FilesDone, Push, world, store
<1>4. ASSUME NEW p \in Process, SkipFile(p) PROVE TypeOK'
  <2>1. PICK f \in run[p].files, ok \in BOOLEAN : RecordFile(p, f, ok, disk[f])
    BY <1>4 DEF SkipFile
  <2>2. f \in File
    BY <1>t, <2>1 DEF Invocation
  <2>3. run' \in [Process -> Invocation]
    BY <2>1, <2>2, RecordType
  <2> QED BY <1>4, <2>3 DEF TypeOK, SkipFile, world, store
<1>5. ASSUME NEW p \in Process, BeginFetch(p) PROVE TypeOK'
  <2>1. PICK f \in run[p].files :
          /\ disk' = [disk EXCEPT ![f] = IF @ = "none" THEN "part" ELSE @]
          /\ run' = [run EXCEPT ![p].at = "fetch", ![p].on = f]
          /\ met' = IF \E q \in Process \ {p} : run[q].on = f THEN met \cup {f} ELSE met
    BY <1>5 DEF BeginFetch
  <2>2. f \in File
    BY <1>t, <2>1 DEF Invocation
  <2>3. [run[p] EXCEPT !.at = "fetch", !.on = f] \in Invocation
    BY <1>t, <2>2 DEF Invocation, Place
  <2>4. disk' \in [File -> Content] /\ met' \in SUBSET File
    BY <1>t, <2>1, <2>2 DEF TypeOK, Content
  <2>5. run' \in [Process -> Invocation]
    BY <1>t, <2>1, <2>3
  <2> QED BY <1>5, <2>4, <2>5 DEF TypeOK, BeginFetch, store
<1>6. ASSUME NEW p \in Process, EndFetch(p) PROVE TypeOK'
  <2>1. run[p].on \in File \cup {NoFile}
    BY <1>t DEF Invocation
  <2>2. PICK ok \in BOOLEAN : \E content : RecordFile(p, run[p].on, ok, content)
    BY <1>6 DEF EndFetch, Accepts
  <2>3. run' \in [Process -> Invocation]
    BY <2>1, <2>2, RecordType
  <2>4. disk' \in [File -> Content]
    <3>1. CASE UNCHANGED disk
      BY <3>1, <1>t
    <3>2. ASSUME NEW content \in Fetched(run[p].on),
                 disk' = [disk EXCEPT ![run[p].on] = content]
          PROVE  disk' \in [File -> Content]
      BY <3>2, <1>t, <2>1, PrefetchAssumption DEF Fetched, Content
    <3> QED BY <1>6, <3>1, <3>2 DEF EndFetch
  <2> QED BY <1>6, <2>3, <2>4 DEF TypeOK, EndFetch, store
<1>7. ASSUME NEW p \in Process, SaveOpen(p) PROVE TypeOK'
  <2>1. [run[p] EXCEPT !.at = "dump", !.fd = "tmp"] \in Invocation
    BY <1>t DEF Invocation, Place
  <2>2. run' \in [Process -> Invocation] /\ clash' \in BOOLEAN
    BY <1>7, <1>t, <2>1 DEF TypeOK, SaveOpen
  <2> QED BY <1>7, <2>2 DEF TypeOK, SaveOpen, world
<1>8. ASSUME NEW p \in Process, SaveDump(p) PROVE TypeOK'
  <2>1. [run[p] EXCEPT !.at = "replace", !.fd = "closed"] \in Invocation
    BY <1>t DEF Invocation, Place
  <2>2. run' \in [Process -> Invocation]
    BY <1>8, <1>t, <2>1 DEF SaveDump
  <2>3. tmp' \in Manifest \cup {Torn, NoTmp} /\ manifest' \in Manifest \cup {Torn}
    BY <1>8, <1>t DEF TypeOK, SaveDump
  <2> QED BY <1>8, <2>2, <2>3 DEF TypeOK, SaveDump, world
<1>9. ASSUME NEW p \in Process, SaveReplace(p) PROVE TypeOK'
  <2>1. \A q \in Process : [run[q] EXCEPT !.fd = Renamed(@)] \in Invocation
    BY <1>t DEF Invocation, Renamed
  <2>2. [run[p] EXCEPT !.at = "files"] \in Invocation
    BY <1>t DEF Invocation, Place
  <2>3. run' \in [Process -> Invocation]
    BY <1>9, <2>1, <2>2, NoRunType DEF SaveReplace
  <2>4. stale' \in SUBSET Process
    BY <1>9 DEF TypeOK, SaveReplace
  <2>5. manifest' \in Manifest \cup {Torn} /\ tmp' = NoTmp
    BY <1>9 DEF TypeOK, SaveReplace
  <2> QED BY <1>9, <2>3, <2>4, <2>5 DEF TypeOK, SaveReplace, world
<1>10. ASSUME NEW p \in Process, SaveRaises(p) \/ Kill(p) PROVE TypeOK'
  <2>1. run' \in [Process -> Invocation] /\ stale' \in SUBSET Process
    BY <1>10, <1>t, NoRunType DEF TypeOK, SaveRaises, Kill
  <2> QED BY <1>10, <2>1 DEF TypeOK, SaveRaises, Kill, world
<1>11. CASE ImportTar
  BY <1>11 DEF TypeOK, ImportTar, store
<1>12. CASE UNCHANGED vars
  BY <1>12 DEF TypeOK, vars, world, store
<1> QED BY <1>1, <1>2, <1>3, <1>4, <1>5, <1>6, <1>7, <1>8, <1>9, <1>10, <1>11, <1>12
        DEF Next, ProcessStep

-----------------------------------------------------------------------------
(* ChecksumIsKept. *)

LEMMA InitChecked == Init => Checked
<1>1. NoManifest \in Manifest /\ \A f \in File : NoManifest.files[f].status = "absent"
  BY NoManifestType DEF NoManifest
<1> QED BY <1>1, PrefetchAssumption DEF Init, Checked, Vouched, Vouches, NoRun

LEMMA MetGrows == ASSUME [Next]_vars PROVE met \subseteq met'
  BY DEF Next, ProcessStep, StartPull, StartPush, Load, PullImage, ImagesDone, SkipFile,
     BeginFetch, EndFetch, FilesDone, Push, SaveOpen, SaveDump, SaveReplace, SaveRaises,
     Kill, ImportTar, vars

\* A complete file with a checksum stays complete, unless two fetched it.
LEMMA CompleteStays ==
  ASSUME TypeOK, [Next]_vars, NEW f \in Hashed \ met', disk[f] = "whole"
  PROVE  disk'[f] = "whole"
<1>0. f \in File \ met
  BY PrefetchAssumption, MetGrows
<1>1. ASSUME NEW p \in Process, BeginFetch(p) PROVE disk'[f] = "whole"
  BY <1>0, <1>1 DEF BeginFetch, Cached, TypeOK
<1>2. ASSUME NEW p \in Process, EndFetch(p) PROVE disk'[f] = "whole"
  BY <1>0, <1>2 DEF EndFetch, Fetched, TypeOK
<1>3. ASSUME UNCHANGED disk PROVE disk'[f] = "whole"
  BY <1>3
<1> QED
  BY <1>1, <1>2, <1>3 DEF Next, ProcessStep, StartPull, StartPush, Load, PullImage,
     ImagesDone, SkipFile, FilesDone, Push, SaveOpen, SaveDump,
     SaveReplace, SaveRaises, Kill, ImportTar, vars, world

\* Vouched in the state after the step.
VouchedNext(m) == \A f \in Hashed \ met' : Vouches(m, f) => disk'[f] = "whole"

\* What is recorded of a file is vouched for if the verdict on it is right, or
\* the run is a dry one.
LEMMA RecordChecked ==
  ASSUME TypeOK, NEW p \in Process, NEW f, NEW ok \in BOOLEAN, NEW content,
         RecordFile(p, f, ok, content),
         \A q \in Process : VouchedNext(run[q].mem),
         f \in Hashed \ met' /\ ok /\ ~run[p].dry => disk'[f] = "whole"
  PROVE  \A q \in Process : VouchedNext(run'[q].mem)
<1> SUFFICES ASSUME NEW q \in Process, NEW g \in Hashed \ met',
                    Vouches(run'[q].mem, g)
             PROVE  disk'[g] = "whole"
  BY DEF VouchedNext
<1>1. /\ run[p] \in Invocation /\ run[p].mem \in Manifest /\ g \in File
      /\ run \in [Process -> Invocation]
  BY PrefetchAssumption DEF TypeOK, Invocation
<1>2. CASE q # p \/ g # f
  <2>1. run'[q].mem.files[g] = run[q].mem.files[g]
    BY <1>1, <1>2 DEF RecordFile, Invocation, Manifest
  <2> QED BY <2>1 DEF VouchedNext, Vouches
<1>3. CASE q = p /\ g = f
  <2>1. run'[q].mem.files[g] = FileEntryOf(p, ok, content)
    BY <1>1, <1>3 DEF RecordFile, Invocation, Manifest
  <2>2. ok /\ ~run[p].dry
    <3>1. FileEntryOf(p, ok, content).status = "downloaded"
      BY <2>1 DEF Vouches
    <3>2. FileEntryOf(p, ok, content).sized
      BY <2>1 DEF Vouches
    <3>3. "failed" # "downloaded"
      OBVIOUS
    <3>4. ok
      BY <3>1, <3>3 DEF FileEntryOf
    <3>5. ~run[p].dry
      BY <3>2 DEF FileEntryOf
    <3> QED BY <3>4, <3>5
  <2> QED BY <1>3, <2>2
<1> QED BY <1>2, <1>3

LEMMA StepChecked == TypeOK /\ Checked /\ [Next]_vars => Checked'
<1> SUFFICES ASSUME TypeOK, Checked, [Next]_vars PROVE Checked'
  OBVIOUS
<1>t. /\ run \in [Process -> Invocation]
      /\ \A p \in Process : run[p] \in Invocation /\ run[p].mem \in Manifest
      /\ Hashed \subseteq File /\ Torn \notin Manifest /\ NoTmp \notin Manifest
  BY PrefetchAssumption DEF TypeOK, Invocation
<1>v. \A m : Vouched(m) => VouchedNext(m)
  BY CompleteStays, MetGrows DEF Vouched, VouchedNext
<1>o. \A p \in Process : VouchedNext(run[p].mem)
  BY <1>v DEF Checked
<1>n. VouchedNext(NoManifest)
  BY <1>t DEF VouchedNext, Vouches, NoManifest
<1>m. \A p \in Process : VouchedNext(run'[p].mem)
  <2>1. ASSUME NEW p \in Process, NEW at, NEW images, NEW files, NEW dry, NEW skipFiles,
               Load(p, at, images, files, dry, skipFiles)
        PROVE  \A q \in Process : VouchedNext(run'[q].mem)
    <3>1. VouchedNext(manifest)
      BY <2>1, <1>v DEF Checked, Load
    <3>2. \A q \in Process : run'[q].mem \in {run[q].mem, manifest}
      BY <2>1, <1>t DEF Load, NoRun
    <3> QED BY <1>o, <3>1, <3>2
  <2>2. ASSUME NEW p \in Process, StartPull(p) \/ StartPush(p)
        PROVE  \A q \in Process : VouchedNext(run'[q].mem)
    BY <2>1, <2>2 DEF StartPull, StartPush
  <2>3. ASSUME NEW p \in Process, PullImage(p)
        PROVE  \A q \in Process : VouchedNext(run'[q].mem)
    <3>1. \A q \in Process : run'[q].mem.files = run[q].mem.files
      BY <2>3, <1>t DEF PullImage, Invocation, Manifest
    <3> QED BY <1>o, <3>1 DEF VouchedNext, Vouches
  <2>4. ASSUME NEW p \in Process, SkipFile(p)
        PROVE  \A q \in Process : VouchedNext(run'[q].mem)
    <3>1. PICK f \in run[p].files, ok \in BOOLEAN :
            (ok => Cached(f) \/ run[p].dry) /\ RecordFile(p, f, ok, disk[f])
      BY <2>4 DEF SkipFile
    <3>2. f \in Hashed /\ ok /\ ~run[p].dry => disk'[f] = "whole"
      BY <2>4, <3>1 DEF Cached, SkipFile, world
    <3> QED BY <1>o, <3>1, <3>2, RecordChecked
  <2>5. ASSUME NEW p \in Process, EndFetch(p)
        PROVE  \A q \in Process : VouchedNext(run'[q].mem)
    <3> DEFINE f == run[p].on
    <3>1. CASE RecordFile(p, f, FALSE, disk[f])
      BY <1>o, <3>1, RecordChecked
    <3>2. ASSUME NEW content \in Fetched(f), disk' = [disk EXCEPT ![f] = content],
                 RecordFile(p, f, Accepts(f, content), content)
          PROVE  \A q \in Process : VouchedNext(run'[q].mem)
      <4>1. f \in Hashed /\ Accepts(f, content) => disk'[f] = "whole"
        BY <3>2, <1>t DEF Accepts, TypeOK
      <4>2. Accepts(f, content) \in BOOLEAN
        BY DEF Accepts
      <4> QED BY <1>o, <3>2, <4>1, <4>2, RecordChecked
    <3> QED BY <2>5, <3>1, <3>2 DEF EndFetch
  <2>6. ASSUME NEW p \in Process,
               ImagesDone(p) \/ BeginFetch(p) \/ FilesDone(p) \/ Push(p) \/ SaveOpen(p)
               \/ SaveDump(p)
        PROVE  \A q \in Process : VouchedNext(run'[q].mem)
    <3>1. \A q \in Process : run'[q].mem = run[q].mem
      <4>1. CASE ImagesDone(p) \/ FilesDone(p) \/ Push(p)
        BY <4>1, <1>t DEF ImagesDone, FilesDone, Push, Invocation
      <4>2. CASE BeginFetch(p)
        BY <4>2, <1>t DEF BeginFetch, Invocation
      <4>3. CASE SaveOpen(p)
        BY <4>3, <1>t DEF SaveOpen, Invocation
      <4>4. CASE SaveDump(p)
        BY <4>4, <1>t DEF SaveDump, Invocation
      <4> QED BY <2>6, <4>1, <4>2, <4>3, <4>4
    <3> QED BY <1>o, <3>1
  <2>7. ASSUME NEW p \in Process, SaveReplace(p) \/ SaveRaises(p) \/ Kill(p)
        PROVE  \A q \in Process : VouchedNext(run'[q].mem)
    <3>1. \A q \in Process : run'[q].mem \in {run[q].mem, NoManifest}
      BY <2>7, <1>t DEF SaveReplace, SaveRaises, Kill, NoRun, Invocation
    <3> QED BY <1>o, <1>n, <3>1
  <2>8. CASE ImportTar \/ UNCHANGED vars
    BY <1>o, <2>8 DEF ImportTar, vars
  <2> QED BY <2>2, <2>3, <2>4, <2>5, <2>6, <2>7, <2>8 DEF Next, ProcessStep
<1>s. /\ manifest' # Torn => VouchedNext(manifest')
      /\ tmp' \in Manifest => VouchedNext(tmp')
  <2>1. CASE UNCHANGED <<manifest, tmp>>
    BY <1>v, <2>1 DEF Checked
  <2>2. CASE \E p \in Process : SaveOpen(p)
    BY <1>t, <1>v, <2>2 DEF Checked, SaveOpen
  <2>3. ASSUME NEW p \in Process, SaveDump(p)
        PROVE  /\ manifest' # Torn => VouchedNext(manifest')
               /\ tmp' \in Manifest => VouchedNext(tmp')
    <3>1. manifest' \in {manifest, run[p].mem, Torn} /\ tmp' \in {tmp, run[p].mem, Torn}
      BY <2>3 DEF SaveDump
    <3> QED BY <1>t, <1>v, <1>o, <3>1 DEF Checked
  <2>4. ASSUME NEW p \in Process, SaveReplace(p)
        PROVE  /\ manifest' # Torn => VouchedNext(manifest')
               /\ tmp' \in Manifest => VouchedNext(tmp')
    <3>1. manifest' = tmp /\ tmp' = NoTmp /\ tmp # NoTmp
      BY <2>4 DEF SaveReplace
    <3>2. tmp \in Manifest \cup {Torn}
      BY <3>1 DEF TypeOK
    <3> QED BY <1>t, <1>v, <3>1, <3>2 DEF Checked
  <2> QED
    BY <2>1, <2>2, <2>3, <2>4 DEF Next, ProcessStep, StartPull, StartPush, Load, PullImage,
       ImagesDone, SkipFile, BeginFetch, EndFetch, FilesDone, Push, SaveRaises, Kill,
       ImportTar, vars, store
<1> QED BY <1>m, <1>s DEF Checked, Vouched, VouchedNext

-----------------------------------------------------------------------------
(* SaveIsAtomic and EntriesSurvive. *)

LEMMA InitSaves == Init => Saves /\ Fresh
<1>1. NoManifest # Torn
  BY NoManifestType, PrefetchAssumption
<1> QED BY <1>1 DEF Init, Saves, Fresh, Saving, NoRun

\* Outside save_manifest a step leaves the two files alone and its process not
\* inside (<1>1); inside, the process is the only one unless saves clash.
LEMMA StepSaves == TypeOK /\ Saves /\ [Next]_vars => Saves'
<1> SUFFICES ASSUME TypeOK, Saves, [Next]_vars, ~clash' PROVE Saves'
  BY DEF Saves
<1>t. /\ run \in [Process -> Invocation]
      /\ \A p \in Process : run[p] \in Invocation /\ run[p].mem \in Manifest
      /\ Torn \notin Manifest
  BY PrefetchAssumption DEF TypeOK, Invocation
<1>0. ~clash
  BY DEF Next, ProcessStep, StartPull, StartPush, Load, PullImage, ImagesDone, SkipFile,
     BeginFetch, EndFetch, FilesDone, Push, SaveOpen, SaveDump, SaveReplace, SaveRaises,
     Kill, ImportTar, vars, store
<1>i. /\ manifest # Torn
      /\ \A p, q \in Process : Saving(p) /\ Saving(q) => p = q
      /\ \A p \in Process : run[p].at = "dump" => run[p].fd = "tmp"
      /\ \A p \in Process : run[p].at = "replace" => tmp = run[p].mem
  BY <1>0 DEF Saves
<1>1. ASSUME NEW p \in Process, UNCHANGED <<manifest, tmp>>,
             \A q \in Process \ {p} : run'[q] = run[q],
             run'[p].at \notin {"dump", "replace"}
      PROVE  Saves'
  BY <1>1, <1>i DEF Saves, Saving
<1>2. ASSUME NEW p \in Process, NEW at \in {"images", "files", "push"},
             NEW images, NEW files, NEW dry, NEW skipFiles,
             Load(p, at, images, files, dry, skipFiles)
      PROVE  Saves'
  BY <1>1, <1>2, <1>t DEF Load, store, NoRun
<1>3. ASSUME NEW p \in Process, StartPull(p) \/ StartPush(p) PROVE Saves'
  BY <1>2, <1>3 DEF StartPull, StartPush
<1>4. ASSUME NEW p \in Process, PullImage(p) PROVE Saves'
  BY <1>1, <1>4, <1>t DEF PullImage, store, Invocation
<1>5. ASSUME NEW p \in Process, ImagesDone(p) \/ FilesDone(p) \/ Push(p) PROVE Saves'
  BY <1>1, <1>5, <1>t DEF ImagesDone, FilesDone, Push, store, Invocation
<1>6. ASSUME NEW p \in Process, SkipFile(p) \/ EndFetch(p) PROVE Saves'
  <2>1. /\ \A q \in Process \ {p} : run'[q] = run[q]
        /\ run'[p].at = "files"
    <3>1. PICK f, ok, content : RecordFile(p, f, ok, content)
      BY <1>6 DEF SkipFile, EndFetch
    <3> QED BY <3>1, <1>t DEF RecordFile, Invocation
  <2> QED BY <1>1, <1>6, <2>1 DEF SkipFile, EndFetch, store
<1>7. ASSUME NEW p \in Process, BeginFetch(p) PROVE Saves'
  BY <1>1, <1>7, <1>t DEF BeginFetch, store, Invocation
<1>8. ASSUME NEW p \in Process, SaveOpen(p) PROVE Saves'
  <2>1. \A q \in Process \ {p} : ~Saving(q) /\ run'[q] = run[q]
    BY <1>8, <1>t DEF SaveOpen
  <2>2. run'[p].at = "dump" /\ run'[p].fd = "tmp"
    BY <1>8, <1>t DEF SaveOpen, Invocation
  <2> QED BY <1>8, <1>i, <2>1, <2>2 DEF Saves, Saving, SaveOpen
<1>9. ASSUME NEW p \in Process, SaveDump(p) PROVE Saves'
  <2>1. \A q \in Process \ {p} : ~Saving(q) /\ run'[q] = run[q]
    BY <1>9, <1>t, <1>i DEF SaveDump, Saving
  <2>2. run'[p].at = "replace" /\ run'[p].mem = run[p].mem
    BY <1>9, <1>t DEF SaveDump, Invocation
  <2>3. tmp' = run[p].mem /\ manifest' = manifest
    BY <1>9, <1>i, <1>0 DEF SaveDump
  <2> QED BY <1>i, <2>1, <2>2, <2>3 DEF Saves, Saving
<1>10. ASSUME NEW p \in Process, SaveReplace(p) PROVE Saves'
  <2>1. \A q \in Process \ {p} : ~Saving(q) /\ run'[q].at = run[q].at
    BY <1>10, <1>t, <1>i DEF SaveReplace, Saving, Invocation
  <2>2. run'[p].at \notin {"dump", "replace"}
    BY <1>10, <1>t DEF SaveReplace, NoRun, Invocation
  <2>3. manifest' # Torn
    BY <1>10, <1>t, <1>i DEF SaveReplace
  <2> QED BY <2>1, <2>2, <2>3 DEF Saves, Saving
<1>11. ASSUME NEW p \in Process, SaveRaises(p) \/ Kill(p) PROVE Saves'
  BY <1>1, <1>11, <1>t DEF SaveRaises, Kill, NoRun
<1>12. CASE ImportTar \/ UNCHANGED vars
  BY <1>12, <1>i DEF ImportTar, vars, store, Saves, Saving
<1> QED BY <1>3, <1>4, <1>5, <1>6, <1>7, <1>8, <1>9, <1>10, <1>11, <1>12
        DEF Next, ProcessStep

\* A process forgets nothing that it knows of.
LEMMA KeepsKnowing ==
  ASSUME TypeOK, NEW p \in Process, NEW m \in Manifest, Covers(m, run[p].mem),
         PullImage(p) \/ SkipFile(p) \/ EndFetch(p)
  PROVE  Covers(m, run'[p].mem)
<1>t. run \in [Process -> Invocation] /\ run[p] \in Invocation /\ run[p].mem \in Manifest
  BY DEF TypeOK, Invocation
<1>1. CASE PullImage(p)
  <2>1. PICK i \in run[p].images, ok \in BOOLEAN :
          run' = [run EXCEPT ![p].images = @ \ {i},
                    ![p].mem.images[i] = IF ok THEN "pulled" ELSE "pull_failed"]
    BY <1>1 DEF PullImage
  <2>2. run'[p].mem.files = run[p].mem.files
    BY <2>1, <1>t DEF Invocation, Manifest
  <2>3. ASSUME NEW j \in Image
        PROVE  run'[p].mem.images[j] \in {run[p].mem.images[j], "pulled", "pull_failed"}
    BY <2>1, <1>t DEF Invocation, Manifest
  <2> QED BY <2>2, <2>3 DEF Covers
<1>2. ASSUME NEW f, NEW ok \in BOOLEAN, NEW content, RecordFile(p, f, ok, content)
      PROVE  Covers(m, run'[p].mem)
  <2>1. FileEntryOf(p, ok, content).status # "absent"
    BY DEF FileEntryOf
  <2> QED BY <1>2, <1>t, <2>1 DEF RecordFile, Covers, Invocation, Manifest
<1>3. CASE SkipFile(p)
  BY <1>2, <1>3 DEF SkipFile
<1>4. CASE EndFetch(p)
  BY <1>2, <1>4 DEF EndFetch, Accepts
<1> QED BY <1>1, <1>3, <1>4

LEMMA StepFresh == TypeOK /\ Saves /\ Fresh /\ [Next]_vars => Fresh'
<1> SUFFICES ASSUME TypeOK, Saves, Fresh, [Next]_vars, ~clash' PROVE Fresh'
  BY DEF Fresh
<1>t. /\ run \in [Process -> Invocation] /\ stale \in SUBSET Process
      /\ \A p \in Process : run[p] \in Invocation /\ run[p].mem \in Manifest
  BY DEF TypeOK, Invocation
<1>0. ~clash
  BY DEF Next, ProcessStep, StartPull, StartPush, Load, PullImage, ImagesDone, SkipFile,
     BeginFetch, EndFetch, FilesDone, Push, SaveOpen, SaveDump, SaveReplace, SaveRaises,
     Kill, ImportTar, vars, store
<1>i. /\ manifest \in Manifest
      /\ \A p \in Process \ stale : run[p].at # "idle" => Covers(manifest, run[p].mem)
  BY <1>0 DEF Saves, Fresh, TypeOK
<1>1. ASSUME NEW p \in Process, manifest' = manifest, stale \ {p} \subseteq stale',
             \A q \in Process \ {p} : run'[q] = run[q],
             p \notin stale' /\ run'[p].at # "idle" => Covers(manifest, run'[p].mem)
      PROVE  Fresh'
  BY <1>1, <1>i DEF Fresh, Covers
<1>2. ASSUME NEW p \in Process, NEW at, NEW images, NEW files, NEW dry, NEW skipFiles,
             Load(p, at, images, files, dry, skipFiles)
      PROVE  Fresh'
  <2>1. run'[p].mem = manifest
    BY <1>2, <1>t DEF Load, NoRun
  <2>2. Covers(manifest, manifest)
    BY DEF Covers
  <2>3. \A q \in Process \ {p} : run'[q] = run[q]
    BY <1>2, <1>t DEF Load
  <2> QED BY <1>1, <1>2, <2>1, <2>2, <2>3 DEF Load, store
<1>3. ASSUME NEW p \in Process, StartPull(p) \/ StartPush(p) PROVE Fresh'
  BY <1>2, <1>3 DEF StartPull, StartPush
<1>4. ASSUME NEW p \in Process, PullImage(p) \/ SkipFile(p) \/ EndFetch(p) PROVE Fresh'
  <2>1. /\ \A q \in Process \ {p} : run'[q] = run[q]
        /\ manifest' = manifest /\ stale' = stale
        /\ run[p].at # "idle"
    BY <1>4, <1>t DEF PullImage, SkipFile, EndFetch, RecordFile, store
  <2>2. p \notin stale => Covers(manifest, run'[p].mem)
    BY <1>4, <1>i, <2>1, KeepsKnowing
  <2> QED BY <1>1, <2>1, <2>2
<1>5. ASSUME NEW p \in Process, UNCHANGED <<manifest, stale>>,
             \A q \in Process \ {p} : run'[q] = run[q],
             run[p].at # "idle", run'[p].mem = run[p].mem
      PROVE  Fresh'
  BY <1>1, <1>5, <1>i, <1>t
<1>6. ASSUME NEW p \in Process, ImagesDone(p) \/ FilesDone(p) \/ Push(p) PROVE Fresh'
  BY <1>5, <1>6, <1>t DEF ImagesDone, FilesDone, Push, store, Invocation
<1>7. ASSUME NEW p \in Process, BeginFetch(p) PROVE Fresh'
  BY <1>5, <1>7, <1>t DEF BeginFetch, store, Invocation
<1>8. ASSUME NEW p \in Process, SaveOpen(p) PROVE Fresh'
  BY <1>5, <1>8, <1>t DEF SaveOpen, Invocation
<1>9. ASSUME NEW p \in Process, SaveDump(p) PROVE Fresh'
  <2>1. manifest' = manifest
    BY <1>9, <1>0 DEF SaveDump, Saves
  <2> QED BY <1>5, <1>9, <1>t, <2>1 DEF SaveDump, Invocation
<1>10. ASSUME NEW p \in Process, SaveReplace(p) PROVE Fresh'
  <2>1. manifest' = run[p].mem
    BY <1>10, <1>0 DEF SaveReplace, Saves
  <2>2. \A q \in Process \ {p} : q \in stale' \/ run'[q].at = "idle"
    BY <1>10, <1>t DEF SaveReplace, Invocation
  <2>3. run'[p].at = "idle" \/ run'[p].mem = run[p].mem
    BY <1>10, <1>t DEF SaveReplace, NoRun, Invocation
  <2> QED BY <2>1, <2>2, <2>3 DEF Fresh, Covers
<1>11. ASSUME NEW p \in Process, SaveRaises(p) \/ Kill(p) PROVE Fresh'
  <2>1. /\ \A q \in Process \ {p} : run'[q] = run[q]
        /\ run'[p].at = "idle" /\ manifest' = manifest /\ stale' = stale \ {p}
    BY <1>11, <1>t DEF SaveRaises, Kill, NoRun
  <2> QED BY <1>1, <2>1
<1>12. CASE ImportTar \/ UNCHANGED vars
  BY <1>12, <1>i DEF ImportTar, vars, store, Fresh, Covers
<1> QED BY <1>3, <1>4, <1>6, <1>7, <1>8, <1>9, <1>10, <1>11, <1>12 DEF Next, ProcessStep

\* Only the save itself changes the manifest, to what the saving process knows.
LEMMA SaveKeepsEntries ==
  ASSUME IInv, [Next]_vars, NEW p \in Process \ stale,
         run[p].at = "replace", run'[p].at # "replace",
         manifest' # manifest, ~clash, manifest' # Torn
  PROVE  KnownImages \subseteq KnownImages' /\ KnownFiles \subseteq KnownFiles'
<1>1. PICK q \in Process : SaveDump(q) \/ SaveReplace(q)
  BY DEF Next, ProcessStep, StartPull, StartPush, Load, PullImage, ImagesDone, SkipFile,
     BeginFetch, EndFetch, FilesDone, Push, SaveOpen, SaveRaises, Kill, ImportTar, vars, store
<1>2. SaveReplace(q)
  BY <1>1 DEF SaveDump, IInv, Saves
<1>3. manifest' = run[p].mem
  BY <1>2 DEF SaveReplace, IInv, Saves, Saving
<1>4. Covers(manifest, run[p].mem) /\ manifest # Torn
  BY DEF IInv, Fresh, Saves
<1> QED BY <1>3, <1>4 DEF KnownImages, KnownFiles, Covers

-----------------------------------------------------------------------------
(* Theorems. *)

\* The inductive invariant: types, what each copy of the manifest vouches for,
\* whose the file of a save is, and what each process knows.
THEOREM PrefetchInvariance == Spec => []IInv
<1>1. Init => IInv
  BY InitType, InitChecked, InitSaves DEF IInv
<1>2. IInv /\ [Next]_vars => IInv'
  BY StepType, StepChecked, StepSaves, StepFresh DEF IInv
<1> QED BY <1>1, <1>2, PTL DEF Spec

\* Every variable of Prefetch keeps to its type.
THEOREM PrefetchTypeCorrect == Spec => []TypeOK
<1>1. IInv => TypeOK
  BY DEF IInv
<1> QED BY <1>1, PrefetchInvariance, PTL

\* prefetch_assets.py:335-341, 367-373: a file with a checksum that a real run
\* recorded as downloaded is complete, through kills, resumes and runs in any
\* order, unless two of them were fetching it together.
THEOREM ChecksumSafe == Spec => []ChecksumIsKept
<1>1. IInv => ChecksumIsKept
  BY DEF IInv, Checked, Vouched, ChecksumIsKept
<1> QED BY <1>1, PrefetchInvariance, PTL

\* prefetch_assets.py:149: however many processes there are and wherever they
\* are killed, the manifest can be loaded until two of them save together.
THEOREM ManifestLoads == Spec => []SaveIsAtomic
<1>1. IInv => SaveIsAtomic
  BY DEF IInv, Saves, SaveIsAtomic, TypeOK
<1> QED BY <1>1, PrefetchInvariance, PTL

\* A save loses no entry but those saved behind the back of its process.
THEOREM EntriesKept == Spec => EntriesSurvive
<1>1. IInv /\ [Next]_vars =>
        [\A p \in Process \ stale :
           /\ run[p].at = "replace" /\ run'[p].at # "replace"
           /\ manifest' # manifest /\ ~clash /\ manifest' # Torn
           => KnownImages \subseteq KnownImages' /\ KnownFiles \subseteq KnownFiles']_vars
  BY SaveKeepsEntries
<1> QED BY <1>1, PrefetchInvariance, PTL DEF Spec, EntriesSurvive

-----------------------------------------------------------------------------
(* Dry runs. *)

\* A dry run fetches nothing.
FetchIsReal == \A p \in Process : run[p].at = "fetch" => ~run[p].dry

\* What a step does to one invocation: a dry one goes on as a dry one, or ends.
LEMMA StepFetch ==
  ASSUME TypeOK, FetchIsReal, NEW p \in Process, ProcessStep(p)
  PROVE  FetchIsReal'
<1>t. run \in [Process -> Invocation] /\ run[p] \in Invocation
  BY DEF TypeOK
<1>r. NoRun.at = "idle"
  BY DEF NoRun
<1> SUFFICES run' \in [Process -> Invocation]
             /\ (run'[p].at = "fetch" => ~run'[p].dry)
             /\ \A q \in Process \ {p} : run'[q].at = run[q].at /\ run'[q].dry = run[q].dry
  BY DEF FetchIsReal
<1>1. run' \in [Process -> Invocation]
  BY StepType DEF Next, TypeOK
<1>2. run'[p].at = "fetch" => ~run'[p].dry
  <2>1. CASE StartPull(p) \/ StartPush(p)
    <3>1. ASSUME NEW at \in {"images", "files", "push"}, NEW images, NEW files, NEW dry,
                 NEW skipFiles, Load(p, at, images, files, dry, skipFiles)
          PROVE  run'[p].at # "fetch"
      <4>1. run'[p] = [NoRun EXCEPT !.at = at, !.dry = dry, !.skipFiles = skipFiles,
                         !.images = images, !.files = files, !.mem = manifest]
        BY <1>t, <3>1 DEF Load
      <4> QED BY <4>1 DEF NoRun
    <3> QED BY <2>1, <3>1 DEF StartPull, StartPush
  <2>2. CASE PullImage(p)
    BY <1>t, <2>2 DEF PullImage, Invocation
  <2>3. CASE ImagesDone(p) \/ FilesDone(p) \/ Push(p) \/ SaveOpen(p) \/ SaveDump(p)
    BY <1>t, <2>3 DEF ImagesDone, FilesDone, Push, SaveOpen, SaveDump, Invocation
  <2>4. CASE SkipFile(p)
    BY <1>t, <2>4 DEF SkipFile, RecordFile, Invocation
  <2>5. CASE BeginFetch(p)
    BY <1>t, <2>5 DEF BeginFetch, Invocation
  <2>6. CASE EndFetch(p)
    <3>1. PICK ok, content : RecordFile(p, run[p].on, ok, content)
      BY <2>6 DEF EndFetch
    <3>2. run'[p].at = "files"
      BY <1>t, <3>1 DEF RecordFile, Invocation
    <3> QED BY <3>2
  <2>7. CASE SaveReplace(p)
    BY <1>t, <1>r, <2>7 DEF SaveReplace, Invocation
  <2>8. CASE SaveRaises(p) \/ Kill(p)
    BY <1>t, <1>r, <2>8 DEF SaveRaises, Kill
  <2> QED BY <2>1, <2>2, <2>3, <2>4, <2>5, <2>6, <2>7, <2>8 DEF ProcessStep
<1>3. ASSUME NEW q \in Process \ {p}
      PROVE  run'[q].at = run[q].at /\ run'[q].dry = run[q].dry
  <2>1. CASE SaveReplace(p)
    BY <1>t, <2>1 DEF SaveReplace, Invocation
  <2>2. CASE ~SaveReplace(p)
    BY <1>t, <2>2 DEF ProcessStep, StartPull, StartPush, Load, PullImage, ImagesDone, FilesDone,
       Push, SaveOpen, SaveDump, SkipFile, RecordFile, BeginFetch, EndFetch, SaveRaises, Kill
  <2> QED BY <2>1, <2>2
<1> QED BY <1>1, <1>2, <1>3

\* An invocation with --dry-run changes neither files nor images.
THEOREM DryRunsPrint == Spec => DryRunOnlyPrints
<1>1. Init => FetchIsReal
  BY DEF Init, FetchIsReal, NoRun
<1>2. TypeOK /\ FetchIsReal /\ [Next]_vars => FetchIsReal'
  BY StepFetch DEF Next, ImportTar, vars, FetchIsReal
<1>3. TypeOK /\ FetchIsReal /\ [Next]_vars
        => [\A p \in Process : run[p].dry /\ run'[p] # run[p] => UNCHANGED world]_vars
  <2> SUFFICES ASSUME TypeOK, FetchIsReal, Next, NEW p \in Process, run[p].dry, run'[p] # run[p]
               PROVE  UNCHANGED world
    OBVIOUS
  <2>1. CASE ImportTar
    BY <2>1 DEF ImportTar
  <2>2. ASSUME NEW q \in Process, ProcessStep(q)
        PROVE  UNCHANGED world
    <3>1. CASE q = p
      BY <2>2, <3>1 DEF ProcessStep, StartPull, StartPush, Load, PullImage, ImagesDone, FilesDone,
         Push, SaveOpen, SaveDump, SaveReplace, SaveRaises, Kill, SkipFile, BeginFetch, EndFetch,
         FetchIsReal, world
    <3>2. CASE q # p /\ (PullImage(q) \/ BeginFetch(q) \/ EndFetch(q))
      BY <3>2 DEF PullImage, BeginFetch, EndFetch, RecordFile, TypeOK
    <3>3. CASE ~(PullImage(q) \/ BeginFetch(q) \/ EndFetch(q))
      BY <2>2, <3>3 DEF ProcessStep, StartPull, StartPush, Load, ImagesDone, FilesDone,
         Push, SaveOpen, SaveDump, SaveReplace, SaveRaises, Kill, SkipFile, world
    <3> QED BY <3>1, <3>2, <3>3
  <2> QED BY <2>1, <2>2 DEF Next
<1> QED BY <1>1, <1>2, <1>3, PrefetchTypeCorrect, PTL DEF Spec, DryRunOnlyPrints
=============================================================================
