------------------------------ MODULE Prefetch ------------------------------
(***************************************************************************)
(* scripts/prefetch_assets.py: the asset cache, its manifest and the local *)
(* registry, under several invocations that may overlap, fail or be killed.*)
(*                                                                         *)
(* An invocation is a process: it loads the manifest, works asset by asset *)
(* and saves the whole manifest after each stage.  A process that is       *)
(* killed leaves the disk as it is.                                        *)
(***************************************************************************)
EXTENDS Naturals, FiniteSets

CONSTANTS
  Process,   \* invocations of the script that may be alive together
  Image,     \* the docker images of configs/assets.yaml
  File,      \* its large files
  Hashed,    \* the files that have a sha256 there
  NoFile,    \* the file of a process that is fetching none
  Torn,      \* what a file holds that was truncated and not coherently written
  NoTmp,     \* manifest.tmp does not exist
  MaxRuns    \* bound: how many invocations are started in all

Content == {"none", "part", "wrong", "whole"}
\* The entry of a dry run has the status of a success.  A file's is told from
\* a real one by its size_bytes, 0; an image's image_id is left out.
ImageEntry == {"absent", "pulled", "pull_failed"}
FileEntry == [status : {"absent", "downloaded", "failed"}, sized : BOOLEAN]
Manifest == [images : [Image -> ImageEntry], files : [File -> FileEntry]]

ASSUME PrefetchAssumption ==
  /\ Hashed \subseteq File
  /\ NoFile \notin File
  /\ Torn \notin Manifest /\ NoTmp \notin Manifest /\ Torn # NoTmp
  /\ MaxRuns \in Nat

VARIABLES
  disk,      \* per file: what is at its destination
  docker,    \* images present on this host
  manifest,  \* assets/manifest.json
  tmp,       \* assets/manifest.tmp, the file save_manifest renames
  run,       \* per process: the invocation it executes
  started,   \* invocations started so far
  stale,     \* history: processes behind whose back the manifest was saved
  clash,     \* history: two processes were inside save_manifest together
  met        \* history: files that two processes fetched together

world == <<disk, docker>>
store == <<manifest, tmp, clash, stale>>
vars == <<world, store, run, started, met>>

NoManifest == [images |-> [i \in Image |-> "absent"],
               files |-> [f \in File |-> [status |-> "absent", sized |-> FALSE]]]

Place == {"idle", "images", "files", "fetch", "push", "open", "dump", "replace"}

\* An invocation: where it is, its copy of the manifest, the assets it still
\* has to go through, and the file of its save_manifest (a rename by another
\* process moves that file under it).
Invocation ==
  [at : Place, next : {"idle", "files"}, dry : BOOLEAN, skipFiles : BOOLEAN,
   images : SUBSET Image, files : SUBSET File, on : File \cup {NoFile},
   mem : Manifest, fd : {"closed", "tmp", "manifest", "unlinked"}]

NoRun == [at |-> "idle", next |-> "idle", dry |-> FALSE, skipFiles |-> FALSE,
          images |-> {}, files |-> {}, on |-> NoFile, mem |-> NoManifest,
          fd |-> "closed"]

Init ==
  /\ disk = [f \in File |-> "none"]
  /\ docker = {}
  /\ manifest = NoManifest /\ tmp = NoTmp
  /\ run = [p \in Process |-> NoRun]
  /\ started = 0 /\ stale = {} /\ clash = FALSE /\ met = {}

Saving(p) == run[p].at \in {"dump", "replace"}

-----------------------------------------------------------------------------
\* Load with a bug: starts from an empty manifest.
LoadAfresh(p, at, images, files, dry, skipFiles) ==
  /\ run[p].at = "idle" /\ started < MaxRuns /\ manifest # Torn
  /\ run' = [run EXCEPT ![p] = [NoRun EXCEPT
               !.at = at, !.dry = dry, !.skipFiles = skipFiles,
               !.images = images, !.files = files]]
  /\ started' = started + 1
  /\ UNCHANGED <<world, store, met>>

(* main: the manifest is loaded once, before anything else.  A torn one    *)
(* raises in json.load, so nothing starts.                                 *)
Load(p, at, images, files, dry, skipFiles) ==
  /\ run[p].at = "idle" /\ started < MaxRuns /\ manifest # Torn
  /\ run' = [run EXCEPT ![p] = [NoRun EXCEPT
               !.at = at, !.dry = dry, !.skipFiles = skipFiles,
               !.images = images, !.files = files, !.mem = manifest]]
  /\ started' = started + 1
  /\ UNCHANGED <<world, store, met>>

\* --benchmarks, --include-optional, --skip-images and --skip-files choose
\* which assets an invocation goes through.
StartPull(p) ==
  \E images \in SUBSET Image, files \in SUBSET File, dry \in BOOLEAN :
    \/ Load(p, "images", images, files, dry, FALSE)
    \/ Load(p, "images", images, {}, dry, TRUE)
    \/ Load(p, "files", {}, files, dry, FALSE)

StartPush(p) == Load(p, "push", {}, {}, FALSE, TRUE)

\* PullImage with a bug: --dry-run pulls.
PullImageAnyway(p) ==
  LET r == run[p] IN
  /\ r.at = "images"
  /\ \E i \in r.images :
       /\ docker' = docker \cup {i}
       /\ run' = [run EXCEPT ![p].images = @ \ {i}, ![p].mem.images[i] = "pulled"]
  /\ UNCHANGED <<disk, store, started, met>>

\* pull_images: a failure is recorded over an earlier success; --dry-run
\* counts as one.
PullImage(p) ==
  LET r == run[p] IN
  /\ r.at = "images"
  /\ \E i \in r.images, ok \in BOOLEAN :
       /\ r.dry => ok
       /\ docker' = IF ok /\ ~r.dry THEN docker \cup {i} ELSE docker
       /\ run' = [run EXCEPT ![p].images = @ \ {i},
                    ![p].mem.images[i] = IF ok THEN "pulled" ELSE "pull_failed"]
  /\ UNCHANGED <<disk, store, started, met>>

ImagesDone(p) ==
  /\ run[p].at = "images" /\ run[p].images = {}
  /\ run' = [run EXCEPT ![p].at = "open",
               ![p].next = IF run[p].skipFiles THEN "idle" ELSE "files"]
  /\ UNCHANGED <<world, store, started, met>>

-----------------------------------------------------------------------------
(* pull_files and download_file. *)

\* "already cached": any file without a checksum, a matching one with.
Cached(f) == IF f \in Hashed THEN disk[f] = "whole" ELSE disk[f] # "none"

\* FileEntryOf with a bug: the status word of an image.
FileEntryAsImage(p, ok, content) ==
  [status |-> IF ok THEN "pulled" ELSE "failed",
   sized |-> content # "none" /\ ~run[p].dry]

\* The entry of a file, from what download_file returned and what is at the
\* destination: a dry run looks at no size and writes 0.
FileEntryOf(p, ok, content) ==
  [status |-> IF ok THEN "downloaded" ELSE "failed",
   sized |-> content # "none" /\ ~run[p].dry]

RecordFile(p, f, ok, content) ==
  run' = [run EXCEPT ![p].at = "files", ![p].on = NoFile, ![p].files = @ \ {f},
                     ![p].mem.files[f] = FileEntryOf(p, ok, content)]

\* Nothing is fetched: the file is cached, or the command is only printed
\* (--dry-run, which returns True), or no downloader is installed.
SkipFile(p) ==
  /\ run[p].at = "files"
  /\ \E f \in run[p].files, ok \in BOOLEAN :
       /\ Cached(f) => ok
       /\ ok => Cached(f) \/ run[p].dry
       /\ RecordFile(p, f, ok, disk[f])
  /\ UNCHANGED <<world, store, started, met>>

\* The downloader creates the destination, or continues what is there.
BeginFetch(p) ==
  /\ run[p].at = "files" /\ ~run[p].dry
  /\ \E f \in run[p].files :
       /\ ~Cached(f)
       /\ disk' = [disk EXCEPT ![f] = IF @ = "none" THEN "part" ELSE @]
       /\ run' = [run EXCEPT ![p].at = "fetch", ![p].on = f]
       /\ met' = IF \E q \in Process \ {p} : run[q].on = f THEN met \cup {f} ELSE met
  /\ UNCHANGED <<docker, store, started>>

\* What a downloader that exits with 0 may leave: `wget -c` and
\* `curl --continue-at -` do not shorten or rewrite what is there, a resumed
\* file may have changed upstream, and curl without -f saves an error page.
Fetched(f) ==
  IF disk[f] = "part" \/ f \in met THEN {"whole", "wrong"} ELSE {disk[f]}

\* Accepts with a bug: the checksum is only looked at before the download.
AcceptsAny(f, content) == TRUE

\* download_file's verdict on what the downloader left.
Accepts(f, content) == f \in Hashed => content = "whole"

EndFetch(p) ==
  LET f == run[p].on IN
  /\ run[p].at = "fetch"
  /\ \/ \E content \in Fetched(f) :
          /\ disk' = [disk EXCEPT ![f] = content]
          /\ RecordFile(p, f, Accepts(f, content), content)
     \/ RecordFile(p, f, FALSE, disk[f]) /\ UNCHANGED disk
  /\ UNCHANGED <<docker, store, started, met>>

FilesDone(p) ==
  /\ run[p].at = "files" /\ run[p].files = {}
  /\ run' = [run EXCEPT ![p].at = "open", ![p].next = "idle"]
  /\ UNCHANGED <<world, store, started, met>>

-----------------------------------------------------------------------------
(* save_manifest: open manifest.tmp, dump into it, rename it.  The name is *)
(* the same in every process.                                              *)

\* SaveOpen with a bug: the manifest itself is opened.
SaveOpenInPlace(p) ==
  /\ run[p].at = "open"
  /\ manifest' = Torn
  /\ clash' = (clash \/ \E q \in Process \ {p} : Saving(q))
  /\ run' = [run EXCEPT ![p].at = "dump", ![p].fd = "manifest"]
  /\ UNCHANGED <<world, tmp, stale, started, met>>

SaveOpen(p) ==
  /\ run[p].at = "open"
  /\ tmp' = Torn
  /\ clash' = (clash \/ \E q \in Process \ {p} : Saving(q))
  /\ run' = [run EXCEPT ![p].at = "dump", ![p].fd = "tmp"]
  /\ UNCHANGED <<world, manifest, stale, started, met>>

\* Where the writes go depends on what became of the opened file.  Two
\* writers in one file may leave a mixture.
SaveDump(p) ==
  LET r == run[p]
      Left == IF clash THEN {r.mem, Torn} ELSE {r.mem} IN
  /\ r.at = "dump"
  /\ tmp' \in IF r.fd = "tmp" THEN Left ELSE {tmp}
  /\ manifest' \in IF r.fd = "manifest" THEN Left ELSE {manifest}
  /\ run' = [run EXCEPT ![p].at = "replace", ![p].fd = "closed"]
  /\ UNCHANGED <<world, clash, stale, started, met>>

\* The rename carries along whoever else has the file open.
Renamed(fd) ==
  CASE fd = "tmp" -> "manifest" [] fd = "manifest" -> "unlinked" [] OTHER -> fd

SaveReplace(p) ==
  /\ run[p].at = "replace" /\ tmp # NoTmp
  /\ manifest' = tmp /\ tmp' = NoTmp
  /\ run' = [q \in Process |->
               IF q # p THEN [run[q] EXCEPT !.fd = Renamed(@)]
               ELSE IF run[p].next = "idle" THEN NoRun
               ELSE [run[p] EXCEPT !.at = "files"]]
  /\ stale' = (stale \ (IF run[p].next = "idle" THEN {p} ELSE {}))
                 \cup {q \in Process \ {p} : run[q].at # "idle"}
  /\ UNCHANGED <<world, clash, started, met>>

\* Another process renamed the file first: FileNotFoundError ends this one.
SaveRaises(p) ==
  /\ run[p].at = "replace" /\ tmp = NoTmp
  /\ run' = [run EXCEPT ![p] = NoRun]
  /\ stale' = stale \ {p}
  /\ UNCHANGED <<world, manifest, tmp, clash, started, met>>

\* Ctrl-C, an exception or a power cut, at any place.
Kill(p) ==
  /\ run[p].at # "idle"
  /\ run' = [run EXCEPT ![p] = NoRun]
  /\ stale' = stale \ {p}
  /\ UNCHANGED <<world, manifest, tmp, clash, started, met>>

-----------------------------------------------------------------------------
(* Push and import. *)

\* push_images changes the registry only; a failed push, or an image that is
\* not local, is logged and passed over.  The manifest is saved whatever was
\* pushed (its pushed_to field is left out).
Push(p) ==
  /\ run[p].at = "push"
  /\ run' = [run EXCEPT ![p].at = "open"]
  /\ UNCHANGED <<world, store, started, met>>

\* `docker load`; the archive is from any host.  Nothing unpacks the bundle of
\* files that export-tar writes beside it.
ImportTar ==
  /\ \E images \in SUBSET Image : docker' = docker \cup images
  /\ UNCHANGED <<disk, store, run, started, met>>

ProcessStep(p) ==
  \/ StartPull(p) \/ PullImage(p) \/ ImagesDone(p)
  \/ SkipFile(p) \/ BeginFetch(p) \/ EndFetch(p) \/ FilesDone(p)
  \/ StartPush(p) \/ Push(p)
  \/ SaveOpen(p) \/ SaveDump(p) \/ SaveReplace(p) \/ SaveRaises(p)
  \/ Kill(p)

Next ==
  \/ \E p \in Process : ProcessStep(p)
  \/ ImportTar

Spec == Init /\ [][Next]_vars

-----------------------------------------------------------------------------
(* Properties. *)

\* The variables hold what the code can put there.
TypeOK ==
  /\ disk \in [File -> Content] /\ docker \in SUBSET Image
  /\ manifest \in Manifest \cup {Torn}
  /\ tmp \in Manifest \cup {Torn, NoTmp}
  /\ run \in [Process -> Invocation]
  /\ started \in 0..MaxRuns /\ clash \in BOOLEAN
  /\ stale \in SUBSET Process /\ met \in SUBSET File

\* The manifest calls f downloaded, with a size.
Vouches(m, f) == m.files[f] = [status |-> "downloaded", sized |-> TRUE]

\* A file with a checksum that the manifest calls downloaded is complete, in
\* whatever order invocations fail, are killed, resume and start again: the
\* verification of download_file (335-341, 367-373) over the partial files
\* that earlier runs left.  Two exemptions, both what the code does: the entry
\* of a dry run says "downloaded" of a file that may be absent (362-363, 399)
\* and has size 0; and two invocations may have fetched the file together.
ChecksumIsKept ==
  \A f \in Hashed \ met : manifest # Torn /\ Vouches(manifest, f) => disk[f] = "whole"

\* Invocations that never save together always leave a manifest that can be
\* loaded, wherever they are killed: "Write assets/manifest.json atomically"
\* (149).  With the same temporary name in two overlapping saves this is false.
SaveIsAtomic == manifest = Torn => clash

\* A save keeps every entry that was there, unless another invocation saved
\* since this one loaded the manifest (then its entries are lost).
KnownImages == IF manifest = Torn THEN {} ELSE {i \in Image : manifest.images[i] # "absent"}
KnownFiles ==
  IF manifest = Torn THEN {} ELSE {f \in File : manifest.files[f].status # "absent"}
EntriesSurvive ==
  [][\A p \in Process \ stale :
       /\ run[p].at = "replace" /\ run'[p].at # "replace"
       /\ manifest' # manifest /\ ~clash /\ manifest' # Torn
       => KnownImages \subseteq KnownImages' /\ KnownFiles \subseteq KnownFiles']_vars

\* An invocation with --dry-run ("Print commands without executing them",
\* 614) changes neither the files nor the images, at any of its steps.  (That
\* it saves a manifest of successes is exempt from ChecksumIsKept.)
DryRunOnlyPrints ==
  [][\A p \in Process : run[p].dry /\ run'[p] # run[p] => UNCHANGED world]_vars

\* "Scripts use wget -c (resume) so partial downloads are safe"
\* (configs/assets.yaml:163): what the manifest calls downloaded, of a real
\* run, is not a part.
PartialIsSafe ==
  \A f \in File : manifest # Torn /\ Vouches(manifest, f) => disk[f] # "part"

=============================================================================
