----------------------------- MODULE SepInstall -----------------------------
(***************************************************************************)
(* setup/setup_emon.py and misc/check_emon_setup.py: installing the SEP    *)
(* package that EMON comes with, step by step.  The archive comes from the *)
(* script's own cache (~/devtools), from assets/installers under the       *)
(* requested name, from Artifactory, or is any other version staged there. *)
(*                                                                         *)
(* A command that fails is only logged unless the code looks at it, so an  *)
(* effect is a choice between happening and not.                           *)
(***************************************************************************)
EXTENDS KernelDevel

CONSTANTS
  Sites,     \* what the Artifactory tree may hold when it is searched
  SetupSites, \* bound: of these, the ones it may be in a set-up run
  Outages,   \* directories of it that may be unreachable
  Running,   \* the running kernel
  Internal   \* /etc/motd has the internal marker

\* A site lists packages and directories; a work week named without a year is
\* of year 0 (setup_kernel_devel.py:357).
ASSUME SepInstallAssumption ==
  /\ Running \in Kernel /\ SetupSites \subseteq Sites
  /\ \A site \in Sites :
       /\ site.listing \in [Node -> [rpms : Seq(Rpm), dirs : Seq(Node)]]
       /\ site.name \in [Node -> Name]
       /\ \A n \in Node : site.name[n].format = "WW01" => site.name[n].year = 0

VARIABLES
  family,    \* the distribution family
  at,        \* the step the set-up is at
  args,      \* its options, and the packages on offer while it installs them
  have,      \* what is installed on the host
  devel,     \* the kernel-devel packages installed
  cache,     \* ~/devtools/<requested>.tar.bz2
  named,     \* assets/installers/<requested>.tar.bz2
  staged,    \* another SEP version in assets/installers
  from,      \* the archive download_sep returned
  sep,       \* the SEP version under /opt/intel/sep
  emonRc     \* exit code of setup_emon.py

sepVars == <<cache, named, staged, from, sep, emonRc>>

Archive == {"none", "pointer", "bad", "good"}  \* a git-lfs stub, a broken file, a tar.bz2
Fact == {"tools", "lfs", "perf", "docker", "condadir", "conda", "pip",
         "pip3", "pyedp", "tmc", "drivers"}

\* run(): the facts a command may add; none when it only prints.
Does(facts) ==
  have' \in IF args.dry THEN {have} ELSE {have, have \cup facts}

Go(place) == at' = place
Exit(rc) == at' = "left" /\ emonRc' = rc

-----------------------------------------------------------------------------
\* CheckDependencies with a bug: exits with the number of missing tools.
CheckAndCount ==
  /\ at = "dependencies"
  /\ IF args.dry \/ "tools" \in have THEN Go("kernel") /\ UNCHANGED emonRc ELSE Exit(2)
  /\ UNCHANGED <<args, have, devel, cache, named, staged, from, sep>>

\* check_system_dependencies.
CheckDependencies ==
  /\ at = "dependencies"
  /\ IF args.dry \/ "tools" \in have THEN Go("kernel") /\ UNCHANGED emonRc ELSE Exit(1)
  /\ UNCHANGED <<args, have, devel, cache, named, staged, from, sep>>

Findable == {FindRpm(site, {}, Running, NoHint) : site \in SetupSites}

\* setup_kernel_devel.py, by family.  It detects the family itself, from rpm
\* and apt-get when the distribution is not known: any outcome then.
KernelDevelOutcomes(found) ==
  LET rhel == Outcomes(devel, Running, Internal, found)
      debian == HeaderOutcomes(devel, Running)
  IN CASE family = "centos" -> rhel
       [] family = "ubuntu" -> debian
       [] OTHER -> rhel \cup debian

\* ensure_kernel_devel: its exit code is ignored.
EnsureKernelDevel ==
  /\ at = "kernel"
  /\ IF args.dry THEN UNCHANGED devel
     ELSE \E found \in Findable : \E o \in KernelDevelOutcomes(found) : devel' = o.devel
  /\ Go("download")
  /\ UNCHANGED <<args, have, sepVars>>

\* download_sep with a bug: what an earlier run left is not looked into.
FindInCacheUnchecked ==
  /\ at = "download" /\ cache # "none"
  /\ from' = "cache" /\ Go("install")
  /\ UNCHANGED <<args, have, devel, cache, named, staged, sep, emonRc>>

\* download_sep: a valid archive in the cache is returned.
FindInCache ==
  /\ at = "download" /\ cache = "good"
  /\ from' = "cache" /\ Go("install")
  /\ UNCHANGED <<args, have, devel, cache, named, staged, sep, emonRc>>

\* A corrupt one is deleted; the staged copy of the same name is returned
\* without looking into it.
FindStagedCopy ==
  /\ at = "download" /\ cache # "good" /\ named # "none"
  /\ cache' = "none"
  /\ from' = "named" /\ Go("install")
  /\ UNCHANGED <<args, have, devel, named, staged, sep, emonRc>>

\* BeginDownload with a bug: whatever is cached is downloaded again.
DownloadAgain ==
  /\ at = "download" /\ named = "none"
  /\ cache' = IF args.dry THEN "none" ELSE "bad"
  /\ Go(IF args.dry THEN "install" ELSE "fetching")
  /\ UNCHANGED <<args, have, devel, named, staged, from, sep, emonRc>>

\* The download writes into the cache: a kill may leave a part there.
BeginDownload ==
  /\ at = "download" /\ cache # "good" /\ named = "none"
  /\ cache' = IF args.dry THEN "none" ELSE "bad"
  /\ Go(IF args.dry THEN "install" ELSE "fetching")
  /\ UNCHANGED <<args, have, devel, named, staged, from, sep, emonRc>>

FetchSucceeds ==
  /\ at = "fetching"
  /\ cache' = "good" /\ from' = "cache" /\ Go("install")
  /\ UNCHANGED <<args, have, devel, named, staged, sep, emonRc>>

\* One attempt only: what it left is removed, then any valid staged archive is
\* taken, if need be after `git lfs pull`.
FetchFails ==
  /\ at = "fetching"
  /\ cache' = "none"
  /\ staged' \in IF staged = "pointer" /\ "lfs" \in have THEN {"pointer", "good"} ELSE {staged}
  /\ IF staged' = "good"
     THEN from' = "staged" /\ Go("install") /\ UNCHANGED emonRc
     ELSE Exit(1) /\ UNCHANGED from
  /\ UNCHANGED <<args, have, devel, named, sep>>

\* The archive in hand.
Content ==
  CASE from = "cache" -> cache [] from = "named" -> named [] from = "staged" -> staged
    [] OTHER -> "none"

\* install_sep: an archive that is not a tar.bz2, or has no installer in it, is
\* refused.  The installer's own exit code is not looked at.
InstallSep ==
  /\ at = "install"
  /\ IF args.dry THEN Go("pyedp") /\ UNCHANGED <<sep, emonRc>>
     ELSE IF Content # "good" THEN Exit(1) /\ UNCHANGED sep
     ELSE \/ /\ sep' \in {sep, IF from = "staged" THEN "other" ELSE "requested"}
             /\ Go("pyedp") /\ UNCHANGED emonRc
          \/ Exit(1) /\ UNCHANGED sep
  /\ UNCHANGED <<args, have, devel, cache, named, staged, from>>

\* configure_pyedp: exits without a pip for the system's python
\* (ensure_python_pip); pyedp comes from the SEP tree, and not installing it is
\* only a warning.
ConfigurePyedp ==
  /\ at = "pyedp"
  /\ \/ /\ \E facts \in {{"pip3"}} \cup (IF sep = "none" THEN {} ELSE {{"pip3", "pyedp"}}) :
             have' = IF args.dry THEN have ELSE have \cup facts
        /\ Go("tmc") /\ UNCHANGED emonRc
     \/ /\ ~args.dry /\ "pip3" \notin have
        /\ Exit(1) /\ UNCHANGED have
  /\ UNCHANGED <<args, devel, cache, named, staged, from, sep>>

InstallTmc ==
  /\ at = "tmc"
  /\ Does({"tmc"})
  /\ Go("drivers")
  /\ UNCHANGED <<args, devel, sepVars>>

\* load_drivers: the drivers are built against the headers of this kernel.
LoadDrivers ==
  /\ at = "drivers"
  /\ Does(IF sep # "none" /\ \E p \in devel : Pairs(p) \cap Pairs(Running) # {}
          THEN {"drivers"} ELSE {})
  /\ Go("verify")
  /\ UNCHANGED <<args, devel, sepVars>>

\* check_emon_setup: the emon binary and both drivers; pyedp only warns.
Ready == sep # "none" /\ "drivers" \in have

\* main: the exit code is the verification's (0 when commands only print).  It
\* also fails a SEP whose version it cannot make out.
Verify ==
  /\ at = "verify"
  /\ \E readable \in BOOLEAN : Exit(IF args.dry \/ (Ready /\ readable) THEN 0 ELSE 1)
  /\ UNCHANGED <<args, have, devel, cache, named, staged, from, sep>>

SepStep ==
  \/ CheckDependencies \/ EnsureKernelDevel
  \/ FindInCache \/ FindStagedCopy \/ BeginDownload \/ FetchSucceeds \/ FetchFails
  \/ InstallSep \/ ConfigurePyedp \/ InstallTmc \/ LoadDrivers \/ Verify
=============================================================================
