----------------------------- MODULE HostSetup -----------------------------
(***************************************************************************)
(* scripts/setup.py: the common set-up of a host, with --install-emon      *)
(* delegating to setup_emon.py (SepInstall), which delegates to            *)
(* setup_kernel_devel.py (KernelDevel).  Runs follow one another on the    *)
(* same host and may be killed at any step; what a run did stays.          *)
(***************************************************************************)
EXTENDS SepInstall

CONSTANTS MaxRuns  \* bound: set-up runs on the host

ASSUME HostSetupAssumption == MaxRuns \in Nat

VARIABLES
  env,       \* the conda environment, as `conda env list` shows it
  todo,      \* packages still to be tried one by one
  runs,      \* runs started
  lookup     \* the last run of setup_kernel_devel.py on its own, and its inputs

hostVars == <<env, todo, runs, lookup>>
vars == <<family, at, args, have, devel, sepVars, hostVars>>

Package == {"tools", "lfs"}  \* BASE_SYSTEM_PKGS: git-lfs, and the tools the set-up itself needs
NoLookup == [via |-> "none"]
NoArgs == [dry |-> FALSE, emon |-> FALSE, conda |-> FALSE, available |-> {}]

Init ==
  /\ at = "idle"
  /\ args = NoArgs
  /\ have = {} /\ devel = {}
  /\ cache = "none" /\ named \in {"none", "pointer", "good"} /\ staged \in {"none", "pointer"}
  /\ from = "none" /\ sep = "none" /\ emonRc = 0
  /\ family \in {"ubuntu", "centos", "unknown"} /\ env \in {"none", "similar"}
  /\ todo = {} /\ runs = 0 /\ lookup = NoLookup

\* setup.py, or setup_emon.py on its own.  A step whose --skip flag is given is
\* passed over (Skip below).
Start ==
  /\ at \in {"idle", "done", "failed"} /\ runs < MaxRuns /\ lookup = NoLookup
  /\ \/ /\ \E dry, emon, conda \in BOOLEAN :
             args' = [NoArgs EXCEPT !.dry = dry, !.emon = emon, !.conda = conda]
        /\ Go("system")
     \/ /\ \E dry \in BOOLEAN : args' = [NoArgs EXCEPT !.dry = dry, !.emon = TRUE]
        /\ Go("dependencies")
  /\ runs' = runs + 1
  /\ from' = "none"
  /\ UNCHANGED <<have, devel, cache, named, staged, sep, emonRc, env, todo, lookup>>

-----------------------------------------------------------------------------
(* Step 1, install_system_base: all packages at once, then one by one.     *)

\* What the repositories offer to this run.
Offered == \E available \in SUBSET Package : args' = [args EXCEPT !.available = available]

\* InstallBulk with a bug: the failure of the whole list ends the step.
InstallBulkOnly ==
  /\ at = "system" /\ Offered
  /\ have' = IF ~args.dry /\ family # "unknown" /\ Package \subseteq args'.available
             THEN have \cup Package ELSE have
  /\ Go("perf")
  /\ UNCHANGED <<devel, sepVars, hostVars>>

\* apt and dnf refuse the whole list for one package they cannot find.
InstallBulk ==
  /\ at = "system"
  /\ IF family = "unknown" \/ args.dry
     THEN Go(IF family = "unknown" THEN "docker" ELSE "perf") /\ UNCHANGED <<args, have, todo>>
     ELSE /\ Offered
          /\ IF Package \subseteq args'.available
             THEN have' = have \cup Package /\ Go("perf") /\ UNCHANGED todo
             ELSE Go("packages") /\ todo' = Package /\ UNCHANGED have
  /\ UNCHANGED <<devel, sepVars, env, runs, lookup>>

InstallOne ==
  /\ at = "packages"
  /\ \E p \in todo :
       /\ have' = have \cup ({p} \cap args.available)
       /\ todo' = todo \ {p}
       /\ Go(IF todo = {p} THEN "perf" ELSE "packages")
  /\ UNCHANGED <<args, devel, sepVars, env, runs, lookup>>

InstallPerf ==
  /\ at = "perf"
  /\ Does({"perf"})
  /\ args' = [args EXCEPT !.available = {}]
  /\ Go("docker")
  /\ UNCHANGED <<devel, sepVars, hostVars>>

\* Step 2: nothing on a family it does not know.
InstallDocker ==
  /\ at = "docker"
  /\ Does(IF family = "unknown" THEN {} ELSE {"docker"})
  /\ Go("lfs")
  /\ UNCHANGED <<args, devel, sepVars, hostVars>>

\* Step 4, executed third: git-lfs, then the content of its pointers.
Resolved(archive) == IF archive = "pointer" THEN {"pointer", "good"} ELSE {archive}
SetupGitLfs ==
  /\ at = "lfs"
  /\ IF family = "unknown" THEN UNCHANGED have ELSE Does({"lfs"})
  /\ IF args.dry \/ "lfs" \notin have' THEN UNCHANGED <<named, staged>>
     ELSE named' \in Resolved(named) /\ staged' \in Resolved(staged)
  /\ Go(IF args.conda THEN "conda" ELSE "pip")
  /\ UNCHANGED <<args, devel, cache, from, sep, emonRc, hostVars>>

-----------------------------------------------------------------------------
(* Step 3, setup_conda. *)

\* An installer is found or downloaded, or no source gave a shell script.
\* The installer makes its directory first and refuses one that is there.
InstallConda ==
  /\ at = "conda" /\ ~args.dry /\ "conda" \notin have
  /\ \/ "condadir" \notin have /\ have' = have \cup {"condadir"} /\ Go("installing")
     \/ UNCHANGED have /\ Go("failed")
  /\ UNCHANGED <<args, devel, sepVars, hostVars>>

\* CondaInstalled with a bug: the installer's result is not looked at.
CondaAssumed ==
  /\ at = "installing"
  /\ have' \in {have, have \cup {"conda"}}
  /\ Go("env")
  /\ UNCHANGED <<args, devel, sepVars, hostVars>>

\* sys.exit(1) when bin/conda is not there afterwards.
CondaInstalled ==
  /\ at = "installing"
  /\ have' \in {have, have \cup {"conda"}}
  /\ Go(IF "conda" \in have' THEN "env" ELSE "failed")
  /\ UNCHANGED <<args, devel, sepVars, hostVars>>

CondaPresent ==
  /\ at = "conda" /\ (args.dry \/ "conda" \in have)
  /\ Go("env")
  /\ UNCHANGED <<args, have, devel, sepVars, hostVars>>

\* EnvListed with a bug: the listing of a conda that is not on PATH is empty.
EnvNotListed == FALSE

\* The name is searched as a substring of the listing: the environment, one
\* that a killed `conda create` left, or another one whose name contains it.
EnvListed == env # "none"

EnvExists ==
  /\ at = "env" /\ EnvListed
  /\ Go("pip")
  /\ UNCHANGED <<args, have, devel, sepVars, hostVars>>

\* `conda create -y` begins by removing what is there.
CreateEnv ==
  /\ at = "env" /\ ~EnvListed
  /\ IF args.dry THEN UNCHANGED <<env, have>>
     ELSE env' \in {env, "broken", "ready"} /\ have' = have \ {"pip"}
  /\ Go("pip")
  /\ UNCHANGED <<args, devel, sepVars, todo, runs, lookup>>

\* Step 6, install_emon: a dry run of setup.py only prints the command.
AfterPip == IF args.emon /\ ~args.dry THEN "dependencies" ELSE "done"

\* Step 5: through `conda run`, failures only logged.
InstallPip ==
  /\ at = "pip"
  /\ Does(IF env = "ready" /\ "conda" \in have THEN {"pip"} ELSE {})
  /\ Go(AfterPip)
  /\ UNCHANGED <<args, devel, sepVars, hostVars>>

\* install_emon: setup_emon.py's exit code is a warning.
EmonLeft ==
  /\ at = "left"
  /\ Go("done")
  /\ UNCHANGED <<args, have, devel, sepVars, hostVars>>

\* --skip-system, --skip-docker, --skip-pip.
Skip ==
  /\ \/ at = "system" /\ Go("docker")
     \/ at = "docker" /\ Go("lfs")
     \/ at = "pip" /\ Go(AfterPip)
  /\ UNCHANGED <<args, have, devel, sepVars, hostVars>>

Kill ==
  /\ at \notin {"idle", "done", "failed", "looked"}
  /\ Go("failed") /\ todo' = {} /\ args' = NoArgs /\ from' = "none"
  /\ UNCHANGED <<have, devel, cache, named, staged, sep, emonRc, env, runs, lookup>>

\* setup_kernel_devel.py on its own, on a host nothing was installed on.
LookUp ==
  /\ at = "idle" /\ runs = 0 /\ family = "centos" /\ env = "none"
  /\ named = "none" /\ staged = "none"
  /\ \E site \in Sites, down \in Outages, hint \in Node \cup {NoHint} :
       /\ hint # NoHint => site.name[hint].ww
       /\ LET found == FindRpm(site, down, Running, hint)
          IN \E o \in KernelDevelOutcomes(found) :
               /\ devel' = o.devel
               /\ lookup' = [via |-> o.via, rc |-> o.rc, site |-> site, down |-> down,
                             hint |-> hint, found |-> found]
  /\ Go("looked")
  /\ UNCHANGED <<args, have, sepVars, env, todo, runs>>

SetupStep ==
  \/ Start \/ Skip \/ Kill
  \/ InstallBulk \/ InstallOne \/ InstallPerf \/ InstallDocker \/ SetupGitLfs
  \/ InstallConda \/ CondaInstalled \/ CondaPresent \/ EnvExists \/ CreateEnv
  \/ InstallPip
  \/ SepStep /\ UNCHANGED hostVars
  \/ EmonLeft
  \/ LookUp

Next == SetupStep /\ UNCHANGED family

Spec == Init /\ [][Next]_vars

-----------------------------------------------------------------------------
(* Properties. *)

\* The variables hold what the code can put there.
TypeOK ==
  /\ have \in SUBSET Fact /\ devel \in SUBSET Rpm
  /\ {cache, named, staged} \subseteq Archive
  /\ from \in {"none", "cache", "named", "staged"}
  /\ sep \in {"none", "other", "requested"} /\ emonRc \in {0, 1}
  /\ env \in {"none", "similar", "broken", "ready"}
  /\ todo \in SUBSET Package /\ runs \in 0..MaxRuns

\* "A single typo'd or unavailable package name never blocks the rest of the
\* list" (setup.py:182-183): step 1 leaves every available package installed.
PackagesIndependent ==
  at = "perf" /\ ~args.dry => Package \cap args.available \subseteq have

\* The steps behind setup_conda find a conda, whatever earlier runs left in
\* ~/miniconda3 (a killed installer leaves a directory that no later run can
\* install into; that run exits).
CondaBeforeEnv ==
  at \in {"env", "pip"} /\ args.conda /\ ~args.dry => "conda" \in have

\* A run takes nothing away that an earlier one installed (conda's creation of
\* an environment that exists would).
RunsOnlyAdd ==
  [][/\ have \subseteq have' /\ devel \subseteq devel'
     /\ env = "ready" => env' = "ready"]_vars

\* The archive that install_sep gets is valid, whatever downloads were killed
\* or failed before; the one exception is the staged copy of the requested
\* version, which download_sep returns unseen (install_sep then refuses it, so
\* such a copy makes every run fail and the git-lfs repair is never reached).
ArchiveIsChecked ==
  at = "install" /\ ~args.dry /\ from # "named" => Content = "good"

\* Once the requested SEP version is installed, no later run replaces it by a
\* fallback version, even when Artifactory has become unreachable.
NoDowngrade == [][sep = "requested" => sep' # "other"]_vars

\* What the search is to find, by definition: the directories at most two
\* levels under a work week, through listings that can be fetched, and the
\* work weeks with a matching RPM in one of them.
Elements(seq) == {seq[i] : i \in DOMAIN seq}
Under(l, n) == Elements(Listing(l.site, l.down, n).dirs)
Reach(l, w) == LET one == Under(l, w) IN {w} \cup one \cup UNION {Under(l, n) : n \in one}
Has(l, n) == \E rpm \in Elements(Listing(l.site, l.down, n).rpms) : Matches(rpm, Running)
Holding(l) == {w \in Under(l, Root) : l.site.name[w].ww /\ \E n \in Reach(l, w) : Has(l, n)}

\* setup_kernel_devel.py finds an RPM exactly when a matching one is at the
\* root or within two levels of a work week, whatever listings fail.
FoundIfPublished ==
  lookup # NoLookup =>
    (lookup.found.rpm # NoRpm <=> Has(lookup, Root) \/ Holding(lookup) # {})

\* It is taken from the hinted work week if that has one, else from the latest
\* ("latest -> earliest", 540).  Names whose date the code does not read
\* (WW2401, though 356 lists it) are exempt.
DateRead(name) == name.format \notin {"WW2401", "none"}
HintThenLatest ==
  lookup # NoLookup /\ lookup.found.under # Root =>
    LET l == lookup
        w == l.found.under
        name(n) == l.site.name[n]
    IN \/ w = l.hint
       \/ /\ l.hint \notin Holding(l)
          /\ \A v \in Holding(l) :
               DateRead(name(v)) /\ DateRead(name(w)) =>
                 ~Later(<<name(v).year, name(v).week>>, <<name(w).year, name(w).week>>)

\* A package whose installation is reported as a success is what the next run
\* recognises as installed, so the next run does not install again.  Not so for
\* three kinds of RPM that the search takes (436-473) and the check (192-236)
\* does not know: of a longer version; one that shares the first characters of
\* the release of `uname -r` and no more; and, for a BKC kernel, one of another
\* release under a name other than kernel-dmr-bkc-devel.
LongerVersion(rpm, k) ==
  \E x \in Pairs(rpm), w \in Pairs(k) : <<x.ver, w.ver>> \in LongerThan
SharesStart(rpm, k) ==
  StartsWith(rpm.rel, Stem[k.rel]) /\ ~(rpm.ver = k.ver /\ StartsWith(rpm.rel, k.rel))
OtherRelease(rpm, k) ==
  LET b == Bkc[k.rel] IN
  /\ b # NoBkc
  /\ ~(rpm.name = "kernel-dmr-bkc-devel" /\ rpm.ver = b.ver)
  /\ \E x \in Pairs(rpm) : x.ver = b.ver /\ ~StartsWith(x.rel, b.rel)
TakenButUnknown(rpm, k) == LongerVersion(rpm, k) \/ SharesStart(rpm, k) \/ OtherRelease(rpm, k)
InstalledIsRecognised ==
  /\ lookup # NoLookup /\ lookup.rc = 0
  /\ ~(lookup.via = "artifactory" /\ TakenButUnknown(lookup.found.rpm, Running))
  => Present(devel, Running)
=============================================================================
