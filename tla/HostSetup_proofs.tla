-------------------------- MODULE HostSetup_proofs --------------------------
(***************************************************************************)
(* Theorems about HostSetup, for any Artifactory tree and outages, any     *)
(* kernel and any number of set-up runs.                                   *)
(***************************************************************************)
EXTENDS HostSetup, Orders_proofs, TLAPS

\* The requested SEP version once installed, an archive of it remains, so that
\* no run gets as far as downloading one.
ArchiveRemains ==
  /\ sep = "requested" => cache = "good" \/ named # "none"
  /\ at = "fetching" \/ from = "staged" => sep # "requested"

HInv == CondaBeforeEnv /\ ArchiveIsChecked /\ ArchiveRemains

\* Steps outside setup_emon.py.
OuterStep ==
  \/ Start \/ Skip \/ Kill
  \/ InstallBulk \/ InstallOne \/ InstallPerf \/ InstallDocker \/ SetupGitLfs
  \/ InstallConda \/ CondaInstalled \/ CondaPresent \/ EnvExists \/ CreateEnv
  \/ InstallPip \/ EmonLeft \/ LookUp

LEMMA InitHInv == Init => HInv
  BY DEF Init, HInv, CondaBeforeEnv, ArchiveIsChecked, ArchiveRemains

\* What is behind setup_conda is reached from it alone.
LEMMA OuterConda == CondaBeforeEnv /\ OuterStep => CondaBeforeEnv'
<1> SUFFICES ASSUME CondaBeforeEnv, OuterStep PROVE CondaBeforeEnv'
  OBVIOUS
<1>1. CASE Start
  BY <1>1 DEF Start, Go, CondaBeforeEnv
<1>2. CASE Skip
  BY <1>2 DEF Skip, Go, AfterPip, CondaBeforeEnv
<1>3. CASE Kill \/ EmonLeft \/ LookUp
  BY <1>3 DEF Kill, EmonLeft, LookUp, Go, CondaBeforeEnv
<1>4. CASE InstallBulk
  BY <1>4 DEF InstallBulk, Go, CondaBeforeEnv
<1>5. CASE InstallOne \/ InstallPerf \/ InstallDocker
  BY <1>5 DEF InstallOne, InstallPerf, InstallDocker, Go, CondaBeforeEnv
<1>6. CASE SetupGitLfs
  BY <1>6 DEF SetupGitLfs, Go, CondaBeforeEnv
<1>7. CASE InstallConda
  BY <1>7 DEF InstallConda, Go, CondaBeforeEnv
<1>8. CASE CondaInstalled
  BY <1>8 DEF CondaInstalled, Go, CondaBeforeEnv
<1>9. CASE CondaPresent
  BY <1>9 DEF CondaPresent, Go, CondaBeforeEnv
<1>10. CASE EnvExists
  BY <1>10 DEF EnvExists, Go, CondaBeforeEnv
<1>11. CASE CreateEnv
  BY <1>11 DEF CreateEnv, Go, CondaBeforeEnv
<1>12. CASE InstallPip
  BY <1>12 DEF InstallPip, Go, AfterPip, CondaBeforeEnv
<1> QED BY <1>1, <1>2, <1>3, <1>4, <1>5, <1>6, <1>7, <1>8, <1>9, <1>10, <1>11, <1>12
        DEF OuterStep

\* Outside setup_emon.py no archive goes away and nothing is installed from one.
LEMMA OuterArchive ==
  ASSUME OuterStep
  PROVE  /\ at' \notin {"install", "fetching"}
         /\ UNCHANGED <<cache, sep>> /\ from' \in {from, "none"}
         /\ named # "none" => named' # "none"
<1>1. CASE Start
  BY <1>1 DEF Start, Go
<1>2. CASE Skip
  BY <1>2 DEF Skip, Go, AfterPip, sepVars
<1>3. CASE Kill \/ EmonLeft \/ LookUp
  BY <1>3 DEF Kill, EmonLeft, LookUp, Go, sepVars
<1>4. CASE InstallBulk \/ InstallOne \/ InstallPerf \/ InstallDocker
  BY <1>4 DEF InstallBulk, InstallOne, InstallPerf, InstallDocker, Go, sepVars
<1>5. CASE SetupGitLfs
  BY <1>5 DEF SetupGitLfs, Resolved, Go
<1>6. CASE InstallConda \/ CondaInstalled \/ CondaPresent
  BY <1>6 DEF InstallConda, CondaInstalled, CondaPresent, Go, sepVars
<1>7. CASE EnvExists \/ CreateEnv
  BY <1>7 DEF EnvExists, CreateEnv, Go, sepVars
<1>8. CASE InstallPip
  BY <1>8 DEF InstallPip, Go, AfterPip, sepVars
<1> QED BY <1>1, <1>2, <1>3, <1>4, <1>5, <1>6, <1>7, <1>8 DEF OuterStep

\* setup_emon.py does not lead into setup_conda.
LEMMA SepConda == SepStep => CondaBeforeEnv'
  BY DEF SepStep, CheckDependencies, EnsureKernelDevel, FindInCache, FindStagedCopy,
     BeginDownload, FetchSucceeds, FetchFails, InstallSep, ConfigurePyedp, InstallTmc,
     LoadDrivers, Verify, Go, Exit, CondaBeforeEnv

LEMMA SepArchive == ArchiveIsChecked /\ ArchiveRemains /\ SepStep
                      => ArchiveIsChecked' /\ ArchiveRemains'
<1> SUFFICES ASSUME ArchiveIsChecked, ArchiveRemains, SepStep
             PROVE  ArchiveIsChecked' /\ ArchiveRemains'
  OBVIOUS
<1> USE DEF ArchiveIsChecked, ArchiveRemains, Content, Go
<1>1. CASE CheckDependencies \/ Verify
  BY <1>1 DEF CheckDependencies, Verify, Exit
<1>2. CASE EnsureKernelDevel \/ InstallTmc \/ LoadDrivers
  BY <1>2 DEF EnsureKernelDevel, InstallTmc, LoadDrivers, sepVars
<1>3. CASE FindInCache
  BY <1>3 DEF FindInCache
<1>4. CASE FindStagedCopy
  BY <1>4 DEF FindStagedCopy
<1>5. CASE BeginDownload
  BY <1>5 DEF BeginDownload
<1>6. CASE FetchSucceeds
  BY <1>6 DEF FetchSucceeds
<1>7. CASE FetchFails
  BY <1>7 DEF FetchFails, Exit
<1>8. CASE InstallSep
  BY <1>8 DEF InstallSep, Exit
<1>9. CASE ConfigurePyedp
  BY <1>9 DEF ConfigurePyedp, Exit
<1> QED BY <1>1, <1>2, <1>3, <1>4, <1>5, <1>6, <1>7, <1>8, <1>9 DEF SepStep

\* The inductive invariant.
THEOREM SetupInvariance == Spec => []HInv
<1>1. HInv /\ [Next]_vars => HInv'
  <2> SUFFICES ASSUME HInv, [Next]_vars PROVE HInv'
    OBVIOUS
  <2>1. CASE OuterStep
    <3>1. ArchiveIsChecked' /\ ArchiveRemains'
      BY <2>1, OuterArchive DEF HInv, ArchiveIsChecked, ArchiveRemains
    <3> QED BY <2>1, <3>1, OuterConda DEF HInv
  <2>2. CASE SepStep
    BY <2>2, SepConda, SepArchive DEF HInv
  <2>3. CASE UNCHANGED vars
    BY <2>3 DEF vars, sepVars, hostVars, HInv, CondaBeforeEnv, ArchiveIsChecked,
       ArchiveRemains, Content
  <2> QED BY <2>1, <2>2, <2>3 DEF Next, SetupStep, OuterStep
<1> QED BY <1>1, InitHInv, PTL DEF Spec

\* setup.py: the steps behind setup_conda find a conda.
THEOREM CondaSafe == Spec => []CondaBeforeEnv
<1>1. HInv => CondaBeforeEnv
  BY DEF HInv
<1> QED BY <1>1, SetupInvariance, PTL

\* setup_emon.py: install_sep gets a valid archive, the unseen staged copy of
\* the requested version excepted.
THEOREM ArchiveSafe == Spec => []ArchiveIsChecked
<1>1. HInv => ArchiveIsChecked
  BY DEF HInv
<1> QED BY <1>1, SetupInvariance, PTL

\* setup_emon.py: no run replaces the requested SEP version by a fallback.
THEOREM SepStays == Spec => NoDowngrade
<1>1. HInv /\ [Next]_vars => [sep = "requested" => sep' # "other"]_vars
  <2> SUFFICES ASSUME HInv, Next, sep = "requested" PROVE sep' # "other"
    OBVIOUS
  <2>1. CASE OuterStep
    BY <2>1, OuterArchive
  <2>2. CASE InstallSep
    BY <2>2 DEF InstallSep, HInv, ArchiveRemains
  <2>3. CASE SepStep /\ ~InstallSep
    BY <2>3 DEF SepStep, CheckDependencies, EnsureKernelDevel, FindInCache, FindStagedCopy,
       BeginDownload, FetchSucceeds, FetchFails, ConfigurePyedp, InstallTmc, LoadDrivers,
       Verify, sepVars
  <2> QED BY <2>1, <2>2, <2>3 DEF Next, SetupStep, OuterStep
<1> QED BY <1>1, SetupInvariance, PTL DEF Spec, NoDowngrade

-----------------------------------------------------------------------------
(* setup.py, step 1. *)

\* The packages tried one by one: those that are not left to try were on offer
\* and installed, or not on offer.
Tried ==
  /\ at = "packages" => (Package \ todo) \cap args.available \subseteq have
  /\ PackagesIndependent

LEMMA InitTried == Init => Tried
  BY DEF Init, Tried, PackagesIndependent

\* No step of setup_emon.py, and none behind step 1, comes back to it.
LEMMA TriedStays ==
  ASSUME Tried, [Next]_vars
  PROVE  Tried'
<1> USE DEF Tried, PackagesIndependent, Go
<1>1. CASE InstallBulk
  <2>1. CASE family = "unknown" \/ args.dry
    BY <1>1, <2>1 DEF InstallBulk
  <2>2. CASE ~(family = "unknown" \/ args.dry)
    <3>1. \/ have' = have \cup Package /\ at' = "perf"
          \/ at' = "packages" /\ todo' = Package
      BY <1>1, <2>2 DEF InstallBulk
    <3> QED BY <3>1
  <2> QED BY <2>1, <2>2
<1>2. CASE InstallOne
  <2>1. PICK p \in todo :
          /\ have' = have \cup ({p} \cap args.available)
          /\ todo' = todo \ {p}
          /\ at' = IF todo = {p} THEN "perf" ELSE "packages"
    BY <1>2 DEF InstallOne
  <2>2. at = "packages" /\ args' = args
    BY <1>2 DEF InstallOne
  <2> QED BY <2>1, <2>2
<1>3. CASE Start \/ Skip \/ Kill \/ EmonLeft \/ LookUp
  <2>1. at' \notin {"packages", "perf"}
    BY <1>3 DEF Start, Skip, Kill, EmonLeft, LookUp, AfterPip
  <2> QED BY <2>1
<1>4. CASE InstallPerf \/ InstallDocker \/ SetupGitLfs
  <2>1. at' \notin {"packages", "perf"}
    BY <1>4 DEF InstallPerf, InstallDocker, SetupGitLfs
  <2> QED BY <2>1
<1>5. CASE InstallConda \/ CondaInstalled \/ CondaPresent \/ EnvExists \/ CreateEnv \/ InstallPip
  <2>1. at' \notin {"packages", "perf"}
    BY <1>5 DEF InstallConda, CondaInstalled, CondaPresent, EnvExists, CreateEnv, InstallPip, AfterPip
  <2> QED BY <2>1
<1>6. CASE SepStep
  <2>1. at' \notin {"packages", "perf"}
    BY <1>6 DEF SepStep, CheckDependencies, EnsureKernelDevel, FindInCache, FindStagedCopy,
       BeginDownload, FetchSucceeds, FetchFails, InstallSep, ConfigurePyedp, InstallTmc,
       LoadDrivers, Verify, Exit
  <2> QED BY <2>1
<1>7. CASE UNCHANGED vars
  BY <1>7 DEF vars, sepVars, hostVars
<1> QED BY <1>1, <1>2, <1>3, <1>4, <1>5, <1>6, <1>7 DEF Next, SetupStep

\* setup.py: one package that is not on offer keeps no other from being
\* installed.
THEOREM PackagesSafe == Spec => []PackagesIndependent
<1>1. Tried => PackagesIndependent
  BY DEF Tried
<1>2. Tried /\ [Next]_vars => Tried'
  BY TriedStays
<1> QED BY <1>1, <1>2, InitTried, PTL DEF Spec

-----------------------------------------------------------------------------
(* What runs leave to later runs. *)

\* Packages of the environment are there with the environment only, and are
\* none of those tried one by one.
PipInEnv == ("pip" \in have => env = "ready") /\ todo \subseteq Package

\* setup_kernel_devel.py leaves what is installed in place, whatever it found.
LEMMA KernelDevelAdds ==
  ASSUME NEW found, NEW o \in KernelDevelOutcomes(found)
  PROVE  devel \subseteq o.devel
<1>1. \A x \in Outcomes(devel, Running, Internal, found) : devel \subseteq x.devel
  BY DEF Outcomes
<1>2. \A x \in HeaderOutcomes(devel, Running) : devel \subseteq x.devel
  BY DEF HeaderOutcomes
<1> QED BY <1>1, <1>2 DEF KernelDevelOutcomes

\* A step adds, and what it adds is not the environment's packages, except that
\* InstallPip adds these to an environment that is ready.
LEMMA OuterAdds ==
  ASSUME PipInEnv, OuterStep
  PROVE  /\ have \subseteq have' /\ devel \subseteq devel'
         /\ env = "ready" => env' = "ready"
         /\ PipInEnv'
<1> USE DEF PipInEnv, Does, Go
<1>1. CASE Start \/ Skip \/ Kill \/ EmonLeft
  BY <1>1 DEF Start, Skip, Kill, EmonLeft, hostVars
<1>2. CASE InstallBulk \/ InstallOne
  <2>1. UNCHANGED <<devel, env>>
    BY <1>2 DEF InstallBulk, InstallOne
  <2>2. have' \subseteq have \cup Package /\ have \subseteq have'
    BY <1>2 DEF InstallBulk, InstallOne
  <2>3. todo' \subseteq Package
    BY <1>2 DEF InstallBulk, InstallOne
  <2>4. "pip" \notin Package
    BY DEF Package
  <2> QED BY <2>1, <2>2, <2>3, <2>4
<1>3. CASE InstallPerf \/ InstallDocker
  BY <1>3 DEF InstallPerf, InstallDocker, hostVars
<1>4. CASE SetupGitLfs
  BY <1>4 DEF SetupGitLfs, hostVars
<1>5. CASE InstallConda \/ CondaInstalled \/ CondaPresent
  BY <1>5 DEF InstallConda, CondaInstalled, CondaPresent, hostVars
<1>6. CASE EnvExists
  BY <1>6 DEF EnvExists, hostVars
<1>7. CASE CreateEnv
  BY <1>7 DEF CreateEnv, EnvListed
<1>8. CASE InstallPip
  BY <1>8 DEF InstallPip, hostVars
<1>9. CASE LookUp
  <2>1. UNCHANGED <<have, env, todo>>
    BY <1>9 DEF LookUp
  <2>2. \E site \in Sites, down \in Outages, hint \in Node \cup {NoHint} :
          \E o \in KernelDevelOutcomes(FindRpm(site, down, Running, hint)) : devel' = o.devel
    BY <1>9 DEF LookUp
  <2> QED BY <2>1, <2>2, KernelDevelAdds
<1> QED BY <1>1, <1>2, <1>3, <1>4, <1>5, <1>6, <1>7, <1>8, <1>9 DEF OuterStep

LEMMA SepAdds ==
  ASSUME PipInEnv, SepStep, UNCHANGED hostVars
  PROVE  /\ have \subseteq have' /\ devel \subseteq devel'
         /\ env = "ready" => env' = "ready"
         /\ PipInEnv'
<1>1. UNCHANGED <<env, todo>>
  BY DEF hostVars
<1>2. have \subseteq have' /\ have' \subseteq have \cup {"pip3", "pyedp", "tmc", "drivers"}
  BY DEF SepStep, CheckDependencies, EnsureKernelDevel, FindInCache, FindStagedCopy,
     BeginDownload, FetchSucceeds, FetchFails, InstallSep, ConfigurePyedp, InstallTmc,
     LoadDrivers, Verify, Does
<1>3. devel \subseteq devel'
  <2>1. CASE EnsureKernelDevel
    BY <2>1, KernelDevelAdds DEF EnsureKernelDevel
  <2>2. CASE SepStep /\ ~EnsureKernelDevel
    BY <2>2 DEF SepStep, CheckDependencies, FindInCache, FindStagedCopy,
       BeginDownload, FetchSucceeds, FetchFails, InstallSep, ConfigurePyedp, InstallTmc,
       LoadDrivers, Verify
  <2> QED BY <2>1, <2>2
<1> QED BY <1>1, <1>2, <1>3 DEF PipInEnv

LEMMA PipAlways == Spec => []PipInEnv
<1>1. Init => PipInEnv
  BY DEF Init, PipInEnv
<1>2. PipInEnv /\ [Next]_vars => PipInEnv'
  <2>1. UNCHANGED vars /\ PipInEnv => PipInEnv'
    BY DEF vars, hostVars, PipInEnv
  <2> QED BY <2>1, OuterAdds, SepAdds DEF Next, SetupStep, OuterStep
<1> QED BY <1>1, <1>2, PTL DEF Spec

\* Set-up runs take nothing away that an earlier one installed: above all, no
\* run lets conda create an environment that is there.
THEOREM RunsAdd == Spec => RunsOnlyAdd
<1>1. PipInEnv /\ [Next]_vars =>
        [/\ have \subseteq have' /\ devel \subseteq devel'
         /\ env = "ready" => env' = "ready"]_vars
  BY OuterAdds, SepAdds DEF Next, SetupStep, OuterStep
<1> QED BY <1>1, PipAlways, PTL DEF Spec, RunsOnlyAdd

-----------------------------------------------------------------------------
(* setup_kernel_devel.py: what the search finds. *)

LEMMA ListingTyped ==
  ASSUME NEW site \in Sites, NEW down, NEW n \in Node
  PROVE  Listing(site, down, n).rpms \in Seq(Rpm) /\ Listing(site, down, n).dirs \in Seq(Node)
<1>1. site.listing[n] \in [rpms : Seq(Rpm), dirs : Seq(Node)]
  BY SepInstallAssumption
<1>2. <<>> \in Seq(Rpm) /\ <<>> \in Seq(Node)
  OBVIOUS
<1> QED BY <1>1, <1>2 DEF Listing

\* What a scan may come to.
Match(k) == {r \in Rpm : Matches(r, k)} \cup {NoRpm}

LEMMA FirstMatchIs ==
  ASSUME NEW rpms \in Seq(Rpm), NEW k
  PROVE  /\ FirstMatch(rpms, k) \in Match(k)
         /\ FirstMatch(rpms, k) # NoRpm <=> \E rpm \in Elements(rpms) : Matches(rpm, k)
<1> DEFINE I == {i \in 1..Len(rpms) : Matches(rpms[i], k)}
<1>1. FirstMatch(rpms, k) = IF I = {} THEN NoRpm ELSE rpms[Min(I)]
  <2>1. I # {} => Min(I) \in I
    <3>1. I \subseteq Nat
      OBVIOUS
    <3> HIDE DEF I
    <3> QED BY <3>1, MinIsFirst
  <2>2. I # {} => Min(I) # 0
    BY <2>1
  <2>3. SelectInSeq(rpms, LAMBDA r : Matches(r, k)) = IF I # {} THEN Min(I) ELSE 0
    BY DEF SelectInSeq
  <2> HIDE DEF I
  <2> QED BY <2>2, <2>3 DEF FirstMatch
<1>2. I # {} => Min(I) \in I
  <2>1. I \subseteq Nat
    OBVIOUS
  <2> HIDE DEF I
  <2> QED BY <2>1, MinIsFirst
<1>3. I # {} <=> \E rpm \in Elements(rpms) : Matches(rpm, k)
  BY DEF Elements
<1>4. \A i \in I : rpms[i] \in Rpm /\ Matches(rpms[i], k)
  OBVIOUS
<1> HIDE DEF I
<1> QED BY <1>1, <1>2, <1>3, <1>4, NoRpmAssumption DEF Match

\* One level: its own RPMs, else those found below one of its subdirectories.
LEMMA ScanLevelIs ==
  ASSUME NEW site \in Sites, NEW down, NEW k, NEW below \in [Node -> Match(k)]
  PROVE  LET level == ScanLevel(site, down, k, below)
             here(n) == Listing(site, down, n)
         IN /\ level \in [Node -> Match(k)]
            /\ \A n \in Node :
                 level[n] # NoRpm <=> \/ \E rpm \in Elements(here(n).rpms) : Matches(rpm, k)
                                      \/ \E m \in Elements(here(n).dirs) : below[m] # NoRpm
<1> DEFINE level == ScanLevel(site, down, k, below)
<1> DEFINE dirs(n) == Listing(site, down, n).dirs
<1> DEFINE rpms(n) == Listing(site, down, n).rpms
<1> DEFINE own(n) == FirstMatch(rpms(n), k)
<1> DEFINE I(n) == {i \in 1..Len(dirs(n)) : below[dirs(n)[i]] # NoRpm}
<1>1. ASSUME NEW n \in Node
      PROVE  /\ level[n] \in Match(k)
             /\ level[n] # NoRpm <=> \/ \E rpm \in Elements(rpms(n)) : Matches(rpm, k)
                                     \/ \E m \in Elements(dirs(n)) : below[m] # NoRpm
  <2>1. /\ own(n) \in Match(k)
        /\ own(n) # NoRpm <=> \E rpm \in Elements(rpms(n)) : Matches(rpm, k)
    BY ListingTyped, FirstMatchIs
  <2>2. dirs(n) \in Seq(Node)
    BY ListingTyped
  <2>3. I(n) # {} => Min(I(n)) \in I(n)
    <3>1. I(n) \subseteq Nat
      OBVIOUS
    <3> HIDE DEF I
    <3> QED BY <3>1, MinIsFirst
  <2>4. \A i \in I(n) : i # 0 /\ dirs(n)[i] \in Node /\ below[dirs(n)[i]] # NoRpm
    <3> HIDE DEF dirs
    <3> QED BY <2>2
  <2>5. I(n) # {} <=> \E m \in Elements(dirs(n)) : below[m] # NoRpm
    <3>1. DOMAIN dirs(n) = 1..Len(dirs(n))
      BY <2>2
    <3>2. Elements(dirs(n)) = {dirs(n)[i] : i \in 1..Len(dirs(n))}
      BY <3>1 DEF Elements
    <3> HIDE DEF dirs
    <3> QED BY <3>2
  <2>6. level[n] = IF own(n) # NoRpm \/ I(n) = {} THEN own(n) ELSE below[dirs(n)[Min(I(n))]]
    <3>1. SelectInSeq(dirs(n), LAMBDA m : below[m] # NoRpm) = IF I(n) # {} THEN Min(I(n)) ELSE 0
      BY DEF SelectInSeq
    <3>2. I(n) # {} => Min(I(n)) # 0
      <4> HIDE DEF I
      <4> QED BY <2>3, <2>4
    <3>3. level[n] = LET sub == SelectInSeq(dirs(n), LAMBDA m : below[m] # NoRpm)
                     IN IF own(n) # NoRpm \/ sub = 0 THEN own(n) ELSE below[dirs(n)[sub]]
      BY DEF ScanLevel
    <3> HIDE DEF I, level, own, dirs
    <3> QED BY <3>1, <3>2, <3>3
  <2> HIDE DEF I, level, own, dirs, rpms
  <2>7. CASE own(n) # NoRpm \/ I(n) = {}
    BY <2>1, <2>5, <2>6, <2>7
  <2>8. CASE own(n) = NoRpm /\ I(n) # {}
    <3>1. level[n] = below[dirs(n)[Min(I(n))]]
      BY <2>6, <2>8
    <3>2. dirs(n)[Min(I(n))] \in Node /\ below[dirs(n)[Min(I(n))]] # NoRpm
      BY <2>3, <2>4, <2>8
    <3> QED BY <2>5, <2>8, <3>1, <3>2
  <2> QED BY <2>7, <2>8
<1>2. level = [n \in Node |-> level[n]]
  BY DEF ScanLevel
<1>3. level \in [Node -> Match(k)]
  <2> HIDE DEF level
  <2> QED BY <1>1, <1>2
<1> QED BY <1>1, <1>3

\* _scan_dir_for_rpm finds a matching RPM if there is one in reach.
LEMMA ScanIs ==
  ASSUME NEW l, l.site \in Sites, NEW top \in Node
  PROVE  /\ ScanDir(l.site, l.down, Running, top) \in Match(Running)
         /\ ScanDir(l.site, l.down, Running, top) # NoRpm <=> \E n \in Reach(l, top) : Has(l, n)
<1> DEFINE M == [Node -> Match(Running)]
<1> DEFINE base == [n \in Node |-> FirstMatch(Listing(l.site, l.down, n).rpms, Running)]
<1> DEFINE Down(below) == ScanLevel(l.site, l.down, Running, below)
<1> DEFINE F(f) == [d \in 0..Depth |-> IF d = 0 THEN base ELSE Down(f[d - 1])]
<1> DEFINE scan == CHOOSE f : f = F(f)
<1> DEFINE Sub(n) == Elements(Listing(l.site, l.down, n).dirs)
<1>1. base \in M /\ \A n \in Node : base[n] # NoRpm <=> Has(l, n)
  BY ListingTyped, FirstMatchIs DEF Has
<1>2. \A below \in M :
        /\ Down(below) \in M
        /\ \A n \in Node : Down(below)[n] # NoRpm
                             <=> Has(l, n) \/ \E m \in Sub(n) : below[m] # NoRpm
  BY ScanLevelIs DEF Has
<1>3. \A n \in Node : Sub(n) \subseteq Node
  BY ListingTyped DEF Elements
<1>4. scan = F(scan)
  <2> DEFINE one == Down(base)
  <2> DEFINE f == [d \in 0..Depth |-> IF d = 0 THEN base ELSE IF d = 1 THEN one ELSE Down(one)]
  <2>1. \A d \in 0..2 : d # 0 => d - 1 \in 0..2 /\ (d - 1 = 0 <=> d = 1) /\ (d = 1 \/ d - 1 = 1)
    OBVIOUS
  <2>2. f = F(f)
    <3> HIDE DEF base, one, Down
    <3> USE DEF Depth
    <3>1. f[0] = base /\ f[1] = one /\ f[2] = Down(one)
      OBVIOUS
    <3>2. one = Down(base)
      BY DEF one
    <3>3. \A d \in 0..2 : f[d] = F(f)[d]
      <4> HIDE DEF f
      <4>1. \A d \in 0..2 : d = 0 \/ d = 1 \/ d = 2
        OBVIOUS
      <4> QED BY <3>1, <3>2, <4>1
    <3> QED BY <3>3
  <2> HIDE DEF F, f
  <2> QED BY <2>2
<1>5. ScanDir(l.site, l.down, Running, top) = scan[Depth][top]
  BY DEF ScanDir
<1>6. scan[0] = base /\ scan[1] = Down(base) /\ scan[2] = Down(Down(base))
  <2> HIDE DEF base, Down, scan
  <2>1. \A d \in 0..2 : scan[d] = IF d = 0 THEN base ELSE Down(scan[d - 1])
    BY <1>4 DEF Depth
  <2>2. 0 \in 0..2 /\ 1 \in 0..2 /\ 2 \in 0..2 /\ 1 - 1 = 0 /\ 2 - 1 = 1
    OBVIOUS
  <2> QED BY <2>1, <2>2
<1> HIDE DEF base, Down, scan, M, Sub
<1>7. Down(base) \in M /\ Down(Down(base)) \in M
  BY <1>1, <1>2
<1>8. \A n \in Node : Down(base)[n] # NoRpm <=> Has(l, n) \/ \E m \in Sub(n) : Has(l, m)
  BY <1>1, <1>2, <1>3
<1>9. Down(Down(base))[top] # NoRpm
        <=> Has(l, top) \/ \E n \in Sub(top) : Has(l, n) \/ \E m \in Sub(n) : Has(l, m)
  BY <1>2, <1>3, <1>7, <1>8
<1>10. Reach(l, top) = {top} \cup Sub(top) \cup UNION {Sub(n) : n \in Sub(top)}
  BY DEF Reach, Under, Sub
<1>11. ScanDir(l.site, l.down, Running, top) = Down(Down(base))[top]
  BY <1>5, <1>6 DEF Depth
<1> QED BY <1>7, <1>9, <1>10, <1>11 DEF M

LEMMA DatesAreNumbers ==
  ASSUME NEW name \in Name
  PROVE  DateOf(name)[1] \in Nat /\ DateOf(name)[2] \in Nat
  BY DEF DateOf, Name

\* Of any work weeks, one is scanned first.
LEMMA ScannedFirstExists ==
  ASSUME NEW site \in Sites, NEW dirs \in Seq(Node), NEW hint,
         NEW S \in SUBSET (DOMAIN dirs), S # {}
  PROVE  \E i \in S : \A j \in S \ {i} : ScannedFirst(site, dirs, hint, i, j)
<1>1. \A i \in S : /\ i \in Nat
                   /\ DateOf(site.name[dirs[i]])[1] \in Nat
                   /\ DateOf(site.name[dirs[i]])[2] \in Nat
  <2>1. \A i \in S : i \in Nat /\ dirs[i] \in Node
    OBVIOUS
  <2>2. \A i \in S : site.name[dirs[i]] \in Name
    BY <2>1, SepInstallAssumption
  <2> QED BY <2>1, <2>2, DatesAreNumbers
<1>2. \A i, j \in S : i # j => ScannedFirst(site, dirs, hint, i, j)
                                 \/ ScannedFirst(site, dirs, hint, j, i)
  <2> SUFFICES ASSUME NEW i \in S, NEW j \in S, i # j
               PROVE  ScannedFirst(site, dirs, hint, i, j) \/ ScannedFirst(site, dirs, hint, j, i)
    OBVIOUS
  <2> DEFINE d(x) == DateOf(site.name[dirs[x]])
  <2>1. CASE (dirs[i] = hint) # (dirs[j] = hint)
    BY <2>1 DEF ScannedFirst
  <2>2. CASE ~((dirs[i] = hint) # (dirs[j] = hint))
    <3>1. d(i)[1] = d(j)[1] /\ d(i)[2] = d(j)[2] => d(i) = d(j)
      BY DEF DateOf
    <3>2. Later(d(i), d(j)) \/ Later(d(j), d(i)) \/ d(i) = d(j)
      <4> HIDE DEF d
      <4>1. d(i)[1] \in Nat /\ d(i)[2] \in Nat /\ d(j)[1] \in Nat /\ d(j)[2] \in Nat
        BY <1>1 DEF d
      <4> QED BY <3>1, <4>1 DEF Later
    <3>3. i < j \/ j < i
      BY <1>1
    <3> QED BY <2>2, <3>2, <3>3 DEF ScannedFirst
  <2> QED BY <2>1, <2>2
<1>3. \A i, j, k \in S : /\ ScannedFirst(site, dirs, hint, i, j)
                         /\ ScannedFirst(site, dirs, hint, j, k)
                         => ScannedFirst(site, dirs, hint, i, k)
  <2> SUFFICES ASSUME NEW i \in S, NEW j \in S, NEW k \in S,
                      ScannedFirst(site, dirs, hint, i, j), ScannedFirst(site, dirs, hint, j, k)
               PROVE  ScannedFirst(site, dirs, hint, i, k)
    OBVIOUS
  <2> DEFINE d(x) == DateOf(site.name[dirs[x]])
  <2> DEFINE Then(x, y) == Later(d(x), d(y)) \/ (d(x) = d(y) /\ x < y)
  <2>1. Then(i, j) /\ Then(j, k) => Then(i, k)
    <3>1. Later(d(i), d(j)) /\ Later(d(j), d(k)) => Later(d(i), d(k))
      <4> HIDE DEF d
      <4>1. /\ d(i)[1] \in Nat /\ d(i)[2] \in Nat /\ d(j)[1] \in Nat /\ d(j)[2] \in Nat
            /\ d(k)[1] \in Nat /\ d(k)[2] \in Nat
        BY <1>1 DEF d
      <4> QED BY <4>1 DEF Later
    <3>2. i < j /\ j < k => i < k
      BY <1>1
    <3> HIDE DEF d
    <3> QED BY <3>1, <3>2
  <2>2. \A x, y \in {i, j, k} : ScannedFirst(site, dirs, hint, x, y) <=>
          \/ dirs[x] = hint /\ dirs[y] # hint
          \/ (dirs[x] = hint <=> dirs[y] = hint) /\ Then(x, y)
    BY DEF ScannedFirst
  <2> HIDE DEF Then
  <2> QED BY <2>1, <2>2
<1>4. PICK R : \A i, j \in S : <<i, j>> \in R <=> ScannedFirst(site, dirs, hint, i, j)
  <2> WITNESS {ss \in S \X S : ScannedFirst(site, dirs, hint, ss[1], ss[2])}
  <2> QED OBVIOUS
<1>5. IsOrder(R, S)
  BY ONLY <1>2, <1>3, <1>4 DEF IsOrder
<1>7. PICK n \in Nat : DOMAIN dirs = 1..n
  OBVIOUS
<1>8. PICK i \in S : \A j \in S \ {i} : <<i, j>> \in R
  <2>1. n \in Nat
    OBVIOUS
  <2>2. S \in SUBSET (1..n)
    BY <1>7
  <2> QED BY ONLY <1>5, <2>1, <2>2, S # {}, FirstExists
<1>9. \A j \in S \ {i} : ScannedFirst(site, dirs, hint, i, j)
  BY ONLY <1>4, <1>8
<1> QED BY <1>9

\* What find_kernel_devel_rpm_in_artifactory returns.
LEMMA FindIs ==
  ASSUME NEW l, l.site \in Sites
  PROVE  LET found == FindRpm(l.site, l.down, Running, l.hint)
             date(n) == DateOf(l.site.name[n])
         IN /\ found.rpm \in Match(Running)
            /\ found.rpm # NoRpm <=> Has(l, Root) \/ Holding(l) # {}
            /\ found.under # Root =>
                 /\ found.under \in Holding(l)
                 /\ \A v \in Holding(l) \ {found.under} :
                      IF found.under = l.hint THEN TRUE
                      ELSE v # l.hint /\ ~Later(date(v), date(found.under))
<1> DEFINE atRoot == FirstMatch(Listing(l.site, l.down, Root).rpms, Running)
<1> DEFINE dirs == Listing(l.site, l.down, Root).dirs
<1> DEFINE Scan(n) == ScanDir(l.site, l.down, Running, n)
<1> DEFINE S == {i \in DOMAIN dirs : l.site.name[dirs[i]].ww /\ Scan(dirs[i]) # NoRpm}
<1> DEFINE First(i) == \A j \in S \ {i} : ScannedFirst(l.site, dirs, l.hint, i, j)
<1> DEFINE first == CHOOSE i \in S : First(i)
<1> DEFINE found == FindRpm(l.site, l.down, Running, l.hint)
<1> DEFINE date(n) == DateOf(l.site.name[n])
<1>1. atRoot \in Match(Running) /\ (atRoot # NoRpm <=> Has(l, Root))
  BY ListingTyped, FirstMatchIs, KernelDevelAssumption DEF Has
<1>2. dirs \in Seq(Node)
  BY ListingTyped, KernelDevelAssumption
<1>3. \A i \in DOMAIN dirs : dirs[i] \in Node
  <2> HIDE DEF dirs
  <2> QED BY <1>2
<1>4. \A n \in Node : /\ Scan(n) \in Match(Running)
                      /\ Scan(n) # NoRpm <=> \E m \in Reach(l, n) : Has(l, m)
  BY ScanIs
<1>5. Holding(l) = {dirs[i] : i \in S}
  <2>1. Under(l, Root) = {dirs[i] : i \in DOMAIN dirs}
    BY DEF Under, Elements
  <2> HIDE DEF dirs, Scan
  <2> QED BY <1>3, <1>4, <2>1 DEF Holding
<1>6. S # {} => first \in S /\ First(first)
  <2>1. S # {} => \E i \in S : First(i)
    <3> HIDE DEF dirs, Scan
    <3>1. S \in SUBSET (DOMAIN dirs)
      OBVIOUS
    <3> HIDE DEF S
    <3> QED BY <1>2, <3>1, ScannedFirstExists
  <2> HIDE DEF S, First
  <2> QED BY <2>1
<1>7. found = IF atRoot # NoRpm THEN [rpm |-> atRoot, under |-> Root]
              ELSE IF S = {} THEN [rpm |-> NoRpm, under |-> Root]
              ELSE [rpm |-> Scan(dirs[first]), under |-> dirs[first]]
  BY DEF FindRpm
<1>8. S # {} => dirs[first] \in Node /\ Scan(dirs[first]) \in Match(Running)
                /\ Scan(dirs[first]) # NoRpm /\ dirs[first] \in Holding(l)
  <2>1. \A i \in S : i \in DOMAIN dirs /\ Scan(dirs[i]) # NoRpm
    OBVIOUS
  <2> HIDE DEF S, dirs, Scan, first
  <2> QED BY <1>3, <1>4, <1>5, <1>6, <2>1
<1>9. S # {} /\ dirs[first] # l.hint =>
        \A v \in Holding(l) \ {dirs[first]} : v # l.hint /\ ~Later(date(v), date(dirs[first]))
  <2> SUFFICES ASSUME S # {}, dirs[first] # l.hint, NEW v \in Holding(l) \ {dirs[first]}
               PROVE  v # l.hint /\ ~Later(date(v), date(dirs[first]))
    OBVIOUS
  <2>1. PICK j \in S : v = dirs[j]
    <3> HIDE DEF S, dirs, first
    <3> QED BY <1>5
  <2>2. j # first
    <3> HIDE DEF S, dirs, first
    <3> QED BY <2>1
  <2>3. ScannedFirst(l.site, dirs, l.hint, first, j)
    <3> HIDE DEF S, dirs, first
    <3> QED BY <1>6, <2>1, <2>2
  <2>4. v # l.hint /\ (Later(date(dirs[first]), date(v)) \/ date(dirs[first]) = date(v))
    <3> HIDE DEF S, dirs, first
    <3> QED BY <2>1, <2>3 DEF ScannedFirst
  <2>5. \A n \in Node : date(n)[1] \in Nat /\ date(n)[2] \in Nat
    BY DatesAreNumbers, SepInstallAssumption
  <2>6. v \in Node /\ dirs[first] \in Node
    <3>1. \A i \in S : i \in DOMAIN dirs
      OBVIOUS
    <3> HIDE DEF S, dirs, first
    <3> QED BY <1>3, <1>8, <2>1, <3>1
  <2> HIDE DEF S, dirs, first, date
  <2> QED BY <2>4, <2>5, <2>6 DEF Later
<1> SUFFICES /\ found.rpm \in Match(Running)
             /\ found.rpm # NoRpm <=> Has(l, Root) \/ Holding(l) # {}
             /\ found.under # Root =>
                  /\ found.under \in Holding(l)
                  /\ \A v \in Holding(l) \ {found.under} :
                       IF found.under = l.hint THEN TRUE
                       ELSE v # l.hint /\ ~Later(date(v), date(found.under))
  OBVIOUS
<1>10. Holding(l) # {} <=> S # {}
  <2> HIDE DEF S, dirs
  <2> QED BY <1>5
<1>11. NoRpm \in Match(Running)
  BY DEF Match
<1> HIDE DEF S, dirs, first, date, found, atRoot, Scan
<1> QED BY <1>1, <1>7, <1>8, <1>9, <1>10, <1>11

-----------------------------------------------------------------------------
(* setup_kernel_devel.py on its own. *)

\* What is known of its run: its inputs, and that its result is the search's.
LookedUp ==
  lookup # NoLookup =>
    /\ at = "looked"
    /\ lookup.site \in Sites /\ lookup.hint \in Node \cup {NoHint}
    /\ lookup.found = FindRpm(lookup.site, lookup.down, Running, lookup.hint)
    /\ InstalledIsRecognised

LEMMA InitLookedUp == Init => LookedUp
  BY DEF Init, LookedUp

\* The two pairs that stand in a word, when there are two.
LEMMA PairsAre ==
  ASSUME NEW x, x.ver \in Version, x.rel \in Release
  PROVE  /\ [ver |-> x.ver, rel |-> x.rel] \in Pairs(x)
         /\ Bkc[x.rel] # NoBkc => Bkc[x.rel] \in Pairs(x)
<1>1. [ver |-> x.ver, rel |-> x.rel] # NoBkc
  BY KernelDevelAssumption DEF Kernel
<1> QED BY <1>1 DEF Pairs

\* An RPM of the search that is none of the three kinds is one the check knows.
LEMMA TakenIsKnown ==
  ASSUME NEW rpm \in Rpm, Matches(rpm, Running), ~TakenButUnknown(rpm, Running)
  PROVE  Present({rpm}, Running)
<1> DEFINE b == Bkc[Running.rel]
<1>0. /\ Running.ver \in Version /\ Running.rel \in Release
      /\ rpm.ver \in Version /\ rpm.rel \in Release /\ rpm.name \in DevelName
  BY KernelDevelAssumption, SepInstallAssumption DEF Kernel, Matches
<1>1. CASE b # NoBkc /\ \E x \in Pairs(rpm) : StartsWith(x.ver, b.ver)
  <2>1. PICK x \in Pairs(rpm) : StartsWith(x.ver, b.ver)
    BY <1>1
  <2>2. b \in Pairs(Running)
    BY <1>0, <1>1, PairsAre
  <2>3. x.ver = b.ver
    BY <2>1, <2>2 DEF StartsWith, TakenButUnknown, LongerVersion
  <2>4. CASE rpm.name = "kernel-dmr-bkc-devel" /\ rpm.ver = b.ver
    BY <1>0, <1>1, <2>4 DEF Present
  <2>5. CASE StartsWith(x.rel, b.rel)
    BY <1>0, <2>2, <2>3, <2>5 DEF Present
  <2> QED BY <1>1, <2>3, <2>4, <2>5 DEF TakenButUnknown, OtherRelease
<1>2. CASE StartsWith(rpm.rel, Stem[Running.rel])
  <2>1. rpm.ver = Running.ver /\ StartsWith(rpm.rel, Running.rel)
    BY <1>2 DEF TakenButUnknown, SharesStart
  <2>2. /\ [ver |-> rpm.ver, rel |-> rpm.rel] \in Pairs(rpm)
        /\ [ver |-> Running.ver, rel |-> Running.rel] \in Pairs(Running)
    BY <1>0, PairsAre
  <2> QED BY <1>0, <2>1, <2>2 DEF Present
<1> QED BY <1>1, <1>2 DEF Matches

\* So is every package of the repositories.
LEMMA RepositoryIsKnown ==
  ASSUME NEW p \in FromRepository(Running)
  PROVE  Present({p}, Running)
<1>1. CASE /\ Bkc[Running.rel] # NoBkc
           /\ p.name = "kernel-dmr-bkc-devel" /\ p.ver = Bkc[Running.rel].ver
  BY <1>1 DEF Present, DevelName
<1>2. CASE p = [name |-> "kernel-devel", ver |-> Running.ver, rel |-> Running.rel]
  <2>1. Running.ver \in Version /\ Running.rel \in Release
    BY SepInstallAssumption DEF Kernel
  <2>2. p.ver = Running.ver /\ p.rel = Running.rel /\ p.name \in DevelName
    BY <1>2 DEF DevelName
  <2> DEFINE w == [ver |-> Running.ver, rel |-> Running.rel]
  <2>3. w \in Pairs(Running) /\ w \in Pairs(p)
    BY <2>1, <2>2, PairsAre
  <2> QED BY <2>2, <2>3 DEF Present, StartsWith
<1> QED BY <1>1, <1>2 DEF FromRepository

\* A package it reports as installed is one the next run's check finds.
LEMMA InstalledMatches ==
  ASSUME NEW found, found.rpm \in Match(Running),
         NEW o \in Outcomes(devel, Running, Internal, found), o.rc = 0,
         ~(o.via = "artifactory" /\ TakenButUnknown(found.rpm, Running))
  PROVE  Present(o.devel, Running)
<1>0. ASSUME NEW p \in o.devel, Present({p}, Running) PROVE Present(o.devel, Running)
  BY <1>0 DEF Present
<1>1. CASE Present(devel, Running)
  <2>1. o.devel = devel
    BY <1>1 DEF Outcomes
  <2> QED BY <1>1, <2>1
<1>2. CASE ~Present(devel, Running)
  <2>1. \/ /\ found.rpm # NoRpm
           /\ o = [devel |-> devel \cup {found.rpm}, rc |-> 0, via |-> "artifactory"]
        \/ \E p \in FromRepository(Running) :
             o = [devel |-> devel \cup {p}, rc |-> 0, via |-> "repository"]
    BY <1>2 DEF Outcomes
  <2>2. CASE /\ found.rpm # NoRpm
             /\ o = [devel |-> devel \cup {found.rpm}, rc |-> 0, via |-> "artifactory"]
    <3>1. found.rpm \in Rpm /\ Matches(found.rpm, Running)
      BY <2>2 DEF Match
    <3>2. found.rpm \in o.devel /\ ~TakenButUnknown(found.rpm, Running)
      BY <2>2
    <3> QED BY <1>0, <3>1, <3>2, TakenIsKnown
  <2>3. ASSUME NEW p \in FromRepository(Running),
               o = [devel |-> devel \cup {p}, rc |-> 0, via |-> "repository"]
        PROVE  Present(o.devel, Running)
    <3>1. p \in o.devel
      BY <2>3
    <3> QED BY <1>0, <3>1, RepositoryIsKnown
  <2> QED BY <2>1, <2>2, <2>3
<1> QED BY <1>1, <1>2

LEMMA LookUpIs == LookUp => LookedUp'
<1> SUFFICES ASSUME LookUp PROVE LookedUp'
  OBVIOUS
<1>1. PICK site \in Sites, down \in Outages, hint \in Node \cup {NoHint} :
        \E o \in KernelDevelOutcomes(FindRpm(site, down, Running, hint)) :
          /\ devel' = o.devel
          /\ lookup' = [via |-> o.via, rc |-> o.rc, site |-> site, down |-> down,
                        hint |-> hint, found |-> FindRpm(site, down, Running, hint)]
  BY DEF LookUp
<1> DEFINE found == FindRpm(site, down, Running, hint)
<1>2. PICK o \in KernelDevelOutcomes(found) :
        /\ devel' = o.devel
        /\ lookup' = [via |-> o.via, rc |-> o.rc, site |-> site, down |-> down,
                      hint |-> hint, found |-> found]
  BY <1>1
<1>3. o \in Outcomes(devel, Running, Internal, found)
  BY DEF LookUp, KernelDevelOutcomes
<1>4. found.rpm \in Match(Running)
  <2> DEFINE l == [site |-> site, down |-> down, hint |-> hint]
  <2>1. l.site = site /\ l.down = down /\ l.hint = hint
    OBVIOUS
  <2> HIDE DEF l
  <2> QED BY <2>1, FindIs
<1>5. at' = "looked"
  BY DEF LookUp, Go
<1> HIDE DEF found
<1>6. InstalledIsRecognised'
  BY <1>2, <1>3, <1>4, InstalledMatches DEF InstalledIsRecognised
<1> QED BY <1>2, <1>5, <1>6 DEF LookedUp, found

\* Nothing comes after it.
LEMMA LookedUpStays == LookedUp /\ [Next]_vars => LookedUp'
<1> SUFFICES ASSUME LookedUp, [Next]_vars PROVE LookedUp'
  OBVIOUS
<1>1. CASE UNCHANGED vars
  BY <1>1 DEF vars, hostVars, LookedUp, InstalledIsRecognised, NoLookup
<1>2. CASE LookUp
  BY <1>2, LookUpIs
<1>3. CASE lookup = NoLookup /\ UNCHANGED lookup
  BY <1>3 DEF LookedUp
<1>4. Next /\ ~LookUp => at # "looked" /\ UNCHANGED lookup
  <2> USE DEF Go, hostVars
  <2>1. Start \/ Skip \/ Kill \/ EmonLeft => at # "looked" /\ UNCHANGED lookup
    BY DEF Start, Skip, Kill, EmonLeft
  <2>2. InstallBulk \/ InstallOne \/ InstallPerf \/ InstallDocker \/ SetupGitLfs
          => at # "looked" /\ UNCHANGED lookup
    BY DEF InstallBulk, InstallOne, InstallPerf, InstallDocker, SetupGitLfs
  <2>3. InstallConda \/ CondaInstalled \/ CondaPresent \/ EnvExists \/ CreateEnv \/ InstallPip
          => at # "looked" /\ UNCHANGED lookup
    BY DEF InstallConda, CondaInstalled, CondaPresent, EnvExists, CreateEnv, InstallPip
  <2>4. SepStep => at # "looked"
    BY DEF SepStep, CheckDependencies, EnsureKernelDevel, FindInCache, FindStagedCopy,
       BeginDownload, FetchSucceeds, FetchFails, InstallSep, ConfigurePyedp, InstallTmc,
       LoadDrivers, Verify
  <2> QED BY <2>1, <2>2, <2>3, <2>4 DEF Next, SetupStep
<1> QED BY <1>1, <1>2, <1>3, <1>4 DEF LookedUp

LEMMA LookedUpAlways == Spec => []LookedUp
  BY InitLookedUp, LookedUpStays, PTL DEF Spec

\* find_kernel_devel_rpm_in_artifactory finds an RPM exactly when there is a
\* matching one within its reach.
THEOREM SearchIsComplete == Spec => []FoundIfPublished
<1>1. LookedUp => FoundIfPublished
  BY FindIs DEF LookedUp, FoundIfPublished
<1> QED BY <1>1, LookedUpAlways, PTL

\* It takes the RPM from the hinted work week, else from the latest one.
THEOREM LatestIsTaken == Spec => []HintThenLatest
<1>1. LookedUp => HintThenLatest
  <2> SUFFICES ASSUME LookedUp, lookup # NoLookup, lookup.found.under # Root,
                      lookup.found.under # lookup.hint
               PROVE  /\ lookup.hint \notin Holding(lookup)
                      /\ \A v \in Holding(lookup) :
                           LET name(n) == lookup.site.name[n]
                               w == lookup.found.under
                           IN DateRead(name(v)) /\ DateRead(name(w)) =>
                                ~Later(<<name(v).year, name(v).week>>,
                                       <<name(w).year, name(w).week>>)
    BY DEF HintThenLatest
  <2> DEFINE w == lookup.found.under
  <2> DEFINE name(n) == lookup.site.name[n]
  <2>1. lookup.site \in Sites
    BY DEF LookedUp
  <2>2. /\ w \in Holding(lookup)
        /\ \A v \in Holding(lookup) \ {w} :
             v # lookup.hint /\ ~Later(DateOf(name(v)), DateOf(name(w)))
    BY <2>1, FindIs DEF LookedUp
  <2>3. lookup.hint \notin Holding(lookup)
    BY <2>2
  <2>4. Holding(lookup) \subseteq Node
    BY <2>1, ListingTyped, KernelDevelAssumption DEF Holding, Under, Elements
  <2>5. \A n \in Node : DateRead(name(n)) => DateOf(name(n)) = <<name(n).year, name(n).week>>
    <3>1. \A n \in Node : name(n) \in Name /\ (name(n).format = "WW01" => name(n).year = 0)
      BY <2>1, SepInstallAssumption
    <3> HIDE DEF name
    <3> QED BY <3>1 DEF DateRead, DateOf, Name
  <2>6. \A n \in Node : name(n).year \in Nat /\ name(n).week \in Nat
    BY <2>1, SepInstallAssumption DEF Name
  <2>7. ASSUME NEW v \in Holding(lookup), DateRead(name(v)), DateRead(name(w))
        PROVE  ~Later(<<name(v).year, name(v).week>>, <<name(w).year, name(w).week>>)
    <3>1. CASE v = w
      <4> HIDE DEF name
      <4> QED BY <2>2, <2>4, <2>6, <3>1 DEF Later
    <3>2. CASE v # w
      <4> HIDE DEF name
      <4> QED BY <2>2, <2>4, <2>5, <2>7, <3>2
    <3> QED BY <3>1, <3>2
  <2> QED BY <2>3, <2>7
<1> QED BY <1>1, LookedUpAlways, PTL

\* What a run of setup_kernel_devel.py reports as installed its next run
\* recognises, whatever the kernel, the packages and the site: but for the three
\* kinds of RPM from the search that InstalledIsRecognised names.
THEOREM SuccessIsRecognised == Spec => []InstalledIsRecognised
<1>1. LookedUp => InstalledIsRecognised
  BY DEF LookedUp, InstalledIsRecognised
<1> QED BY <1>1, LookedUpAlways, PTL

-----------------------------------------------------------------------------
(* Types. *)

\* Packages stay packages, whatever the search came to.
LEMMA KernelDevelTyped ==
  ASSUME devel \in SUBSET Rpm, NEW site \in Sites, NEW down, NEW hint,
         NEW o \in KernelDevelOutcomes(FindRpm(site, down, Running, hint))
  PROVE  o.devel \in SUBSET Rpm
<1> DEFINE found == FindRpm(site, down, Running, hint)
<1>1. found.rpm \in Rpm \cup {NoRpm}
  <2> DEFINE l == [site |-> site, down |-> down, hint |-> hint]
  <2>1. l.site = site /\ l.down = down /\ l.hint = hint
    OBVIOUS
  <2> HIDE DEF l
  <2> QED BY <2>1, FindIs DEF Match
<1> HIDE DEF found
<1>2. \A x \in Outcomes(devel, Running, Internal, found) : x.devel \in SUBSET Rpm
  BY <1>1 DEF Outcomes, FromRepository
<1>3. \A x \in HeaderOutcomes(devel, Running) : x.devel \in SUBSET Rpm
  <2>1. \A x \in HeaderOutcomes(devel, Running) :
          x.devel = devel \/ \E p \in Rpm : x.devel = devel \cup {p}
    BY DEF HeaderOutcomes
  <2> QED BY <2>1
<1> QED BY <1>2, <1>3 DEF KernelDevelOutcomes, found

LEMMA OuterTyped == TypeOK /\ OuterStep => TypeOK'
<1> SUFFICES ASSUME TypeOK, OuterStep PROVE TypeOK'
  OBVIOUS
<1> USE HostSetupAssumption DEF TypeOK, Fact, Package, Archive
<1>1. CASE Start
  <2>1. runs < MaxRuns /\ runs' = runs + 1
    BY ONLY <1>1 DEF Start
  <2>2. runs \in 0..MaxRuns
    OBVIOUS
  <2>3. runs' \in 0..MaxRuns
    BY ONLY <2>1, <2>2, HostSetupAssumption
  <2>4. from' = "none" /\ UNCHANGED <<have, devel, cache, named, staged, sep, emonRc, env, todo>>
    BY ONLY <1>1 DEF Start
  <2> QED BY <2>3, <2>4
<1>2. CASE Skip \/ Kill \/ EmonLeft
  BY <1>2 DEF Skip, Kill, EmonLeft, sepVars, hostVars
<1>3. CASE InstallBulk
  BY <1>3 DEF InstallBulk, sepVars
<1>4. CASE InstallOne
  BY <1>4 DEF InstallOne, sepVars
<1>5. CASE InstallPerf \/ InstallDocker
  BY <1>5 DEF InstallPerf, InstallDocker, Does, sepVars, hostVars
<1>6. CASE SetupGitLfs
  <2>1. have' \in SUBSET Fact
    BY <1>6 DEF SetupGitLfs, Does
  <2>2. named' \in Resolved(named) \cup {named} /\ staged' \in Resolved(staged) \cup {staged}
    BY <1>6 DEF SetupGitLfs, Resolved
  <2> QED BY <1>6, <2>1, <2>2 DEF SetupGitLfs, Resolved, hostVars
<1>7. CASE InstallConda \/ CondaInstalled \/ CondaPresent \/ EnvExists
  BY <1>7 DEF InstallConda, CondaInstalled, CondaPresent, EnvExists, sepVars, hostVars
<1>8. CASE CreateEnv
  BY <1>8 DEF CreateEnv, sepVars
<1>9. CASE InstallPip
  BY <1>9 DEF InstallPip, Does, sepVars, hostVars
<1>10. CASE LookUp
  <2>1. devel' \in SUBSET Rpm
    BY <1>10, KernelDevelTyped DEF LookUp
  <2> QED BY <1>10, <2>1 DEF LookUp, sepVars
<1> QED BY <1>1, <1>2, <1>3, <1>4, <1>5, <1>6, <1>7, <1>8, <1>9, <1>10 DEF OuterStep

LEMMA SepTyped == TypeOK /\ SepStep /\ UNCHANGED hostVars => TypeOK'
<1> SUFFICES ASSUME TypeOK, SepStep, UNCHANGED hostVars PROVE TypeOK'
  OBVIOUS
<1> USE DEF TypeOK, Fact, Archive, hostVars, Exit
<1>1. CASE CheckDependencies \/ Verify
  BY <1>1 DEF CheckDependencies, Verify
<1>2. CASE EnsureKernelDevel
  <2>1. devel' \in SUBSET Rpm
    BY <1>2, KernelDevelTyped, SepInstallAssumption DEF EnsureKernelDevel, Findable
  <2> QED BY <1>2, <2>1 DEF EnsureKernelDevel, sepVars
<1>3. CASE FindInCache \/ FindStagedCopy \/ BeginDownload \/ FetchSucceeds
  BY <1>3 DEF FindInCache, FindStagedCopy, BeginDownload, FetchSucceeds
<1>4. CASE FetchFails
  BY <1>4 DEF FetchFails
<1>5. CASE InstallSep
  BY <1>5 DEF InstallSep
<1>6. CASE ConfigurePyedp
  BY <1>6 DEF ConfigurePyedp
<1>7. CASE InstallTmc \/ LoadDrivers
  BY <1>7 DEF InstallTmc, LoadDrivers, Does, sepVars
<1> QED BY <1>1, <1>2, <1>3, <1>4, <1>5, <1>6, <1>7 DEF SepStep

\* Every variable of HostSetup keeps to its type.
THEOREM SetupTypeCorrect == Spec => []TypeOK
<1>1. Init => TypeOK
  BY HostSetupAssumption DEF Init, TypeOK, Archive
<1>2. TypeOK /\ [Next]_vars => TypeOK'
  <2>1. TypeOK /\ UNCHANGED vars => TypeOK'
    BY DEF TypeOK, vars, sepVars, hostVars
  <2> QED BY <2>1, OuterTyped, SepTyped DEF Next, SetupStep, OuterStep
<1> QED BY <1>1, <1>2, PTL DEF Spec
=============================================================================
