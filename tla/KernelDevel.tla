---------------------------- MODULE KernelDevel ----------------------------
(***************************************************************************)
(* setup/setup_kernel_devel.py: which kernel-devel package is installed    *)
(* for the running kernel.  On an internal system an Artifactory tree is   *)
(* searched: its work-week directories, each two levels deep, first match  *)
(* wins.  A listing that cannot be fetched looks like an empty directory.  *)
(*                                                                         *)
(* The script has no state between runs but the installed packages.        *)
(***************************************************************************)
EXTENDS Naturals, SequencesExt

CONSTANTS
  Version, Release,  \* version and release words of kernels and packages
  LongerThan,        \* <<a, b>>: word a starts with word b
  Stem,              \* the first 15 characters of a release word
  Bkc,               \* the version and release that a BKC release word spells
  NoBkc,             \* ... of a word that spells none
  Rpm,               \* the packages there are
  Node, Root,        \* the directories of the site
  NoRpm, NoHint

\* `uname -r`: 6.14.0-dmr.bkc.6.14.10.5.23 has version 6.14.0, and its release
\* word spells 6.14.10.5 and 23 (parse_dmr_bkc_kernel_ver).
Kernel == [ver : Version, rel : Release]

\* The names that have "kernel" and "devel" in them, and two that have not.
DevelName == {"kernel-dmr-bkc-devel", "kernel-devel", "kernel-debug-devel"}
PackageName == DevelName \cup {"kernel", "linux-headers"}

ASSUME KernelDevelAssumption ==
  /\ Root \in Node /\ NoHint \notin Node
  /\ Bkc \in [Release -> Kernel \cup {NoBkc}] /\ NoBkc \notin Kernel
  /\ Rpm \subseteq [name : PackageName, ver : Version, rel : Release]

Name == [ww : BOOLEAN, year : Nat, week : Nat,
         format : {"2025ww50", "WW2024.01", "WW24_01", "WW202401", "WW2401", "WW01", "none"}]

ASSUME NoRpmAssumption == NoRpm \notin Rpm

StartsWith(a, b) == a = b \/ <<a, b>> \in LongerThan

\* A site: what each directory lists, and the name of each directory.
Listing(site, down, n) ==
  IF n \in down THEN [rpms |-> <<>>, dirs |-> <<>>] ELSE site.listing[n]

\* The version-release pairs that stand in a package's name, or in `uname -r`.
Pairs(x) == {[ver |-> x.ver, rel |-> x.rel], Bkc[x.rel]} \ {NoBkc}

\* rpm_matches_kernel: some kernel devel package with the version of a BKC
\* kernel (strategy A; its looser match subsumes the strict one), or with the
\* version of `uname -r` and the start of its release (C; it subsumes B).
Matches(rpm, k) ==
  /\ rpm.name \in DevelName
  /\ \/ /\ Bkc[k.rel] # NoBkc
        /\ \E x \in Pairs(rpm) : StartsWith(x.ver, Bkc[k.rel].ver)
     \/ /\ \E x \in Pairs(rpm) : StartsWith(x.ver, k.ver)
        /\ StartsWith(rpm.rel, Stem[k.rel])

\* is_kernel_devel_installed_rhel with a bug: only the exact release counts.
PresentExactly(devel, k) ==
  \E p \in devel :
    /\ p.name \in DevelName
    /\ \E x \in Pairs(p), w \in Pairs(k) : x.ver = w.ver /\ StartsWith(x.rel, w.rel)

\* is_kernel_devel_installed_rhel: version and release in any kernel devel
\* package; any release in one that is named kernel-dmr-bkc-devel.
Present(devel, k) ==
  \E p \in devel :
    /\ p.name \in DevelName
    /\ \/ \E x \in Pairs(p), w \in Pairs(k) : x.ver = w.ver /\ StartsWith(x.rel, w.rel)
       \/ /\ Bkc[k.rel] # NoBkc
          /\ p.name = "kernel-dmr-bkc-devel" /\ p.ver = Bkc[k.rel].ver

-----------------------------------------------------------------------------
(* The search. *)

\* sort_ww_dirs: the date read from a name.  The docstring (356) lists WW2401
\* as year 2024, week 1; no pattern matches four digits, so it reads as (0, 0).
DateOf(name) ==
  CASE name.format \in {"2025ww50", "WW2024.01", "WW24_01", "WW202401"} ->
         <<name.year, name.week>>
    [] name.format = "WW01" -> <<0, name.week>>
    [] OTHER -> <<0, 0>>

Later(d, e) == d[1] > e[1] \/ (d[1] = e[1] /\ d[2] > e[2])

\* ScannedFirst with a bug: the oldest work week first.
OldestFirst(site, dirs, hint, i, j) ==
  LET date(x) == DateOf(site.name[dirs[x]]) IN
  IF (dirs[i] = hint) # (dirs[j] = hint) THEN dirs[i] = hint
  ELSE Later(date(j), date(i)) \/ (date(i) = date(j) /\ i < j)

\* Of two work weeks listed at i and j: the hint of /etc/motd first, then the
\* later one; sorted() leaves those of one date as they are listed.
ScannedFirst(site, dirs, hint, i, j) ==
  LET date(x) == DateOf(site.name[dirs[x]]) IN
  IF (dirs[i] = hint) # (dirs[j] = hint) THEN dirs[i] = hint
  ELSE Later(date(i), date(j)) \/ (date(i) = date(j) /\ i < j)

\* Depth with a bug: off by one.
OneLevel == 1

Depth == 2

\* The first matching RPM of a listing.
FirstMatch(rpms, k) ==
  LET i == SelectInSeq(rpms, LAMBDA r : Matches(r, k)) IN
  IF i = 0 THEN NoRpm ELSE rpms[i]

\* _scan_dir_for_rpm, given what it finds one level further down: the RPMs of
\* a directory first, then each subdirectory.
ScanLevel(site, down, k, below) ==
  [n \in Node |->
     LET here == Listing(site, down, n)
         own == FirstMatch(here.rpms, k)
         sub == SelectInSeq(here.dirs, LAMBDA m : below[m] # NoRpm)
     IN IF own # NoRpm \/ sub = 0 THEN own ELSE below[here.dirs[sub]]]

ScanDir(site, down, k, top) ==
  LET scan[d \in 0..Depth] ==
        IF d = 0 THEN [n \in Node |-> FirstMatch(Listing(site, down, n).rpms, k)]
        ELSE ScanLevel(site, down, k, scan[d - 1])
  IN scan[Depth][top]

\* find_kernel_devel_rpm_in_artifactory: the RPM and the directory it is under.
FindRpm(site, down, k, hint) ==
  LET atRoot == FirstMatch(Listing(site, down, Root).rpms, k)
      dirs == Listing(site, down, Root).dirs
      holding == {i \in DOMAIN dirs : /\ site.name[dirs[i]].ww
                                      /\ ScanDir(site, down, k, dirs[i]) # NoRpm}
      first == CHOOSE i \in holding :
                 \A j \in holding \ {i} : ScannedFirst(site, dirs, hint, i, j)
  IN IF atRoot # NoRpm THEN [rpm |-> atRoot, under |-> Root]
     ELSE IF holding = {} THEN [rpm |-> NoRpm, under |-> Root]
     ELSE [rpm |-> ScanDir(site, down, k, dirs[first]), under |-> dirs[first]]

-----------------------------------------------------------------------------
(* main. *)

\* install_via_dnf_yum: for BKC the BKC package by version and release, then by
\* version alone; then kernel-devel of `uname -r`.
FromRepository(k) ==
  {p \in Rpm :
     \/ /\ Bkc[k.rel] # NoBkc
        /\ p.name = "kernel-dmr-bkc-devel" /\ p.ver = Bkc[k.rel].ver
     \/ p = [name |-> "kernel-devel", ver |-> k.ver, rel |-> k.rel]}

\* What a run of the script may come to on an RHEL-like system: the packages
\* installed afterwards, its exit code and where the package is from.
Outcomes(devel, k, internal, found) ==
  LET Installed(rpms, via) ==
        {[devel |-> devel \cup {p}, rc |-> 0, via |-> via] : p \in rpms}
  IN IF Present(devel, k) THEN {[devel |-> devel, rc |-> 0, via |-> "present"]}
     ELSE Installed(IF internal THEN {found.rpm} \ {NoRpm} ELSE {}, "artifactory")
          \cup Installed(FromRepository(k), "repository")
          \cup {[devel |-> devel, rc |-> 1, via |-> "failed"]}

\* On a Debian-like system: linux-headers-<uname -r>, through apt-get.
HeaderOutcomes(devel, k) ==
  LET headers == [name |-> "linux-headers", ver |-> k.ver, rel |-> k.rel] IN
  IF headers \in devel THEN {[devel |-> devel, rc |-> 0, via |-> "present"]}
  ELSE {[devel |-> devel \cup {p}, rc |-> 0, via |-> "repository"] : p \in Rpm \cap {headers}}
       \cup {[devel |-> devel, rc |-> 1, via |-> "failed"]}
=============================================================================
