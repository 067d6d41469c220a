---------------------------- MODULE MCHostSetup ----------------------------
(***************************************************************************)
(* HostSetup for TLC: the BKC kernel 6.14.0-dmr.bkc.6.14.10.5.23, and      *)
(* sites with two work weeks, each with at most one RPM, at any level down *)
(* to one the search does not reach.                                       *)
(***************************************************************************)
EXTENDS HostSetup

This == "dmr.bkc.6.14.10.5.23"
Near == "dmr.bkc.6.14.10.6.23"
Start15 == "dmr.bkc.6.14.10"

MCVersion == {"6.14.0", "6.14.10.5", "6.14.10.50", "6.14.10.6"}
MCRelease == {"23", "24", This, Near, Start15}
MCLongerThan == {<<"6.14.10.50", "6.14.10.5">>, <<This, Start15>>, <<Near, Start15>>}
MCStem == [r \in MCRelease |-> IF r \in {This, Near} THEN Start15 ELSE r]
MCBkc == [r \in MCRelease |-> CASE r = This -> [ver |-> "6.14.10.5", rel |-> "23"]
                               [] r = Near -> [ver |-> "6.14.10.6", rel |-> "23"]
                               [] OTHER -> NoBkc]
MCRunning == [ver |-> "6.14.0", rel |-> This]
MCNode == {"root", "w1", "a1", "x1", "y1", "w2", "a2", "x2"}
MCOutages == {{}, {"w1"}, {"a2"}, {"root"}}

RpmOf(n, v, r) == [name |-> n, ver |-> v, rel |-> r]
Exact == RpmOf("kernel-dmr-bkc-devel", "6.14.10.5", "23")
Later24 == RpmOf("kernel-dmr-bkc-devel", "6.14.10.5", "24")
Kinds == {Exact, Later24,
          RpmOf("kernel-debug-devel", "6.14.10.5", "24"),   \* OtherRelease
          RpmOf("kernel-devel", "6.14.0", Near),            \* SharesStart
          RpmOf("kernel-dmr-bkc-devel", "6.14.10.50", "23"), \* LongerVersion
          RpmOf("kernel-dmr-bkc-devel", "6.14.10.6", "23"), \* another version
          RpmOf("kernel", "6.14.10.5", "23")}               \* not a devel package
MCRpm == Kinds \cup {RpmOf("kernel-devel", "6.14.0", This), RpmOf("linux-headers", "6.14.0", This)}
Placed(nodes, kinds) == (nodes \X kinds) \cup {<<"nowhere", Exact>>}

Chain == [root |-> <<"w1", "w2">>, w1 |-> <<"a1">>, a1 |-> <<"x1">>, x1 |-> <<"y1">>,
          y1 |-> <<>>, w2 |-> <<"a2">>, a2 |-> <<"x2">>, x2 |-> <<>>]
Named(ww, format, year, week) == [ww |-> ww, format |-> format, year |-> year, week |-> week]
Names(first, second) ==
  [n \in MCNode |-> IF n = "w1" THEN first ELSE IF n = "w2" THEN second
                    ELSE Named(FALSE, "none", 0, 0)]
MCNames == {
  Names(Named(TRUE, "2025ww50", 2025, 50), Named(TRUE, "WW24_01", 2024, 1)),
  Names(Named(TRUE, "WW2024.01", 2024, 1), Named(TRUE, "2025ww50", 2025, 50)),
  Names(Named(TRUE, "WW2401", 2024, 1), Named(TRUE, "WW01", 0, 1))}

RpmsAt(placed, n) ==
  LET here == SelectSeq(placed, LAMBDA x : x[1] = n) IN [i \in DOMAIN here |-> here[i][2]]

MCSites ==
  {[name |-> names,
    listing |-> [n \in MCNode |->
      [rpms |-> RpmsAt(<<p, q, r>>, n), dirs |-> Chain[n]]]] :
   names \in MCNames, p \in Placed({"w1", "a1", "x1", "y1"}, Kinds),
   q \in Placed({"w2", "x2"}, {Exact, Later24}),
   r \in Placed({"root"}, {Exact})}

\* In a set-up run the one RPM published is exact, or one that is not recognised.
MCSetupSites ==
  {s \in MCSites :
     /\ \A n \in MCNode \ {"w1"} : s.listing[n].rpms = <<>>
     /\ \A i \in DOMAIN s.listing["w1"].rpms :
          s.listing["w1"].rpms[i] \in {Exact, RpmOf("kernel-debug-devel", "6.14.10.5", "24")}}
=============================================================================
