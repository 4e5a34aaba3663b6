--------------------------- MODULE MCSharedCorpus ---------------------------
(***************************************************************************)
(* Two workers on one directory.  "m" and "n" have the same size and share *)
(* a feature; "s" has the other feature of each and is smaller, and the    *)
(* beginning of "m" is the unit "s".                                       *)
(***************************************************************************)
EXTENDS SharedCorpus, TLC

CONSTANTS w1, w2

MCWorkers  == {w1, w2}
Symmetric  == Permutations(MCWorkers)
MCUnits    == {"i", "m", "n", "s", "z"}
MCSize     == "i" :> 1 @@ "m" :> 2 @@ "n" :> 2 @@ "s" :> 1 @@ "z" :> 3
MCFeatures == {0, 1, 2, 3}
MCCoverage == "i" :> {0} @@ "m" :> {1, 2} @@ "n" :> {1, 3} @@ "s" :> {2, 3} @@ "z" :> {1}
NoPartials == [u \in MCUnits |-> {}]
MCPartials == [NoPartials EXCEPT !["m"] = {"s"}]
OnlyI      == {{"i"}}

\* Without "n", for longer runs.
FewUnits    == MCUnits \ {"n"}
FewSize     == Restrict(MCSize, FewUnits)
FewCoverage == Restrict(MCCoverage, FewUnits)
FewPartials == Restrict(MCPartials, FewUnits)

=============================================================================
