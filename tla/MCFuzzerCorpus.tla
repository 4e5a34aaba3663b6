-------------------------- MODULE MCFuzzerCorpus --------------------------
(***************************************************************************)
(* Instances of FuzzerCorpus: four units and four slots, of which features *)
(* 0 and 4, and 1 and 5, share one.                                        *)
(***************************************************************************)
EXTENDS FuzzerCorpus

MCUnits == {"a", "b", "c", "d"}
MCSize == [u \in MCUnits |-> CASE u \in {"a", "b"} -> 1 [] u = "c" -> 2 [] u = "d" -> 3]

\* The smaller units a and b can evict c and d together only.
Stable ==
  [u \in MCUnits |-> CASE u = "a" -> {{0, 2}} [] u = "b" -> {{1, 5}} [] u = "c" -> {{1, 2}}
                       [] u = "d" -> {{0, 2, 4}}]

\* Executions of c and d are not always the same.
Unstable ==
  [u \in MCUnits |-> CASE u = "a" -> {{0, 2}} [] u = "b" -> {{1, 5}} [] u = "c" -> {{1}, {1, 2}}
                       [] u = "d" -> {{0, 2, 4}, {}}]
MCTargets == {Stable, Unstable}

MCInitialCorpora == {{}, {"d"}, {"c", "d"}, {"a", "c", "d"}}
MCOtherUnits == {"a"}
AllOptions == [Shrink : BOOLEAN, Benchmark : BOOLEAN, PreferSmall : BOOLEAN]
=============================================================================
