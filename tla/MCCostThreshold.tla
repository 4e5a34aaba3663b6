--------------------------- MODULE MCCostThreshold ---------------------------
(* All lists of up to four costs, with ties and zeros, and all quarters as   *)
(* levels, one of them above 1.                                              *)
EXTENDS CostThreshold

MCCostLists ==
  {s \in UNION {[1..n -> 0..3] : n \in 0..4} : \A j, k \in 1..Len(s) : j <= k => s[j] >= s[k]}
MCLevels == 0..5
=============================================================================
