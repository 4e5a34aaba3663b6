---------------------------- MODULE CostThreshold ----------------------------
(***************************************************************************)
(* The computation of the cost threshold from the costs of all checks:     *)
(*   "sanity", "cost"  compute_cost_threshold in asap-clang.rb, for a      *)
(*                     sanity level or a cost level;                       *)
(*   "fprec"           get_threshold_for_costlevel in                      *)
(*                     alltimecounter_statistics.py, which walks the same  *)
(*                     list from its other end.                            *)
(* Checks that cost the threshold or more are removed.                     *)
(*                                                                         *)
(* A level is the fraction level / Den; nothing keeps a user from giving   *)
(* one above 1.  The costs are sorted by decreasing cost.  Fractions are   *)
(* exact here; the code's are floating point.                              *)
(***************************************************************************)
EXTENDS Thresholds

CONSTANTS
  CostLists,  \* the lists of costs
  Levels      \* the levels, in units of 1 / Den

ASSUME CostListsSorted ==
  /\ Levels \subseteq Nat
  /\ CostLists \subseteq Seq(Nat)
  /\ \A s \in CostLists : \A j, k \in 1..Len(s) : j <= k => s[j] >= s[k]

-----------------------------------------------------------------------------
VARIABLES
  mode, level,
  costs,
  pc,
  i,               \* the loop counter
  cost_threshold,
  sum              \* removed_cost, or preserved_cost

ctVars == <<mode, level, costs, pc, i, cost_threshold, sum>>

CTInit ==
  /\ mode \in Modes
  /\ level \in Levels
  /\ costs \in CostLists
  /\ pc = "read"
  /\ i = 0 /\ sum = 0
  /\ cost_threshold = 0

\* asap-clang: "no costs found", "all costs are zero".
Raises == mode # "fprec" /\ TotalCost(costs) = 0

Raise ==
  /\ pc = "read"
  /\ Raises
  /\ pc' = "raised"
  /\ UNCHANGED <<mode, level, costs, i, cost_threshold, sum>>

\* Mutant: the most expensive check is counted at the beginning.
Begin_CountsFirst ==
  /\ pc = "read"
  /\ ~ Raises
  /\ pc' = "loop"
  /\ i' = IF mode = "fprec" THEN Len(costs) ELSE 1
  /\ cost_threshold' = IF mode = "fprec" THEN 0 ELSE costs[1] + 1
  /\ sum' = IF mode = "fprec" THEN 0 ELSE costs[1]
  /\ UNCHANGED <<mode, level, costs>>

\* In asap-clang nothing is removed until a lower threshold is found; the other
\* script has no threshold yet.
Begin ==
  /\ pc = "read"
  /\ ~ Raises
  /\ pc' = "loop"
  /\ i' = IF mode = "fprec" THEN Len(costs) ELSE 1
  /\ cost_threshold' = IF mode = "fprec" THEN 0 ELSE costs[1] + 1
  /\ UNCHANGED <<mode, level, costs, sum>>

\* Mutant: the loop does not look at the next check.
SameAsNext_Never == FALSE

\* The next check costs the same, and would be removed too.
SameAsNext == i < Len(costs) /\ costs[i + 1] = costs[i]

\* The number of checks left if those costing costs[i] or more are removed.
Left == Len(costs) - i

SanityStep ==
  /\ pc = "loop" /\ mode = "sanity"
  /\ i <= Len(costs)
  /\ cost_threshold' = IF ~ SameAsNext /\ Den * Left >= Len(costs) * level
                       THEN costs[i] ELSE cost_threshold
  /\ i' = i + 1
  /\ UNCHANGED <<mode, level, costs, pc, sum>>

BreaksAtZero == ~ SameAsNext /\ costs[i] = 0

CostStep ==
  /\ pc = "loop" /\ mode = "cost"
  /\ i <= Len(costs)
  /\ sum' = sum + costs[i]
  /\ pc' = IF BreaksAtZero THEN "done" ELSE pc
  /\ cost_threshold' =
       IF ~ SameAsNext /\ ~ BreaksAtZero
            /\ Den * (TotalCost(costs) - sum') >= TotalCost(costs) * level
       THEN costs[i] ELSE cost_threshold
  /\ i' = i + 1
  /\ UNCHANGED <<mode, level, costs>>

\* The end of the two loops of compute_cost_threshold.
LoopEnd ==
  /\ pc = "loop" /\ mode # "fprec"
  /\ i > Len(costs)
  /\ pc' = "done"
  /\ UNCHANGED <<mode, level, costs, i, cost_threshold, sum>>

\* preserved_cost >= target_cost
ReachesTarget(preserved) == Den * preserved >= level * TotalCost(costs)

\* get_threshold_for_costlevel: the checks are added up from the cheapest one.
FprecStep ==
  /\ pc = "loop" /\ mode = "fprec"
  /\ i >= 1
  /\ sum' = sum + costs[i]
  /\ i' = i - 1
  /\ IF ReachesTarget(sum')
     THEN pc' = "done" /\ cost_threshold' = costs[i] + 1
     ELSE UNCHANGED <<pc, cost_threshold>>
  /\ UNCHANGED <<mode, level, costs>>

\* assert False, "No threshold found".
FprecFails ==
  /\ pc = "loop" /\ mode = "fprec"
  /\ i = 0
  /\ pc' = "aborted"
  /\ UNCHANGED <<mode, level, costs, i, cost_threshold, sum>>

CTEnded == pc \in {"raised", "done", "aborted"} /\ UNCHANGED ctVars

CTNext ==
  \/ Raise \/ Begin \/ SanityStep \/ CostStep \/ LoopEnd \/ FprecStep \/ FprecFails \/ CTEnded

CTSpec == CTInit /\ [][CTNext]_ctVars

-----------------------------------------------------------------------------
CTTypeOK ==
  /\ mode \in Modes /\ level \in Levels /\ costs \in CostLists
  /\ pc \in {"read", "loop", "done", "raised", "aborted"}
  /\ i \in 0..(Len(costs) + 1)
  /\ cost_threshold \in Nat
  /\ sum \in 0..TotalCost(costs)

\* What both scripts promise, although checks of equal cost are removed together:
\* removing all checks that cost the threshold or more leaves the fraction that was
\* asked for; a lower threshold would leave too little (but for the cheapest check,
\* which get_threshold_for_costlevel keeps even for level 0); with a cost level,
\* checks that were not executed are kept ("We never want to remove checks with cost
\* zero"); and as long as there is a cost, "No threshold found" is not reached.
ThresholdIsRight ==
  level <= Den =>
    /\ pc = "done" => Honours(mode, costs, level, cost_threshold)
    /\ pc = "done" /\ (mode = "fprec" => level > 0) => IsLowest(mode, costs, level, cost_threshold)
    /\ pc = "done" /\ mode # "sanity" =>
         \A k \in DOMAIN costs : costs[k] = 0 => k \in Kept(costs, cost_threshold)
    /\ costs # <<>> => pc # "aborted"

=============================================================================
