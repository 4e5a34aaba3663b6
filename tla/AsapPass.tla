------------------------------ MODULE AsapPass ------------------------------
(***************************************************************************)
(* Removal of expensive checks: AsapPassBase.cpp, and the passes of        *)
(* AsapPass.cpp that combine it with one of the cost analyses.             *)
(*                                                                         *)
(* For every function the pass manager runs SanityCheckInstructions, then  *)
(* a cost analysis, then removeExpensiveChecks.  The cost analyses         *)
(* (sampled, gcov, coverage) give every root a cost; the coverage analysis *)
(* gives none at all if it finds no index offset for the function.  Which  *)
(* cost a root gets is the business of other modules: here it is any       *)
(* member of Costs.                                                        *)
(***************************************************************************)
EXTENDS SanityCheckInstructions

CONSTANTS Costs,         \* the possible costs of a check
          CostThreshold  \* -asap-cost-threshold

ASSUME CostsAreNaturals == Costs \subseteq Nat /\ CostThreshold \in Nat

VARIABLES
  CheckCosts,  \* the costs that the last run of the cost analysis computed
  unvisited,   \* roots that the removal loop has not reached
  erased,      \* instructions of the function that have been deleted
  nonAtomic    \* loads whose atomic ordering has been removed

asapVars == <<CheckCosts, unvisited, erased, nonAtomic>>
vars == <<sciVars, asapVars>>

-----------------------------------------------------------------------------
AsapInit ==
  /\ SCIInit
  /\ CheckCosts = <<>> /\ unvisited = {}
  /\ erased = {} /\ nonAtomic = {}

\* The next function.  The cost analysis has not run on it yet: CheckCosts still
\* holds the checks of the function before, most of them deleted by now.
VisitFunction ==
  /\ RunOnFunction
  /\ erased' = {} /\ nonAtomic' = {}
  /\ UNCHANGED <<CheckCosts, unvisited>>

Analyze == FindInstructions /\ UNCHANGED asapVars

\* The cost analysis: CheckCosts holds all roots, by decreasing cost.
ComputeCosts ==
  /\ phase = "found"
  /\ phase' = "remove"
  /\ CheckCosts' \in [SCRoots -> Costs]
  /\ unvisited' = SCRoots
  /\ UNCHANGED <<todo, F, Worklist, BlockWorklist, CBI, SCInstructions, SCRoots, IBS,
                 erased, nonAtomic>>

\* Mutant: the analysis gives up before it has cleared CheckCosts, and the
\* removal loop goes over the checks of the previous function.
NoCosts_NotCleared ==
  /\ phase = "found"
  /\ phase' = "remove"
  /\ unvisited' = DOMAIN CheckCosts
  /\ UNCHANGED <<todo, F, Worklist, BlockWorklist, CBI, SCInstructions, SCRoots, IBS,
                 CheckCosts, erased, nonAtomic>>

\* SanityCheckCoverageCost found no offset: it has cleared CheckCosts and gives
\* up, so removeExpensiveChecks has no check to go over.
NoCosts ==
  /\ phase = "found"
  /\ phase' = "remove"
  /\ CheckCosts' = <<>>
  /\ unvisited' = {}
  /\ UNCHANGED <<todo, F, Worklist, BlockWorklist, CBI, SCInstructions, SCRoots, IBS,
                 erased, nonAtomic>>

\* The next check in order of decreasing cost; std::sort leaves the order of
\* checks with equal costs open.
IsNext(c) == c \in unvisited /\ \A d \in unvisited : CheckCosts[d] <= CheckCosts[c]

\* Mutant: the inline assembly of every check.
AsmsOf_All(c) == {i \in SCInstructions : F.kind[i] = "asm"}

AsmsOf(c)  == {i \in IBS[c] : F.kind[i] = "asm"}
LoadsOf(c) == {i \in IBS[c] : F.kind[i] = "load"}

\* optimizeCheckAway: erase the inline assembly of the check, drop the atomic
\* ordering of its loads, erase the root.  The test for loads comes after the
\* deletion, on the same pointer.
RemoveCheck(c) ==
  /\ phase = "remove"
  /\ IsNext(c)
  /\ CheckCosts[c] >= CostThreshold
  /\ erased' = erased \cup AsmsOf(c) \cup {c}
  /\ nonAtomic' = nonAtomic \cup LoadsOf(c)
  /\ unvisited' = unvisited \ {c}
  /\ UNCHANGED <<sciVars, CheckCosts>>

KeepCheck(c) ==
  /\ phase = "remove"
  /\ IsNext(c)
  /\ CheckCosts[c] < CostThreshold
  /\ unvisited' = unvisited \ {c}
  /\ UNCHANGED <<sciVars, CheckCosts, erased, nonAtomic>>

EndFunction ==
  /\ phase = "remove"
  /\ unvisited = {}
  /\ phase' = "idle"
  /\ UNCHANGED <<todo, F, Worklist, BlockWorklist, CBI, SCInstructions, SCRoots, IBS, asapVars>>

Finished == ModuleDone /\ UNCHANGED asapVars

AsapNext ==
  \/ VisitFunction
  \/ Analyze
  \/ ComputeCosts
  \/ NoCosts
  \/ \E c \in unvisited : RemoveCheck(c) \/ KeepCheck(c)
  \/ EndFunction
  \/ Finished

AsapSpec == AsapInit /\ [][AsapNext]_vars

-----------------------------------------------------------------------------
AsapTypeOK ==
  /\ SCITypeOK
  /\ unvisited \subseteq SCRoots
  /\ CheckCosts \in [DOMAIN CheckCosts -> Costs]
  /\ phase \in {"remove", "idle"} => DOMAIN CheckCosts \in {SCRoots, {}}
  /\ erased \subseteq F.instrs
  /\ nonAtomic \subseteq F.instrs

\* A check costs too much for the threshold.
TooExpensive(c) == c \in DOMAIN CheckCosts /\ CheckCosts[c] >= CostThreshold

\* Removal keeps to the checks it was asked to remove: what is deleted is an
\* expensive root, or inline assembly right behind one, never a part of a check
\* that is kept.
KeptChecksIntact ==
  \A i \in erased :
    \/ TooExpensive(i)
    \/ F.kind[i] = "asm" /\ \E c \in InstrumentationInBB(F, i) : TooExpensive(c)

\* Only loads that no ordinary instruction uses lose their atomic ordering
\* ("the load is only used by sanity checks").
OnlyCheckLoadsRelaxed ==
  \A l \in nonAtomic : Users(F, l) \subseteq SCInstructions

\* No instruction is deleted twice: an instruction that a check owns, and that
\* was deleted before the check's turn, would be reached again.
NoSecondErase ==
  \A c \in unvisited : TooExpensive(c) => c \notin erased /\ IBS[c] \cap erased = {}

=============================================================================
