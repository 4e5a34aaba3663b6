---------------------- MODULE MCSanityCheckInstructions ----------------------
(* Model of the pass on all acyclic four-block functions of MCFunctions and  *)
(* on some larger ones, and on modules of two functions.                     *)
EXTENDS SanityCheckInstructions, MCFunctions

\* TLC evaluates these once.
AllFunctions == Family(4) \cup {Figure, ChainedChecks, BothSidesFail, LoopFn, NonDominating, CoverageAndReport, Second}
AllCode      == [f \in AllFunctions |-> Code(f)]
AllModules   == {<<f>> : f \in AllFunctions} \cup {<<Figure, Second>>, <<Second, LoopFn>>}

MCFunctionNames == AllFunctions
MCIR            == AllCode
MCModules       == AllModules
=============================================================================
