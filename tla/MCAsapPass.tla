----------------------------- MODULE MCAsapPass -----------------------------
(* Removal on small functions, on the figure of findInstructions, and on two  *)
(* functions in a row.                                                        *)
EXTENDS AsapPass, MCFunctions

AllFunctions == Family(3) \cup {Figure, BothSidesFail, TwoChecks, CoverageAndReport, NonDominating, Second}
AllCode      == [f \in AllFunctions |-> Code(f)]
AllModules   == {<<f>> : f \in AllFunctions} \cup {<<NonDominating, Second>>}

MCFunctionNames == AllFunctions
MCIR            == AllCode
MCModules       == AllModules
=============================================================================
