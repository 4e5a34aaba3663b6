SPECIFICATION AsapSpec
CONSTANTS
  Functions <- MCFunctionNames
  IR <- MCIR
  Modules <- MCModules
  Costs = {0, 1, 2}
  CostThreshold = 1
INVARIANTS
  AsapTypeOK
  KeptChecksIntact
  OnlyCheckLoadsRelaxed
  NoSecondErase
