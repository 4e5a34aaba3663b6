SPECIFICATION SCIFairSpec
CONSTANTS
  Functions <- MCFunctionNames
  IR <- MCIR
  Modules <- MCModules
INVARIANTS
  SCITypeOK
  RootsAttributed
  ClosureComplete
  OperandsAttributed
  BranchesGuardOnlyChecks
PROPERTY
  Terminates
