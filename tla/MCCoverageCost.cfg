SPECIFICATION CCSpec
CONSTANTS
  Programs <- MCPrograms
  j1 = j1
  j2 = j2
  Jobs <- MCJobs
  MaxHits = 3
  CostLevels <- MCLevels
  Den = 2
SYMMETRY Symmetric
INVARIANTS
  CCTypeOK
  CostsFromSameLocation
  RemovedAreExpensive
