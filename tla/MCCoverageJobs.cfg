SPECIFICATION CCSpec
CONSTANTS
  Programs <- PlainOnly
  j1 = j1
  j2 = j2
  Jobs <- MCJobs
  MaxHits = 2
  CostLevels = {1}
  Den = 2
SYMMETRY Symmetric
INVARIANT ExpensiveChecksRemoved
