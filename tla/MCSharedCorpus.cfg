SPECIFICATION SharedSpec
CONSTANTS
  w1 = w1
  w2 = w2
  Workers <- MCWorkers
  NumJobs = 2
  Units <- FewUnits
  Size <- FewSize
  Features <- MCFeatures
  Coverage <- FewCoverage
  Partials <- FewPartials
  NewLine = "i"
  Zeros = "z"
  ShrinkOptions = {TRUE, FALSE}
  InitialFiles <- OnlyI
  MaxFinds = 1
  MaxTime = 3
SYMMETRY Symmetric
CHECK_DEADLOCK FALSE
INVARIANTS
  SharedTypeOK
  ReloadMissesNothingOld
  SmallestKept
