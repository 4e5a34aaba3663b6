SPECIFICATION SharedSpec
CONSTANTS
  w1 = w1
  w2 = w2
  Workers <- MCWorkers
  NumJobs = 2
  Units <- MCUnits
  Size <- MCSize
  Features <- MCFeatures
  Coverage <- MCCoverage
  Partials <- NoPartials
  NewLine = "i"
  Zeros = "z"
  ShrinkOptions = {TRUE}
  InitialFiles <- OnlyI
  MaxFinds = 3
  MaxTime = 1
SYMMETRY Symmetric
CHECK_DEADLOCK FALSE
INVARIANT FoundIsAvailable
