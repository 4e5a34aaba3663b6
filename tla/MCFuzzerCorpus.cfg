SPECIFICATION Spec
CONSTANTS
  Units <- MCUnits
  Size <- MCSize
  Targets <- MCTargets
  kFeatureSetSize = 4
  NewLine = "b"
  InitialCorpora <- MCInitialCorpora
  OtherUnits <- MCOtherUnits
  OptionSets <- AllOptions
  MutateDepth = 2
  MaxNumberOfRuns = 6
  ReloadBound = 4
INVARIANTS
  CorpusTypeOK
  FeatureCountsExact
  NoAssertionFails
  WeightsCurrent
  OwnersAreSmallest
  FeaturesOnDisk
  StopLosesOneUnit
PROPERTIES
  CorpusOnlyShrinks
