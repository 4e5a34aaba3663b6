SPECIFICATION CTSpec
CONSTANTS
  CostLists <- MCCostLists
  Levels <- MCLevels
  Den = 4
INVARIANTS
  CTTypeOK
  ThresholdIsRight
