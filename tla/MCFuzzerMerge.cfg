SPECIFICATION Spec
CONSTANTS
  Corpora <- MergeCorpora
  Features <- MCFeatures
INVARIANTS
  MergeTypeOK
  ControlFileParses
  EveryAttemptProgresses
  OnlyCrashersLost
  NoFeatureLost
PROPERTIES
  MergeEnds
  ImplementsMerge
