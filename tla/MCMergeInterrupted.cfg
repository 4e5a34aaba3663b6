SPECIFICATION Spec
CONSTANTS
  Corpora <- ShortLines
  Features <- MCFeatures
INVARIANTS
  UntilAllInputsProcessed
