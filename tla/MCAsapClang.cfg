SPECIFICATION ACSpec
CONSTANTS
  o1 = o1
  o2 = o2
  Objects <- MCObjects
  Levels <- MCLevels
  Den = 2
  MaxVersion = 1
  MaxHits = 2
INVARIANTS
  ACTypeOK
  ProfileMatchesBitcode
  CostsWhole
  LevelKept
