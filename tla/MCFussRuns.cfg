SPECIFICATION FRSpec
CONSTANTS
  Runs = {1, 2, 3}
CHECK_DEADLOCK FALSE
INVARIANTS
  FRTypeOK
  RunsIndependent
PROPERTY RunsEnd
