CONSTANTS
  Tuples <- MCTuples
  WriteCap = 8
  ReadCap = 9
  Resubmits = FALSE
  MaxSessions = 4
SPECIFICATION Spec
INVARIANT TornTupleRemoved
CHECK_DEADLOCK FALSE
