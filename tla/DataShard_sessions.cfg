CONSTANTS
  Tuples <- MCTuples
  WriteCap = 8
  ReadCap = 9
  Resubmits = FALSE
  MaxSessions = 5
SPECIFICATION Spec
INVARIANTS TypeOK FlushedReadable FlushedFound KeyStoredOnce CountCoversRead
PROPERTY FlushedUntouched
CHECK_DEADLOCK FALSE
