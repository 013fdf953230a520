CONSTANTS
  NParsers = 2
  NRecords = 5
  BatchSize = 2
  RandomSkip = 3
  TrainSteps = 8
  Unset = Unset
SPECIFICATION FairSpec
INVARIANT StepReadsItsBatch
PROPERTY EveryStepFed
CHECK_DEADLOCK FALSE
