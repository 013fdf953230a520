CONSTANTS
  InitialValue = InitialValue  Nil = Nil
  NGroups = 2
  NServers = 2
  NParams = 2
  BackwardOrder <- MCBackward2
  FirstStep = 0
  TrainSteps = 2
  Passes <- MCPasses
  Hogwild = FALSE
  BufSize = 6
  MaxSignals = 1
SPECIFICATION Spec
INVARIANTS TypeOK OneUpdateUnderWay ReadsOwnGradients UninitialisedOnlyAtFirst NoCheckFails NothingLost TableTruthful
PROPERTY ImplementsParamStore
CHECK_DEADLOCK FALSE
