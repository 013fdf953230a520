CONSTANTS
  InitialValue = InitialValue  Nil = Nil
  NGroups = 2
  NServers = 1
  NParams = 2
  BackwardOrder <- MCBackward2
  FirstStep = 0
  TrainSteps = 3
  Passes <- MCPasses
  Hogwild = FALSE
  BufSize = 6
  MaxSignals = 0
SPECIFICATION FairSpec
INVARIANT TestLagsOneStep
PROPERTY AllGroupsFinish
CHECK_DEADLOCK FALSE
