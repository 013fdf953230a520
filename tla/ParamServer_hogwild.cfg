CONSTANTS
  InitialValue = InitialValue  Nil = Nil
  NGroups = 2
  NServers = 1
  NParams = 1
  BackwardOrder <- MCBackward1
  FirstStep = 0
  TrainSteps = 2
  Passes <- MCNoPasses
  Hogwild = TRUE
  BufSize = 6
  MaxSignals = 0
SPECIFICATION FairSpec
PROPERTY AllGroupsFinish
CHECK_DEADLOCK FALSE
