CONSTANTS
  Shapes <- MCTwoProcesses
  Params <- MCParams
SPECIFICATION FairSpec
PROPERTY ServedInEveryCluster
CHECK_DEADLOCK FALSE
