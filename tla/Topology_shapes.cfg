CONSTANTS
  Shapes <- MCShapes
  Params <- MCParams
SPECIFICATION FairSpec
INVARIANTS RoutedWhereLaunched OneTrainer
PROPERTY ServedInOneProcess
CHECK_DEADLOCK FALSE
