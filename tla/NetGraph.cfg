CONSTANTS
  LayerNames <- MCLayerNames
  GroupSizes <- MCGroupSizes
  Locations = {0, 1}
SPECIFICATION Spec
INVARIANTS TypeOK DependenciesKept SourcesFirst BridgedAtBorders OnePieceEach PiecesInOrder FanOutIsSplit
CHECK_DEADLOCK FALSE
