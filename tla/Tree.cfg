SPECIFICATION Spec
CONSTANTS
  Nodes = {1, 2, 3, 4, 5}
  Values = {0, 1, 2}
  Keys <- MCKeys
INVARIANTS QueryFindsAll CulledFindsAll
CHECK_DEADLOCK FALSE
