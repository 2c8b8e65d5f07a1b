SPECIFICATION Spec
CONSTANTS
  n1 = n1
  n2 = n2
  n3 = n3
  n4 = n4
  Manager = Manager
  vid <- MCvid
  Space = 8
  Scenarios <- MCScenarios
  Uninitialized = {0}
  JoinSizes = {1, 2}
  MaxFails = 1
  MaxPuts = 1
INVARIANTS
  
  RoutedHeld
PROPERTIES
  ReplicasRestored
CHECK_DEADLOCK FALSE
