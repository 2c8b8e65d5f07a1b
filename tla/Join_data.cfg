SPECIFICATION Spec
CONSTANTS
  n1 = n1
  n2 = n2
  n3 = n3
  n4 = n4
  Manager = Manager
  vid <- MCvid
  Space = 8
  Scenarios <- MCSplit
  Uninitialized = {0}
  JoinSizes = {1}
  MaxFails = 0
  MaxPuts = 1
INVARIANTS
  DataKept
CHECK_DEADLOCK FALSE
