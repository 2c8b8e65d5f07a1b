SPECIFICATION FairSpec
CONSTANTS
  R = 4
  Failing <- NoneFails
  Removes <- MCRemoves
  Idle = Idle
  MaxPut = 4
  MaxError = 1
INVARIANTS
  ReplicasArePrefixes
  MiddleBuffers
PROPERTIES
  PutsAnswered
  BuffersDrain
CHECK_DEADLOCK FALSE
