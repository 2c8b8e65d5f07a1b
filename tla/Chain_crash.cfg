SPECIFICATION Spec
CONSTANTS
  R = 4
  Failing <- AnyFails
  Removes <- MCRemoves
  Idle = Idle
  MaxPut = 3
  MaxError = 0
INVARIANTS
  AnsweredSurvives
  AnsweredOnce
CHECK_DEADLOCK FALSE
