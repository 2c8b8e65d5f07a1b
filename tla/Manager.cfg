SPECIFICATION Spec
CONSTANTS
  n1 = n1
  n2 = n2
  n3 = n3
  n4 = n4
  StaticNodes <- MCStaticNodes
  Joiners <- MCJoiners
  vid <- MCvid
  Space = 8
  ReplicaSizes = {1, 2, 3}
  NUM_BEATS_BEFORE_FAILURE = 3
  OneAtATime = TRUE
  MaxLate = 1
  MaxEvents = 2
INVARIANTS
  RoutingGeometric
  RangesMatchRouting
  PrecopyFromTails
PROPERTIES
  EveryChainRepaired
  NotFailedEarly
  CrashDetected
  
CHECK_DEADLOCK FALSE
