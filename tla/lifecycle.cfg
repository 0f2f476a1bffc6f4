SPECIFICATION FairSpec
CONSTANTS
  Requests = {r1, r2}
  Enabled <- AllLoops
  MaxConns = 2
  ShutdownTimeout = 1
  StopTimeout = 2
INVARIANTS
  PoolClosesLast
  OnlyTimeCutsCalls
PROPERTIES
  StopEndsByItself
CHECK_DEADLOCK FALSE
