CONSTANTS
  s1 = s1
  s2 = s2
  s3 = s3
  c1 = c1
  c2 = c2
  Strategies <- MCStrategies
  Callers <- MCCallers
  Hosts <- MCHosts
  Concurrency = 1
  MaxCycles = 2
  LibraryCycles = 1
SPECIFICATION FairServer
INVARIANTS
  TicksAreAccountedFor
  CleanExitOnceUp
PROPERTIES
  CallsReturn
  ExitsAfterASignal
CHECK_DEADLOCK FALSE
