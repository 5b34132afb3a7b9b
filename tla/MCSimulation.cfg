CONSTANTS
  a = a
  server = server
  cli = cli
  v1 = v1
  v2 = v2
  key = key
  flat = flat
  half = half
  Null = Null
  Flat = flat
  Server = server
  Processes <- MCProcesses
  BackfillTicks = 2
  HistoryLimit = 2
  MaxRows = 4
  Sources <- MCSources
  Strategies <- MCStrategies
  Books <- MCBooks
  ProbedBooks <- MCProbedBooks
  Asks <- MCAsks
  Clock <- MCClock
  Conditions <- MCConditions
  MaxFaults = 1
SPECIFICATION FairSpec
INVARIANTS
  MetaNeverLies
  ExecutionsAreTruthful
PROPERTIES
  SeriesIsOneWalk
  EveryTickEnds
CHECK_DEADLOCK FALSE
