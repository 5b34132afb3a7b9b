CONSTANTS
  server = server
  cli = cli
  alice = alice
  Null = Null
  Processes <- MCProcesses
  Investors <- MCInvestors
  Amounts <- MCAmounts
  Endowment <- MCEndowment
  MaxUint = 16
  Par = 4
  Prefund = 2
  BPS = 2
  FeeBps = 0
  Weights <- MCWeights
  Prices <- MCPrices
  Conditions <- MCConditions
SPECIFICATION Spec
INVARIANTS
  IntervalsTile
  TradesReplay
  LogTellsTheTruth
PROPERTIES
  FreshReadIsAccepted
CHECK_DEADLOCK FALSE
