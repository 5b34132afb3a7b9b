CONSTANTS
  server = server
  cli = cli
  alice = alice
  Null = Null
  Processes <- MCProcesses
  Investors <- MCInvestors
  Amounts <- MCOneDeposit
  Endowment <- MCFourEach
  MaxUint = 24
  Par = 4
  Prefund = 2
  BPS = 2
  FeeBps = 0
  Weights <- MCWeights
  Prices <- MCOneFall
  Conditions <- MCTradeFails
SPECIFICATION Spec
INVARIANTS
  FileIsTheLastSettlement
CHECK_DEADLOCK FALSE
