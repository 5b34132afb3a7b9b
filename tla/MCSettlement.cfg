CONSTANTS
  alice = alice
  bob = bob
  Nobody = nobody
  nobody = nobody
  flush1 = flush1
  Users <- MCOneUser
  Transfers <- MCTransfers
  Flushes <- MCFlushes
  Conditions <- MCConditions
  MinGas = 2
  TopUp = 2
  Minted = 3
  MaxFunding = 2
SPECIFICATION FairSpec
INVARIANTS
  RecordedAsTold
  NeverForgotten
  PositionNeverBelowTheChain
PROPERTIES
  TransfersGetThrough
CHECK_DEADLOCK FALSE
