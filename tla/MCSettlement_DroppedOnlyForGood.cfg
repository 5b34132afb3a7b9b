CONSTANTS
  alice = alice
  bob = bob
  Nobody = nobody
  nobody = nobody
  flush1 = flush1
  Users <- MCTwoUsers
  Transfers <- MCTransfers
  Flushes <- MCFlushes
  Conditions <- MCOnlyShared
  MinGas = 2
  TopUp = 2
  Minted = 3
  MaxFunding = 2
SPECIFICATION Spec
INVARIANTS
  DroppedOnlyForGood
CHECK_DEADLOCK FALSE
