CONSTANTS
  alice = alice
  bob = bob
  carol = carol
  Investors <- MCInvestors
  Amounts <- MCAmounts
  Deltas <- MCDeltas
  Endowment <- MCEndowment
  MaxUint = 18
  Par = 3
SPECIFICATION Spec
INVARIANTS
  Solvent
  AlwaysRedeemable
PROPERTIES
  TradingIsZeroSumAgainstTheCaller
  DepositCostsLessThanAShare
CHECK_DEADLOCK FALSE
