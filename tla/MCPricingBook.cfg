CONSTANTS
  BPS = 4
  FeeBps = 2
  Declared <- MCDeclared
  Decisions <- MCDecisions
  Quotes <- MCQuotes
  Capital <- MCCapital
  Par = 2
  MaxUint = 30
  Deposit = 2
  Ticks = 1
  MaxTicks = 3
  MaxFailures = 2
  Conditions <- MCConditions
SPECIFICATION RecordSpec
PROPERTIES
  NoLeverage
  ComparableToTheBacktest
  SettlesWhatTheVaultTakes
  RecordEndsTruthfully
