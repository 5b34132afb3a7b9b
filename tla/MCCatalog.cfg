CONSTANTS
  alice = alice
  bob = bob
  Investors <- MCInvestors
  Amounts <- MCAmounts
  Deltas <- MCDeltas
  Endowment <- MCEndowment
  MaxUint = 32
  Par = 4
  MinSpan = 1
  Loads <- MCLoads
  Ranges <- MCRanges
  FirstRange = 1
  CacheTtl = 1
  Conditions <- MCConditions
  Viewer = alice
  MaxPoints = 2
  Rows <- MCRows
  Queries <- MCQueries
  Filters <- MCFilters
  Needles <- MCNeedles
  PageLimit = 24
  Suggested = 7
SPECIFICATION FairSite
INVARIANTS
  LogTellsTheVault
  AnswersAreRecent
  PortfolioAddsUp
  ResultsAnswerTheCriteria
PROPERTIES
  PageNeverGoesBack
  LoadsEnd
CHECK_DEADLOCK FALSE
