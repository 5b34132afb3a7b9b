CONSTANTS
  sourceA = sourceA
  sourceB = sourceB
  secretA = secretA
  secretB = secretB
  Null = Null
  Sources <- MCSources
  Template = sourceA
  Values <- MCOneValue
  Ciphertexts <- MCOneValue
  Clients <- MCAnyClient
  Checks = 2
  Target = 2
  MaxVaults = 2
  MaxEdits = 1
  MaxFailures <- MCFailures
  Templates <- MCTemplates
  MaxSeeds = 2
  Faults <- MCEverything
SPECIFICATION SeedSpec
INVARIANTS
  PublishableIsChecked
  LiveIsWhole
  ReserveFundedOnce
  PublishesWhatItShows
  SeedReportsTheTruth
PROPERTIES
  PublishedIsFrozen
  NothingHangs
CHECK_DEADLOCK FALSE
