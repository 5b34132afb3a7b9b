CONSTANTS
  sourceA = sourceA
  sourceB = sourceB
  secretA = secretA
  secretB = secretB
  Null = Null
  Sources <- MCSources
  Template = sourceA
  Values <- MCOneValue
  Ciphertexts <- MCOneValue
  Clients <- MCApi
  Checks = 2
  Target = 2
  MaxVaults = 2
  MaxEdits = 1
  MaxFailures <- MCNoFailures
  Templates <- MCTemplates
  MaxSeeds = 2
  Faults <- MCNoFaults
SPECIFICATION SeedSpec
INVARIANTS
  PublishedHashIsOfTheSource
