CONSTANTS
  alice = alice
  bob = bob
  shortAlice = shortAlice
  shortBob = shortBob
  Addresses <- MCAddresses
  Names <- MCNames
  shortAddress <- MCShortAddress
  NoName = NoName
  NoWallet = NoWallet
  Requests <- MCRequests
  Replays <- MCReplays
  MaxNonces = 2
  MaxProofs = 2
  MaxFaults = 1
  MaxVisits = 2
SPECIFICATION FairSpec
INVARIANTS
  NonceBuysOneSession
  SignsForItsSession
PROPERTIES
  NobodyIsLeftWaiting
CHECK_DEADLOCK FALSE
