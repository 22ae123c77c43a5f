SPECIFICATION TxFairSpec
CONSTANTS
  References <- MCReferences
  Rows <- MCRows
  Prefixes <- MCPrefixes
  AlphaPrefixes <- MCPrefixes
  Tiers <- MCTiers
  Legacy <- MCLegacy
  Radix = 2
  CodeSpace = 4
  RpcMayFail = FALSE
  MaxMinted = 3
  CapChoices <- MCCaps
  QuantityChoices <- MCQuantities
  Sessions = {s1, s2}
  MaxAborts = 1
INVARIANTS
  CountersNeverLag
  ToldMeansRecorded
PROPERTIES
  ImplementsPaymentClaim
  EveryPaymentDecided
