SPECIFICATION Spec
CONSTANTS
  References <- MCReferences
  Rows <- MCRows
  Prefixes <- MCPrefixes
  AlphaPrefixes <- MCPrefixes
  Tiers <- MCTiers
  Legacy <- MCLegacy
  Radix = 2
  CodeSpace = 8
  RpcMayFail = TRUE
  MaxMinted = 4
  CapChoices <- MCCaps
  QuantityChoices <- MCQuantities
INVARIANTS
  TypeOK
  UniqueCodes
PROPERTIES
  CodesAreForever
  ClaimsFitCap
  ClaimsFitTiers
