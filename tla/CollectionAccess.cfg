\* One invited person, two collections (one changes hands), two invites, two handlers.
SPECIFICATION AccessSpec
CONSTANTS
  ada = ada
  bola = bola
  c1 = c1
  c2 = c2
  s1 = s1
  s2 = s2
  Shareable <- CollectionSet
  ItemChoices <- ItemSet
  Transferable = {c1}
  Owners <- OwnerSet
  Invited = {"chidi"}
  FlagChoices <- Flagged
  MaxInvites = 2
  MaxGrants = 2
  Handlers <- HandlerSet
  MayFail = TRUE
SYMMETRY Symmetric
INVARIANTS
  GrantTable
  SharedWithConsent
PROPERTIES
  AcceptedMeansAccess
CHECK_DEADLOCK FALSE
