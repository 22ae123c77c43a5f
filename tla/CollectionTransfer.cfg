\* Two users, two collections of which one is offered, two requests, two handlers.
SPECIFICATION Spec
CONSTANTS
  ada = ada
  bola = bola
  c1 = c1
  c2 = c2
  s1 = s1
  s2 = s2
  NoOne = NoOne
  Offered = {c1}
  Collections <- CollectionSet
  Users <- UserSet
  Sessions <- SessionSet
  MaxRequests = 2
  Faults = TRUE
  Revocable = TRUE
SYMMETRY Symmetric
PROPERTIES
  ImplementsOwnership
  CapKept
CHECK_DEADLOCK FALSE
