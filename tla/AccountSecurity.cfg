\* Three addresses, two codes, two changes of address, two handlers.
SPECIFICATION Spec
CONSTANTS
  ada1 = ada1
  ada2 = ada2
  ada3 = ada3
  s1 = s1
  s2 = s2
  Addresses <- AddressSet
  Sessions <- SessionSet
  MaxCodes = 2
  MaxChanges = 2
  Faults = TRUE
SYMMETRY Symmetric
INVARIANTS
  OneChangePerCode
  AddressesAgree
PROPERTIES
  SupersededIsVoid
CHECK_DEADLOCK FALSE
