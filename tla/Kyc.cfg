\* The flags that count in the code, a type of document that does not, two documents, two handlers.
SPECIFICATION Spec
CONSTANTS
  s1 = s1
  s2 = s2
  DocTypes = {"identity", "address", "bank"}
  Uploaded = {"identity"}
  Needed = {"identity", "address", "nin"}
  MaxDocs = 2
  Sessions <- SessionSet
  Faults = TRUE
SYMMETRY Symmetric
INVARIANTS
  VerifiedBacked
  FlagFollowsDocuments
CHECK_DEADLOCK FALSE
