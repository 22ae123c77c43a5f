\* Up to two accounts from before, three rows ever, three numbers of which two look alike.
SPECIFICATION PayoutSpec
CONSTANTS
  s1 = s1
  s2 = s2
  Numbers = {1, 2, 3}
  Tail <- Tails
  MaxRows = 3
  Legacy = 2
  Handlers <- HandlerSet
  MayFail = TRUE
SYMMETRY Symmetric
INVARIANTS
  OneDefault
  DefaultWhileAccounts
CHECK_DEADLOCK FALSE
