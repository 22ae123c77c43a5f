SPECIFICATION AtomicSpec
CONSTANTS
  Payments <- MCPayments
  Net <- MCNet
  NetByDefault <- MCNetByDefault
  Rows = {w1, w2}
  Amounts <- MCAmounts
  Sessions = {s1, s2}
  QueriesMayFail = FALSE
SYMMETRY MCSymmetry
INVARIANTS
  
  WithinSettledUnlessSlipped
