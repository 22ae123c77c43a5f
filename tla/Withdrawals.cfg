SPECIFICATION Spec
CONSTANTS
  FeeCap = 10000
  Payments <- MCPayments
  Net <- MCNet
  NetByDefault <- MCNetByDefault
  Rows = {w1, w2}
  Amounts <- MCAmounts
  Sessions = {s1, s2}
  QueriesMayFail = TRUE
SYMMETRY MCSymmetry
INVARIANTS
  PaidOutOnce
  ApprovalDeducted
  WithinSettledUnlessSlipped
