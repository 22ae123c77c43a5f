\* Two withdrawals, rewards unlocked at once and raised twice, two handlers.
SPECIFICATION Spec
CONSTANTS
  s1 = s1
  s2 = s2
  UnlockAmount = 1
  UnlockReward = 1
  IncrementalAmount = 1
  IncrementalReward = 1
  MaxReward = 2
  MaxProcessed = 3
  Amounts = {1, 2}
  MaxWithdrawals = 2
  Sessions <- SessionSet
  Faults = TRUE
SYMMETRY Symmetric
INVARIANTS
  ProfileFollowsApplication
  WithinEarnings
  PaidIsPaid
  ReferrerAgrees
CHECK_DEADLOCK FALSE
