SPECIFICATION Spec
CONSTANTS
  r1 = r1
  r2 = r2
  k1 = k1
  None = None
  Requests <- TwoRequests
  ResetTokens <- OneToken
  MaxAttempts = 1
  AttemptCap = 1
  LastSecond = 2
  MaxPassword = 2
  MayFail = TRUE
SYMMETRY SymTwo
INVARIANTS TypeOK OldPasswordShutOut LockFollowsFailures ForksFromOverlap ResetOnce
CONSTRAINT WithinBudget
