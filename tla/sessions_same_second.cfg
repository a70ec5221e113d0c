SPECIFICATION Spec
CONSTANTS
  r1 = r1
  r2 = r2
  k1 = k1
  None = None
  Requests <- TwoRequests
  ResetTokens <- OneToken
  MaxAttempts = 1
  AttemptCap = 1
  LastSecond = 2
  MaxPassword = 2
  MayFail = FALSE
SYMMETRY SymTwo
INVARIANT RefreshGivesNewToken
CONSTRAINT WithinBudget
