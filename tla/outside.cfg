SPECIFICATION OutsideSpec
CONSTANTS
  r1 = r1
  r2 = r2
  a1 = a1
  a2 = a2
  l1 = l1
  None = None
  Gone = Gone
  Requests <- TwoRequests
  Signers <- Two
  Emails <- Two
  LeadIds <- OneLead
  MaxVersion = 3
  MaxFiles = 3
  FailureThreshold = 2
  MaxStamps = 3
SYMMETRY SymOutside
INVARIANTS OutsideTypeOK VersionsSound SignaturesSound
  AccountsExplained ScoreCurrent
  StampsExplained BreakerConsistent
CHECK_DEADLOCK FALSE
