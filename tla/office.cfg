SPECIFICATION OfficeSpec
CONSTANTS
  r1 = r1
  r2 = r2
  a1 = a1
  a2 = a2
  e1 = e1
  e2 = e2
  None = None
  Deleted = Deleted
  Staff = Staff
  Creator = Creator
  Exempt = Exempt
  Requests <- TwoRequests
  Creations <- TwoRequests
  People <- Two
  Lawyers <- Two
  Codes <- Two
  Bills <- One
  EventIds <- TwoEvents
  Items <- One
  Horizon = 3
  MaxSecrets = 2
  Base = 2
  Width = 2
  MaxNumber = 5
  MaxTotal = 2
  MaxSent = 3
  PageLimit = 1
  MaxEntries = 4
  PageSize = 2
SYMMETRY SymOffice
INVARIANTS OfficeTypeOK ConflictNoticed SecondFactorSound OnboardedWhole LeadsOverlapped
  NumberingSound ReadsOfOneMoment ListedOpens AccountsAgree
  WalkMissesOnlyUnderChange CaseDealings
CHECK_DEADLOCK FALSE
