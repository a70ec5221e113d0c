SPECIFICATION Spec
CONSTANTS
  r1 = r1
  r2 = r2
  None = None
  Requests <- TwoRequests
INVARIANTS TypeOK EveryStatusJustified WritesAreCurrent CacheExplained
PROPERTIES DeletedIsGone
