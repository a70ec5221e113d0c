SPECIFICATION Spec
CONSTANTS
  r1 = r1
  r2 = r2
  None = None
  Requests <- OneRequest
PROPERTIES ClosedIsFrozen
