SPECIFICATION Spec
CONSTANTS
  i1 = i1
  r1 = r1
  r2 = r2
  t1 = t1
  l1 = l1
  None = None
  Invoices <- OneInvoice
  Requests <- TwoRequests
  TimeEntries <- OneTimeEntry
  Expenses <- NoEntries
  Lines <- OneLine
  LineAmounts = {1}
  PaymentAmounts = {1}
  TaxRates = {0, 1}
  DefaultTaxRate = 0
  PoolSize = 3
  MayFail = TRUE
SYMMETRY SymTwo
INVARIANTS TypeOK NoSilentReceivable EntriesReleased HandlersSound TotalsMatchLines EntriesHeld
PROPERTIES PaymentsAreAtomic StatusFollowsReading
CHECK_DEADLOCK FALSE
