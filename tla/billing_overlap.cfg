SPECIFICATION Spec
CONSTANTS
  i1 = i1
  r1 = r1
  r2 = r2
  t1 = t1
  l1 = l1
  None = None
  Invoices <- OneInvoice
  Requests <- TwoRequests
  TimeEntries <- OneTimeEntry
  Expenses <- NoEntries
  Lines <- OneLine
  LineAmounts = {1}
  PaymentAmounts = {1}
  TaxRates = {0}
  DefaultTaxRate = 0
  PoolSize = 2
  MayFail = FALSE
CHECK_DEADLOCK FALSE
PROPERTIES StatusFollowsTable
