SPECIFICATION QueueSpec
CONSTANTS
  i1 = i1
  r1 = r1
  r2 = r2
  t1 = t1
  l1 = l1
  None = None
  Invoices <- OneInvoice
  Requests <- TwoRequests
  TimeEntries <- OneTimeEntry
  Expenses <- NoEntries
  Lines <- OneLine
  LineAmounts = {2}
  PaymentAmounts = {1}
  TaxRates = {0}
  DefaultTaxRate = 0
  PoolSize = 2
  MayFail = FALSE
  v1 = v1
  e1 = e1
  e2 = e2
  Events <- OneEvent
  Endpoints <- TwoEndpoints
  MaxAttempts = 2
  MaxStalls = 1
CHECK_DEADLOCK FALSE
INVARIANTS WebhooksTypeOK DeliveriesExplained
PROPERTIES RequestsEnd PromisesKept
