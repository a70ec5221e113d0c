SPECIFICATION CreationSpec
CONSTANTS
  c1 = c1
  c2 = c2
  Creations <- TwoCreations
  Base = 2
  Width = 2
  MaxNumber = 5
INVARIANTS NewInvoiceFound
