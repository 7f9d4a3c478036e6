SPECIFICATION MCSpec
CONSTANTS
  Locations = {l1, l2}
  DefaultLocation = l1
  Variants = {v1}
  Txs = {t1, t2, t3}
  Mutations = {m1}
  Keys = {k1}
  None = None
  Quantities = {1}
  MaxLines = 2
  OpeningStock = 2
  ReorderPoint = 2
  WarningBuffer = 1
  Calls = {c1, c2}
  Quotes = {q1}
  NoSource = NoSource
  Totals = {9}
  Prices = {2}
  LineQuantities = {2}
  Amounts = {3, 8}
  MaxTries = 2
  MaxInvoices = 2
  Touched = {1}
  MaxPayments = 8
  FirstYear = 0
  LastYear = 1
SYMMETRY MCSymmetry
INVARIANTS
  LedgerChain StockAddsUp AllOrNothing RecordedOnce AlertOnCrossing
  NumberingProgresses BooksAreTrue OneInvoicePerQuote ConversionFaithful
PROPERTY SettledStays
CHECK_DEADLOCK FALSE
