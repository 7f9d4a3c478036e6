SPECIFICATION Spec
CONSTANTS
  Locations = {l1, l2}
  DefaultLocation = l1
  Variants = {v1}
  Txs = {t1, t2}
  Mutations = {m1}
  Keys = {k1}
  None = None
  Quantities = {1}
  MaxLines = 2
  OpeningStock = 2
  ReorderPoint = 2
  WarningBuffer = 1
INVARIANTS SaleDeductsEveryLine
CHECK_DEADLOCK FALSE
