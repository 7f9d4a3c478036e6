SPECIFICATION ReportsSpec
CONSTANTS
  WeekLength = 2
  LongDays = 3
  FirstDays = {0}
  SaleSizes = {}
  Wares = {a}
  Shelves = {l1, l2}
  ReorderPoint = 1
  Buffer = 0
  MaxClock = 1
  MaxSaleRows = 0
  MaxSpent = 0
  MaxOnShelf = 2
INVARIANT RedAtReorderPoint
CHECK_DEADLOCK FALSE
