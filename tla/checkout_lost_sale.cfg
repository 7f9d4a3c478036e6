SPECIFICATION CheckoutSpec
CONSTANTS
  Goods = {a}
  Opening = 1
  Pages = {{a}, {}}
  Taps = {c1, c2}
  MaxUnits = 1
  MaxCarts = 1
  MaxSales = 2
  MaxEvents = 2
INVARIANT SaleSurvives
CHECK_DEADLOCK FALSE
