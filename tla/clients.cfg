SPECIFICATION MCSpec
CONSTANTS
  Items = {i1, i2}
  Services = {s1}
  None = None
  MaxAttempts = 2
  MaxKills = 0
  MaxIoErrors = 1
  MaxRetries = 0
  MaxLogins = 1
  SessionIds = {d1, d2}
  AuthCalls = {c1, c2}
  MaxPasswords = 2
  MaxSecrets = 2
  WeekLength = 2
  LongDays = 3
  FirstDays = {0, 3}
  SaleSizes <- MCSaleSizes
  Wares = {a}
  Shelves = {l1, l2}
  ReorderPoint = 1
  Buffer = 0
  MaxClock = 7
  MaxSaleRows = 2
  MaxSpent = 1
  MaxOnShelf = 1
  Asks = {c1, c2}
  Tools = {x1, x2}
  MaxRoundtrips = 2
  MaxConversation = 2
  MaxQuestions = 3
  Tenants = {t1, t2}
  WebCalls = {w1, w2}
  MaxWebCalls = 4
  Shops = {t1, t2}
  Loads = {w1, w2}
  Posts = {c1, c2}
  MaxLoads = 3
  MaxDrafts = 2
  MaxRecords = 2
  Days = {1, 2}
  PageSize = 1
  Rows = {r1, r2}
  Acts = {a1, a2, a3}
  QrCalls = {c1, c2}
  AppCalls = {c1, c2}
  MaxSignIns = 3
  Goods = {a}
  Opening = 1
  Pages = {{a}, {}}
  Taps = {c1, c2}
  MaxUnits = 2
  MaxCarts = 2
  MaxSales = 2
  MaxEvents = 2
SYMMETRY MCSymmetry
INVARIANTS
  FreshItemNotOvertaken
  ResetEndsSessions FactorUsable
  FiguresAgree
  TurnsPaired LoopKeepsTerms
  TabInStep
  ListIsCurrent OneRecordPerDraft
  RowsInStep
  TokenInStep
  ScreenTracksServer OneSalePerCart
CHECK_DEADLOCK FALSE
