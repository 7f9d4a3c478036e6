SPECIFICATION MCSpec
CONSTANTS
  SaleIds = {m1, m2}
  SaleCalls = {c1, c2}
  Carts <- MCCarts
  Tenders <- MCTenders
  RefundAmounts = {0, 11, 16}
  MaxRefunded = 48
  BillingCalls = {c1, c2}
  Users = {u1, u2}
  Branches = {b1, b2}
  Invitations = {i1}
  Roles = {"cashier"}
  Catalogue <- MCCatalogue
  DefaultPrice <- MCDefaultPrice
  Repricings <- MCRepricings
  StripePriced = {"extra_user"}
  MaxFounded = 2
  Hooks = {c1, c2}
  MaxEvents = 4
  ShopProducts = {"x1", "x2"}
  SkuOf <- MCSkuOf
  ExtSku <- MCExtSku
  Manual = {"s1"}
  Merchant = 9
  SyncCalls = {c1, c2}
  MaxAttempts = 2
  MaxVersion = 1
  MaxShopEvents = 1
  Variants = {v1, v2}
  Locations = {l1, l2}
  PushCalls = {c1, c2}
  MaxBalance = 1
  Emails = {"ann", "p"}
  Subjects = {"g1", "g2", "g3"}
  AddressesOf <- MCAddressesOf
  Vouched = {"g1"}
  AccountCalls = {c1, c2}
SYMMETRY MCSymmetry
INVARIANTS
  RefundsFit SalesAddUp
  AloneSettles MembersAreDue
  EventsSettle
  SyncSettles TakenOverOnce
  PushSettles
  IdentitiesSafe
PROPERTY IdentityStays
CHECK_DEADLOCK FALSE
