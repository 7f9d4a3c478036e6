SPECIFICATION BillingSpec
CONSTANTS
  BillingCalls = {c1, c2}
  Users = {u1}
  Branches = {b1, b2, b3}
  Invitations = {i1}
  Roles = {"cashier"}
  Catalogue <- MCCatalogue
  DefaultPrice <- MCDefaultPrice
  Repricings = {}
  StripePriced = {}
  MaxFounded = 1
INVARIANT UnitsNeverDrift
CHECK_DEADLOCK FALSE
