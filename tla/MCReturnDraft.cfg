SPECIFICATION MCSpec
CONSTANTS
  NULL = NULL
  NoDraft = NoDraft
  Blank = Blank
  Orders = {o1}
  LegacyOrders = {o1}
  Terms <- MCTerms
  Policies <- MCPolicies
  OrderFacts <- MCOrderFacts
  Requests <- MCRequests
  Capacity = 1
  Lifetime = 2
  TicksPerDay = 2
  MaxNow = 3
  MaxIds = 4
  Promises = {NULL, 0, 3, 7, 10}
  Versions = {NULL, v1}
  MaxDay = 11
INVARIANTS
  TypeOK
  OneApplicationPerOrder
  ReceiptsMatchOffers
  NoFreeHour
  RulesInv
PROPERTIES
  AuthorisedContent
  AdverseReviewStands
  KeepsPromise
