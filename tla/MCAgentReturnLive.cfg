SPECIFICATION AgentFairSpec
CONSTANTS
  NULL = NULL
  NoDraft = NoDraft
  NoRun = NoRun
  Blank = Blank
  Orders = {o1}
  LegacyOrders = {}
  Terms <- MCTerms
  Policies <- MCPolicies
  OrderFacts <- MCAllFacts
  Requests <- MCRequests
  Capacity = 1
  Lifetime = 2
  TicksPerDay = 2
  MaxNow = 3
  MaxIds = 3
  Threads = {t1}
  FirstReasons <- SomeFirstReason
  MaxWire = 1
PROPERTY
  ReceiptRecovered
