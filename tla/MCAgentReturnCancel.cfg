SPECIFICATION AgentSpec
CONSTANTS
  NULL = NULL
  NoDraft = NoDraft
  NoRun = NoRun
  Blank = Blank
  Orders = {o1}
  LegacyOrders = {}
  Terms <- MCTerms
  Policies <- MCPolicies
  OrderFacts <- MCOrderFacts
  Requests <- MCRequests
  Capacity = 1
  Lifetime = 2
  TicksPerDay = 2
  MaxNow = 2
  MaxIds = 3
  Threads = {t1}
  FirstReasons <- NoFirstReason
  MaxWire = 1
INVARIANT
  WaitingConfirmationCanBeAnswered
