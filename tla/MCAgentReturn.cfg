SPECIFICATION AgentSpec
CONSTANTS
  NULL = NULL
  NoDraft = NoDraft
  NoRun = NoRun
  Blank = Blank
  Orders = {o1}
  LegacyOrders = {}
  Terms <- MCTerms
  Policies <- MCPolicies
  OrderFacts <- MCOrderFacts
  Requests <- MCRequests
  Capacity = 1
  Lifetime = 1
  TicksPerDay = 1
  MaxNow = 1
  MaxIds = 3
  Threads = {t1, t2}
  FirstReasons <- NoFirstReason
  MaxWire = 1
SYMMETRY ThreadSymmetry
INVARIANTS
  AgentInv
  ApplicationsApproved
  OutcomesHold
PROPERTY
  RunsLive
