SPECIFICATION MCSpec
CONSTANTS
  OrderIds = {o1, o2}
  MaxToolSteps = 3
  Nothing = Nothing
  Workers = {w1, w2}
  Limit = 3
  MaxAttempts = 3
  MaxRequests = 5
  NULL = NULL
  full = full
  scan = scan
  p1 = p1
  p2 = p2
  p3 = p3
  Documents <- TwoDocuments
  Pages <- ThreePages
  TextPages <- TextOfDocuments
  Calls = {c1, c2, c3}
  PolicyQuestions <- MCPolicyQuestions
  Clauses <- MCClauses
  MaxClauses = 3
  Passages = {1, 2}
  MaxLimit = 2
  ReviewAttempts = 3
  Turns <- MCTurns
  Inquiries <- MCInquiries
  HistoryBudget = 10
  Window = 12
  ToolWeights = {5}
  MaxTurns = 5
  PageLines <- MCPageLines
  ChunkSize = 4
  Overlap = 1
  MaxLines = 5
  Ids = {"guide", "guide-plus"}
  Prefixed <- MCPrefixed
  PageKinds <- MCPageKinds
  MaxPages = 2
  MaxCopies = 2
  Chunks = {1, 2, 3}
  Id <- MCId
  Relevance <- MCRelevance
  Similarities = {0, 1, 2}
  Threshold = 1
  Overlaps = {0, 1, 2}
  MaxResults = 1
  Wide = 1
  Deep = 2
  Common = 238266
SYMMETRY ReviewSymmetry
INVARIANTS
  LoopInv
  AdmissionInv
  LegacyInv
  PagesInv
  GateInv
  CitedInv
  ContextInv
  ChunkInv
  IngestInv
  FoundInv
