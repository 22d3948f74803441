SPECIFICATION Spec
CONSTANTS
  NULL = NULL
  NoRun = NoRun
  NoTurn = NoTurn
  DraftIds = {d1}
  AgentTurns = {q1}
  VisionTurns = {q2, q3}
  Calls = {c1, c2}
  MayDie = TRUE
SYMMETRY PortalSymmetry
INVARIANTS
  PortalInv
  NoParallelOperations
PROPERTY
  VerdictFinal
CHECK_DEADLOCK FALSE
