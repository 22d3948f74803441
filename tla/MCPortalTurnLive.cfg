SPECIFICATION FairSpec
CONSTANTS
  NULL = NULL
  NoRun = NoRun
  NoTurn = NoTurn
  DraftIds = {d1, d2}
  AgentTurns = {q1}
  VisionTurns = {q1}
  Calls = {c1, c2}
  MayDie = TRUE
INVARIANTS
  ApprovedAsShown
  HistoryTellsCheckpoint
PROPERTY
  ClaimReleased
CHECK_DEADLOCK FALSE
