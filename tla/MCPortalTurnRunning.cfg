SPECIFICATION Spec
CONSTANTS
  NULL = NULL
  NoRun = NoRun
  NoTurn = NoTurn
  DraftIds = {d1}
  AgentTurns = {q1}
  VisionTurns = {}
  Calls = {c1, c2}
  MayDie = FALSE
PROPERTY
  RunningIsExecuting
CHECK_DEADLOCK FALSE
