SPECIFICATION MCSpec
CONSTANTS
  NULL = NULL
  NoRun = NoRun
  Actions = {a1}
  Runs = {r1}
  Keys = {k1}
  Calls = {c1, c2}
  MayDie = TRUE
  Proposals = {p1}
  MemoryRuns = {m1}
  MemoryKeys = {i1}
  Flows = {f1}
  Threads = {t1}
  None = None
INVARIANT
  CancelledNotWritten
