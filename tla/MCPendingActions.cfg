SPECIFICATION MCSpec
CONSTANTS
  NULL = NULL
  NoRun = NoRun
  Actions = {a1, a2}
  Runs = {r1, r2}
  Keys = {k1, k2}
  Calls = {c1, c2, c3}
  MayDie = TRUE
  Proposals = {p1, p2}
  MemoryRuns = {m1, m2}
  MemoryKeys = {i1, i2}
  Flows = {f1}
  Threads = {t1, t2}
  None = None
SYMMETRY ActionSymmetry
INVARIANTS
  ActionsInv
  OneRunPerKey
  ChangeInv
  NobodyStuck
PROPERTY
  DecisionFinal
