SPECIFICATION Spec
CONSTANTS
  Nobody = Nobody
  Admins = {a1, a2}
  Newcomers = {n1}
  Orders = {8000, 8001}
  Tokens = {m1, m2}
  Requests = {r1, r2}
  UserLimit = 2
  AddressLimit = 3
  MaxWindow = 1
  Owners = {u1, u2}
  ShelfIds = {k1, k2, k3}
  Quota = 2
  ImageQuota = 2
  policy1 = policy1
  policy2 = policy2
  Goods = {g1, m1, m2}
  Followed = {g1}
  Contents = {"sold", "repriced", "cancelled"}
  Rules = {policy1, policy2}
  NoRule = NoRule
  Returnable = {"sold", "repriced"}
  Unquestioned <- MCUnquestioned
  Workers = {r1, r2}
  DraftLimit = 1
  Hour = 1
  LastTick = 1
  MaxRows = 2
SYMMETRY AccountSymmetry
INVARIANTS
  AccountsInv
  ShelfInv
  TxInv
PROPERTIES
  AuthorisedAtCommit
  RefreshBringsNews
  DeadSessionsStayDead
CHECK_DEADLOCK FALSE
