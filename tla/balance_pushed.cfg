CONSTANTS
  Conn = {c1, c2}
  User = {u1}
  NoUser = NoUser
  Table = {t1, t2}
  NoTable = NoTable
  Seeded = {}
  NewPlayerChips = 1
  Stake = 1
  MaxChips = 1
SPECIFICATION PushSpec
INVARIANTS BalanceReconciled
CHECK_DEADLOCK FALSE
