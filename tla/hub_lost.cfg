SPECIFICATION Spec
CONSTANTS
  Clients = {c1}
  UserOf <- OneUser
  MaxConns = 1
  Workers = {w1, w2}
  Messages = {m1, m2}
  Rest = {}
  ReplayLimit = 2
  HistoryLimit = 1
  None = None
SYMMETRY Symmetry
INVARIANT NothingLost
CHECK_DEADLOCK FALSE
