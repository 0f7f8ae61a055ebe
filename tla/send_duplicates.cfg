SPECIFICATION Spec
CONSTANTS
  Calls = {c1, c2}
  Workers = {w1}
  Convs = {v1}
  ClientIds = {k1, k2}
  Sessions = {s1}
  None = None
  SingleWriter = FALSE
  RespondFirst = FALSE
INVARIANT DuplicatesSucceed
CHECK_DEADLOCK FALSE
