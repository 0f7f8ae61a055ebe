SPECIFICATION FairSpec
CONSTANTS
  Calls = {c1, c2}
  Workers = {w1, w2}
  Convs = {v1, v2}
  ClientIds = {k1, k2}
  Sessions = {s1}
  None = None
  SingleWriter = TRUE
  RespondFirst = TRUE
INVARIANTS AnsweredIsStored NoCircularWait
PROPERTIES ImplementsLog EveryCallEnds
CHECK_DEADLOCK FALSE
