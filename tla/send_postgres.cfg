SPECIFICATION Spec
CONSTANTS
  Calls = {c1, c2, c3}
  Workers = {w1, w2}
  Convs = {v1}
  ClientIds = {k1, k2}
  Sessions = {s1}
  None = None
  SingleWriter = FALSE
  RespondFirst = FALSE
SYMMETRY Symmetry
INVARIANTS TypeOK Gapless CommitsInOrder SameAnswer AnsweredIsStored OutboxComplete AnnouncedIsStored
INVARIANTS NoCircularWait FailuresExplained
PROPERTIES ImplementsLog ImplementsFeed
CHECK_DEADLOCK FALSE
