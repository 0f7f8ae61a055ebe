SPECIFICATION Spec
CONSTANTS
  Calls = {c1, c2, c3}
  Workers = {w1}
  Devices = {d1}
  Seeds = {s0}
  Tokens = {t0}
  Positions = {1, 2}
  MaxLogins = 1
  Window = 2
  MaxTime = 2
  None = None
SYMMETRY Symmetry
INVARIANTS TypeOK RevokedIsRefused OneTimeAfterAnswer SavedIsCommitted ReceiptLostOnlyInRace AdmittedPerWindow EveryChangeAudited
PROPERTY ImplementsLedger
CHECK_DEADLOCK FALSE
