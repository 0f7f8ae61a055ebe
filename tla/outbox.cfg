SPECIFICATION Spec
CONSTANTS
  w1 = w1
  w2 = w2
  discord = discord
  hook = hook
  webhook = webhook
  Events <- TwoEvents
  Workers = {w1, w2}
  Targets <- HookOnly
  Initial <- InsertedRows
  BatchSize = 2
  MaxRetries = 2
  MaxFaults = 1
  MaxResets = 0
  SingleWriter = FALSE
  None = None
SYMMETRY Symmetry
INVARIANTS TypeOK DeliveredArrived DeadLetterEarned
PROPERTY ImplementsDelivery
CHECK_DEADLOCK FALSE
