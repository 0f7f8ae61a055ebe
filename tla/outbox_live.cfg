SPECIFICATION FairSpec
CONSTANTS
  w1 = w1
  w2 = w2
  discord = discord
  hook = hook
  webhook = webhook
  Events <- OneEvent
  Workers = {w1, w2}
  Targets <- Route
  Initial <- InsertedRows
  BatchSize = 2
  MaxRetries = 2
  MaxFaults = 1
  MaxResets = 1
  SingleWriter = FALSE
  None = None
INVARIANTS DeliveredArrived DeadLetterEarned
PROPERTIES ImplementsDelivery EveryEventSettles
CHECK_DEADLOCK FALSE
