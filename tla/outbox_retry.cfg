SPECIFICATION Spec
CONSTANTS
  w1 = w1
  w2 = w2
  discord = discord
  hook = hook
  webhook = webhook
  Events <- TwoEvents
  Workers = {w1}
  Targets <- HookOnly
  Initial <- InsertedRows
  BatchSize = 2
  MaxRetries = 1
  MaxFaults = 0
  MaxResets = 1
  SingleWriter = FALSE
  None = None
PROPERTY RetryResetsOneMessage
CHECK_DEADLOCK FALSE
