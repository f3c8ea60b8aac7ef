CONSTANTS
  e1 = e1
  e2 = e2
  w1 = w1
  w2 = w2
  c1 = c1
  c2 = c2
  Executions = {e1}
  Workers = {w1}
  Capacity = 2
  Clients = {c1}
  ApiOps = {"submit", "retry", "cancel", "delete"}
  MaxRetries = 1
  MaxAttempt = 2
  RetryMode = "ANY"
  Beating = {"executing", "finishing"}
  Faults = {}
  MaxFaults = 0
SPECIFICATION Spec
INVARIANTS TypeOK QueuedIsDelivered
