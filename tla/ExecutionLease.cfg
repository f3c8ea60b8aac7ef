CONSTANTS
  e1 = e1
  e2 = e2
  w1 = w1
  w2 = w2
  c1 = c1
  c2 = c2
  Executions = {e1}
  Workers = {w1, w2}
  Capacity = 1
  Clients = {c1}
  ApiOps = {"submit", "cancel"}
  MaxRetries = 1
  MaxAttempt = 2
  RetryMode = "TRANSIENT_ONLY"
  Beating = {"installing", "executing", "muted", "finishing"}
  Faults = {"crash", "api", "pump"}
  MaxFaults = 1
SPECIFICATION LiveSpec
 
PROPERTY CancelEnds
