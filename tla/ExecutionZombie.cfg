CONSTANTS
  e1 = e1
  e2 = e2
  w1 = w1
  w2 = w2
  c1 = c1
  c2 = c2
  Executions = {e1}
  Workers = {w1, w2}
  Capacity = 1
  Clients = {c1}
  ApiOps = {"submit"}
  MaxRetries = 2
  MaxAttempt = 3
  RetryMode = "ANY"
  Beating = {"executing", "muted", "finishing"}
  Faults = {"crash", "stop", "raise", "unreadable", "pump", "ack", "api"}
  MaxFaults = 3
SPECIFICATION Spec
SYMMETRY Symmetry
INVARIANTS SingleDelivery DeadLettersFinal
PROPERTIES FollowsLifecycle 
CHECK_DEADLOCK FALSE
