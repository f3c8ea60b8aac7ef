CONSTANTS
  t1 = t1
  t2 = t2
  t3 = t3
  l1 = l1
  l2 = l2
  c1 = c1
  c2 = c2
  Tasks = {t1, t2}
  Executions <- MCExecutions
  Loops = {l1}
  Clients = {c1}
  JobOps = {"run", "cancel", "retry", "delete"}
  MaxRuns = 2
  MaxCrashes = 0
  MaxRetries = 0
  MaxAttempt = 1
  RetryMode = "ANY"
SPECIFICATION Spec
SYMMETRY Symmetry
INVARIANTS OverMeansOver OneExecutionPerTask
CHECK_DEADLOCK FALSE
