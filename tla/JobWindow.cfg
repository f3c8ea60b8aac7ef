CONSTANTS
  t1 = t1
  t2 = t2
  t3 = t3
  l1 = l1
  l2 = l2
  c1 = c1
  c2 = c2
  Tasks = {t1, t2}
  Executions <- MCExecutions
  Loops = {l1}
  Clients = {c1}
  JobOps = {"run"}
  MaxRuns = 1
  MaxCrashes = 0
  MaxRetries = 1
  MaxAttempt = 2
  RetryMode = "ANY"
SPECIFICATION Spec
SYMMETRY Symmetry
INVARIANT OverMeansOver
CHECK_DEADLOCK FALSE
