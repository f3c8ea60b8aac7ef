CONSTANTS
  Events = {"failed"}
  Providers = {p1}
  Workers = {w1, w2}
  MaxAttempts = 2
  MaxSpent = 2
SPECIFICATION FairSpec
INVARIANTS PendingInFlight OrderlyUndisturbed
PROPERTIES NeverStuckSending DeliverySettles
CHECK_DEADLOCK FALSE
