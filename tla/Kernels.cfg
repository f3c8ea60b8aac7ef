CONSTANTS
  SessionIds = {s1, s2}
  MaxRequests = 3
  MaxSessions = 1
  MaxFaults = 1
SPECIFICATION FairSpec
INVARIANTS TypeOK CellsInOrder SerialUnlessClosing
PROPERTY CellAnswered
CHECK_DEADLOCK FALSE
