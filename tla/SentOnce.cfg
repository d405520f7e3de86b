SPECIFICATION Spec
CONSTANTS
  Workers = {w1, w2}
  MaxAttempts = 3
  MaxDeliveries = 2
  MaxFaults = 1
INVARIANTS
  SentOnce
CHECK_DEADLOCK FALSE
