SPECIFICATION Spec
CONSTANTS
  e1 = e1
  e2 = e2
  a = a
  b = b
  t1 = t1
  t2 = t2
  t3 = t3
  Events = {e1, e2}
  Handled = {e1}
  Processes = {a, b}
  Ticks = {t1, t3}
  ProcessOf <- Timers
  BatchSize = 2
  MaxAttempts = 2
  MaxReplays = 0
  ClaimMayFail = FALSE
  MaxAborts = 0
  NoEvent = NoEvent
INVARIANTS
  ClaimOwnsItsRows
CHECK_DEADLOCK FALSE
