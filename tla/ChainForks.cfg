SPECIFICATION RequestSpec
CONSTANTS
  r1 = r1
  r2 = r2
  r3 = r3
  k = k
  b1 = b1
  b2 = b2
  None = None
  Requests = {r1, r2}
  KeyOf <- Key
  Bodies <- Body
  ReadsFirst = {r2}
INVARIANTS
  ChainIsLinear
CHECK_DEADLOCK FALSE
