SPECIFICATION PipelinesSpec
CONSTANTS
  j1 = j1
  a = a
  b = b
  r1 = r1
  r2 = r2
  r3 = r3
  k = k
  b1 = b1
  b2 = b2
  None = None
  Requests = {r1, r2, r3}
  KeyOf <- Key
  Bodies <- Body
  ReadsFirst = {r2}
  Jobs = {j1}
  Requested = {j1}
  Workers = {a, b}
  Operators = {}
  BatchSize = 1
  MaxAttempts = 2
  MaxAborts = 2
  NoJob = NoJob
INVARIANTS
  CompletedHasRun
  DeadIsBuried
  WorkIsHeld
  NumbersAreGapFree
  LinksAreSound
  SecondRunIsExplained
PROPERTIES
  JobsAreSettled
  EveryoneIsAnswered
CHECK_DEADLOCK FALSE
