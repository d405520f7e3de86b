SPECIFICATION Spec
CONSTANTS
  i1 = i1
  i2 = i2
  p1 = p1
  p2 = p2
  w1 = w1
  w2 = w2
  m1 = m1
  m2 = m2
  Invoices = {i1}
  Payments = {p1}
  Workers = {w1, w2}
  Periods = {m1}
  DraftTotals = {4}
  Fines = {1}
  Amounts = {1, 2, 4}
  MaxVersion = 4
  NoPeriod = NoPeriod
  NoPayment = NoPayment
INVARIANTS
  RefundsWithinPayment
CHECK_DEADLOCK FALSE
