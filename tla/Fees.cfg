SPECIFICATION FeesSpec
CONSTANTS
  i1 = i1
  i2 = i2
  p1 = p1
  p2 = p2
  w1 = w1
  w2 = w2
  m1 = m1
  m2 = m2
  Invoices = {i1, i2}
  Payments = {p1, p2}
  Workers = {w1, w2}
  Periods = {m1, m2}
  DraftTotals = {1, 2}
  Fines = {1}
  Amounts = {1, 2}
  MaxVersion = 5
  NoPeriod = NoPeriod
  NoPayment = NoPayment
SYMMETRY Symmetry
INVARIANTS
  PaidIsAllocated
  BalanceIsUnpaid
  VoidHoldsNoMoney
  ReceiptMatchesPayment
  LedgerAgrees
  CancelledNeverRefunded
  SettledHoldsNothing
  BilledOncePerPeriod
PROPERTIES
  PaysNoMoreThanDue
CHECK_DEADLOCK FALSE
