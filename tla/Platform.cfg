SPECIFICATION PlatformSpec
CONSTANTS
  Invoices = {i1}
  Payments = {p1, p2}
  Refunds = {r1}
  Notes = {n1}
  Adjustments = {a1}
  Totals = {8}
  PaymentAmounts = {4}
  RefundAmounts = {2, 4}
  CreditAmounts = {4}
  Tolerance = 1
  NoInvoice = NoInvoice
  s1 = s1
  f1 = f1
  f2 = f2
  f3 = f3
  j1 = j1
  j2 = j2
  Students = {s1}
  Files = {f1, f2, f3}
  Clients = {"r1", "r2"}
  Size <- SizeOf
  Limit <- LimitOf
  NoEntity = NoEntity
  Keys = {1, 2, 3}
  MonthlyLimit = 1
  Dispatches = {"r1", "r2"}
  MaxResets = 2
  MaxUsed = 2
  Senders = {"r1", "r2"}
  MaxTries = 3
  MaxDeliveries = 2
  MaxFaults = 1
  Callbacks = {"r1", "r2"}
  Matching = {0, 1, 3}
  LastMinute = 3
  Jobs = {j1, j2}
  Requested = {j1}
  Workers = {"w1"}
  Operators = {"u1", "u2"}
  BatchSize = 2
  MaxAttempts = 2
  MaxAborts = 2
  Processes = {"w1", "w2"}
  Readers = {"q1"}
  Changes = {"r1", "r2"}
  PlanValue = TRUE
  Assigners = {"u1", "u2"}
  MaxSubscriptions = 2
  Applicants = {"t1", "t2"}
  SlugOf <- OneSlug
  Deciders = {"u1"}
  Scanners = {"w1"}
  TrialDays = 1
  ExtensionDays = 1
  MaxExtensions = 1
  LastDay = 2
  MaxChanges = 3
  Links = {"l1", "l2"}
  UserOf <- OneUser
  KindOf <- AllParents
  Inviters = {"w1"}
  Redeemers = {"r1", "r2"}
  MaxTokens = 2
  MaxRenewals = 2
  NoJob = NoJob
  NoValue = NoValue
INVARIANTS
  TypesOK
  MoneyAgrees
  ArrivalsAreExplained
  LimitsHold
  UnsentIsCarried
  JobsAreTrue
  FlagsAreExplained
PROPERTIES
  CancelledIsNeverSent
  LapsesWhenDue
CHECK_DEADLOCK FALSE
