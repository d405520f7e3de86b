SPECIFICATION Spec
CONSTANTS
  Links = {"l1", "l2"}
  UserOf <- OwnUser
  KindOf <- Kinds
  Admins = {"w1"}
  Redeemers = {"r1"}
  MaxTokens = 2
  MaxVersion = 2
INVARIANTS
  FirstLoginActivates
CHECK_DEADLOCK FALSE
