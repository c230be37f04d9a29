SPECIFICATION Spec
CONSTANTS
  d1 = d1
  o1 = o1
  Days = {d1}
  Week = Week
  Orders = {o1}
  Day <- MCDay
  Gross = 2
  Commission = 1
  Settlers = {s1}
  Payers = {p1}
  RunCap = 3
  TakesColonIds = TRUE
  Requests = {"week", "hold", "byHand", "bank", "fail", "crash", "stall"}
INVARIANTS BalanceIsSum
CHECK_DEADLOCK FALSE
