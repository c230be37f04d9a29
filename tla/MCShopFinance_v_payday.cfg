SPECIFICATION FairSpec
CONSTANTS
  d1 = d1
  o1 = o1
  Days = {d1}
  Week = Week
  Orders = {o1}
  Day <- MCDay
  Gross = 2
  Commission = 1
  Settlers = {s1}
  Payers = {p1}
  RunCap = 2
  TakesColonIds = FALSE
  Requests = {"week", "hold", "bank", "fail", "crash"}
PROPERTIES PendingIsDecided
CHECK_DEADLOCK FALSE
