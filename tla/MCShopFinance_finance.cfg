SPECIFICATION Spec
CONSTANTS
  d1 = d1
  o1 = o1
  Days = {d1}
  Week = Week
  Orders = {o1}
  Day <- MCDay
  Gross = 2
  Commission = 1
  Settlers = {s1, s2}
  Payers = {p1, p2}
  RunCap = 2
  TakesColonIds = TRUE
  Requests = {"week", "hold", "byHand", "bank", "fail", "crash", "stall"}
SYMMETRY Symmetric
INVARIANTS TypeOK HeldAfterThree NoWaitCycle
PROPERTIES MachineKept
CHECK_DEADLOCK FALSE
