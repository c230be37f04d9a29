SPECIFICATION Spec
CONSTANTS
  Reqs = {r1, r2}
  Tasks = {t1, t2}
  Faults <- AllFaults
  Total = 2
  Part = 1
  PayCap = 2
  DirectCap = 1
  NoReq = NoReq
INVARIANTS TypeOK ApprovedPaidOnce ClaimHasOwner
PROPERTIES ResolutionSticks
SYMMETRY Symmetry
CHECK_DEADLOCK FALSE
