SPECIFICATION Spec
CONSTANTS
  Orders = {o1}
  Riders = {r1, r2}
  RowCap = 3
  Kinds <- MCKinds
  Tasks = {t1, t2}
  NoRider = NoRider
  NoOrder = NoOrder
SYMMETRY Symmetry
CHECK_DEADLOCK FALSE
INVARIANTS
  TypeOK
  ClaimIsTheRiders
  OffersClosed
  InStep
  DeliveryCountsOnce
PROPERTIES
  DeliveredSticks
