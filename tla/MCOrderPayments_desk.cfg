SPECIFICATION FairSpec
CONSTANTS
  o1 = o1
  o2 = o2
  Orders = {o1}
  Pays = {p1}
  Tasks = {t1, t2}
  NoOrder = NoOrder
  NoPay = NoPay
  Requests <- DeskRequests
  Targets = {"CONFIRMED"}
  Share <- NoWallet
  Due <- OneDue
  InitBalance = 1
  InitStock = 1
  RestoreCap = 1
  CreditCap = 1
INVARIANTS
  PaidOrderWasPaid
  RecordedRefundHappened
PROPERTIES
  FailedCaptureRecovered
CHECK_DEADLOCK FALSE
