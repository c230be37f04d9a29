SPECIFICATION FairSpec
CONSTANTS
  u1 = u1
  u2 = u2
  k1 = k1
  o1 = o1
  Users = {u1, u2}
  TopUps = {k1}
  Owner <- MCOwner
  Orders = {o1}
  Payer <- MCPayer
  Tasks = {t1, t2}
  Polls = {p}
  Requests = {"topup", "badSignature", "transfer", "admin", "refund", "pay", "cancel", "unrecorded", "crash"}
  Initial = 1
  Amounts = {1}
  TopUpAmount = 1
  Price = 1
  Cap = 1
  PayCap = 2
  ReturnCap <- MCReturnCap
  NoUser = NoUser
  NoTopUp = NoTopUp
  NoOrder = NoOrder
INVARIANTS TypeOK MoneyConserved PaidIsCreditedOnce CapHolds 
PROPERTIES SettledIsFinal CapturedSettles TransfersEnd
CHECK_DEADLOCK FALSE
