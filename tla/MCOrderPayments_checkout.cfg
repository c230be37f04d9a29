SPECIFICATION Spec
CONSTANTS
  o1 = o1
  o2 = o2
  Orders = {o1, o2}
  Pays = {p1, p2}
  Tasks = {t1, t2}
  NoOrder = NoOrder
  NoPay = NoPay
  Requests <- CheckoutRequests
  Share <- PartWallet
  Due <- OneCovered
  Targets = {}
  InitBalance = 1
  InitStock = 2
  RestoreCap = 1
  CreditCap = 2
SYMMETRY Symmetry
INVARIANTS
  TypeOK
  WalletTakenOnce
  NoSilentDoubleCharge
  WalletTakenAfterReport
CHECK_DEADLOCK FALSE
