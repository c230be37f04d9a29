SPECIFICATION Spec
CONSTANTS
  s1 = s1
  s2 = s2
  p1 = p1
  p2 = p2
  p3 = p3
  a1 = a1
  a2 = a2
  b1 = b1
  Shops = {s1, s2}
  Products = {p1, p2, p3}
  ShopOf <- MCShopOf
  Attempts = {a1, a2}
  WithRef = {a1}
  Cart <- MCCart
  Bulks = {b1}
  BulkLines <- MCBulkLines
  t1 = t1
  t2 = t2
  Tasks = {t1, t2}
  Connections = 2
  Initial = 1
  Levels <- MCLevels
  Requests = {"place", "cancel", "shopCancel", "deskCancel", "status", "bulk", "adjust", "crash"}
  Nothing = Nothing
INVARIANTS
  TypeOK
  StockIsSum
  HeldOnce
  OncePerAttempt
  NoStandstill
CHECK_DEADLOCK FALSE
SYMMETRY TaskSymmetry
CONSTRAINT OneDoubt
