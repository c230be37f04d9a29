SPECIFICATION Spec
CONSTANTS
  v1 = v1
  v2 = v2
  v3 = v3
  pin = pin
  farPin = farPin
  meat = meat
  fish = fish
  town = town
  t3 = t3
  Vendors = {v1, v2, v3}
  Profile <- MCProfile
  Wanted = {meat}
  Pincodes = {pin}
  City = town
  Quotes = {q1, q2}
  Amounts = {1}
  Quantities = {0, 4, 16}
  Tasks = {t1, t2, t3}
  Requests = {"draft", "edit", "publish", "close", "accept", "decline", "quote", "award", "inHouse", "supply", "evidence", "receive", "crash"}
  NoVendor = NoVendor
  NoQuote = NoQuote
  NoReceipt = NoReceipt
  NoPlace = NoPlace
SYMMETRY Symmetric
INVARIANTS
  TypeOK
  PackedWithEvidence
  AwardMatchesSupply
PROPERTIES
  TenderKept
CHECK_DEADLOCK FALSE
CONSTRAINT Bound
