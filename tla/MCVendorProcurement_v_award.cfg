SPECIFICATION Spec
CONSTANTS
  v1 = v1
  v2 = v2
  v3 = v3
  pin = pin
  farPin = farPin
  meat = meat
  fish = fish
  town = town
  t3 = t3
  Vendors = {v1}
  Profile <- MCProfile
  Wanted = {meat}
  Pincodes = {pin}
  City = town
  Quotes = {q1}
  Amounts = {1, 2}
  Quantities = {0, 4, 16}
  Tasks = {t1, t2}
  Requests = {"draft", "publish", "quote", "award", "crash"}
  NoVendor = NoVendor
  NoQuote = NoQuote
  NoReceipt = NoReceipt
  NoPlace = NoPlace
SYMMETRY Symmetric
INVARIANTS
  SelectedMeansAwarded
CHECK_DEADLOCK FALSE
