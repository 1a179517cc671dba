CONSTANTS
  Free = {}
  Purchases = {p1, s1}
  StorePurchases = {s1}
  Refunds = {}
  Holds = {}
  Checkouts = {c1, c2}
  Calls = {k1, k2}
  SpendAmounts = {4}
  MerchantRefunds = {40}
  Charges = {30, 40}
  MaxStops = 1
  FreeAmount = 2
  PaidAmount = 4
  ReplyPrice = 2
  Price = 40
  FeePercent = 5
  NoPurchase = NoPurchase
  NoCheckout = NoCheckout
SPECIFICATION LiveSpec
CHECK_DEADLOCK FALSE
PROPERTIES  KeepsPromise PaidOrdersAreCredited
