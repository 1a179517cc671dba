CONSTANTS
  Free = {f1}
  Purchases = {p1}
  StorePurchases = {}
  Refunds = {r1}
  Holds = {h1}
  Checkouts = {c1}
  Calls = {k1}
  SpendAmounts = {2}
  MerchantRefunds = {20}
  Charges = {40}
  MaxStops = 0
  FreeAmount = 2
  PaidAmount = 4
  ReplyPrice = 2
  Price = 40
  FeePercent = 5
  NoPurchase = NoPurchase
  NoCheckout = NoCheckout
SPECIFICATION Spec
CHECK_DEADLOCK FALSE
INVARIANTS SucceededAwaitsRecovery
