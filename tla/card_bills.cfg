SPECIFICATION Spec
CONSTANTS
  c1 = c1
  c2 = c2
  None = None
  Clients <- TwoClients
  Ops = {"buy", "split", "schedule", "generate", "payPart", "anticipate", "payBill", "delete"}
  Prices = {1}
  Payments = {1, 3}
  Discounts = {1}
  Total = 5
  Count = 2
  MaxMonth = 2
  MaxTx = 3
  MaxRequests = 5
SYMMETRY Symmetry
INVARIANTS TypeOK PaidWasPosted NeverOverpaid ChargedOnce PinnedIsBilled
CHECK_DEADLOCK FALSE
