SPECIFICATION Spec
CONSTANTS
  c1 = c1
  c2 = c2
  c3 = c3
  None = None
  Ids = {1}
  Clients <- ThreeClients
  Amounts = {1, 2}
  Ops = {"update", "delete"}
  MaxRequests = 5
SYMMETRY Symmetry3
INVARIANTS PairHasTransaction
CHECK_DEADLOCK FALSE
