SPECIFICATION Spec
CONSTANTS
  c1 = c1
  c2 = c2
  c3 = c3
  None = None
  Ids = {1, 2}
  Clients <- ThreeClients
  Amounts = {1, 2}
  Ops = {"create", "update", "move", "reprice", "delete", "migrate", "pay"}
  MaxRequests = 4
SYMMETRY Symmetry3
CONSTRAINT StartRows
ACTION_CONSTRAINT NewAmounts
INVARIANTS IndInv Mirrored DeadlockOutOfOrder
CHECK_DEADLOCK FALSE
