SPECIFICATION Spec
CONSTANTS
  t1 = t1
  t2 = t2
  c1 = c1
  a1 = a1
  v1 = v1
  v2 = v2
  None = None
  Ids <- IdsT
  Kind <- KindT
  Vals <- TwoVals
  Initial = {}
  UiOps = {"create", "update", "delete", "discard", "retry"}
  Faults = {"crash", "reject", "other","loss"}
  MAX_PUSH_ATTEMPTS = 2
  MaxOps = 3
  MaxClock = 3
  MaxFaults = 1
SYMMETRY Symmetry
INVARIANTS IndInv TypeOK NoCreateLost
PROPERTIES OnlySettledLeave CreatesDelivered
CHECK_DEADLOCK FALSE
