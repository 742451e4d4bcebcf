SPECIFICATION Spec
CONSTANTS
  t1 = t1
  t2 = t2
  c1 = c1
  a1 = a1
  v1 = v1
  v2 = v2
  None = None
  Ids <- IdsT
  Kind <- KindT
  Vals <- TwoVals
  Initial = {}
  UiOps = {"create", "delete"}
  Faults = {}
  MAX_PUSH_ATTEMPTS = 3
  MaxOps = 2
  MaxClock = 3
  MaxFaults = 1
INVARIANTS NeverSyncedIsLocal
CHECK_DEADLOCK FALSE
