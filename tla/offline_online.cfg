SPECIFICATION Spec
CONSTANTS
  t1 = t1
  t2 = t2
  c1 = c1
  a1 = a1
  v1 = v1
  v2 = v2
  None = None
  Ids <- IdsTTA
  Kind <- KindTTA
  Vals <- TwoVals
  Initial = {a1}
  UiOps = {"create", "update", "delete", "online"}
  Faults = {"loss"}
  MAX_PUSH_ATTEMPTS = 1
  MaxOps = 1
  MaxClock = 3
  MaxFaults = 1
SYMMETRY Symmetry
PROPERTIES CreatesDelivered
CHECK_DEADLOCK FALSE
