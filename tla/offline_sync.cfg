SPECIFICATION FairSpec
CONSTANTS
  t1 = t1
  t2 = t2
  c1 = c1
  a1 = a1
  v1 = v1
  v2 = v2
  None = None
  Ids <- IdsTC
  Kind <- KindTC
  Vals <- TwoVals
  Initial = {t1}
  UiOps = {"create", "update", "delete", "discard"}
  Faults = {"reject", "loss"}
  MAX_PUSH_ATTEMPTS = 2
  MaxOps = 2
  MaxClock = 3
  MaxFaults = 2

INVARIANTS MirrorCovers Converged
PROPERTIES ParentsFirst EveryOpSettles
CHECK_DEADLOCK FALSE
