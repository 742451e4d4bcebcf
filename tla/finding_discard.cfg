SPECIFICATION PollingSpec
CONSTANTS
  t1 = t1
  t2 = t2
  c1 = c1
  a1 = a1
  v1 = v1
  v2 = v2
  None = None
  Ids <- IdsT
  Kind <- KindT
  Vals <- TwoVals
  Initial = {t1}
  UiOps = {"delete", "discard"}
  Faults = {"reject"}
  MAX_PUSH_ATTEMPTS = 1
  MaxOps = 1
  MaxClock = 3
  MaxFaults = 1
PROPERTIES DiscardRestores
CHECK_DEADLOCK FALSE
