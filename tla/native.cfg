SPECIFICATION NativeSpec
CONSTANTS
  t1 = t1
  v1 = v1
  v2 = v2
  w1 = w1
  w2 = w2
  None = None
  Ids <- IdsT
  Kind <- KindT
  Vals <- TwoVals
  Initial = {}
  MAX_RESULTS = 1
  Imports = {t1}
  Workers = {w1}
  UiOps = {"create", "update"}
  Faults = {"refuse", "loss", "die", "crash"}
  MAX_PUSH_ATTEMPTS = 1
  MAX_ATTEMPTS = 2
  MaxOps = 1
  MaxClock = 3
  MaxFaults = 2
SYMMETRY Symmetry
INVARIANTS NativeNoCreateLost NativeTypeOK CapturesSurvive
PROPERTIES NativeOnlySettledLeave
CHECK_DEADLOCK FALSE
