SPECIFICATION Spec
CONSTANTS
  A = A
  B = B
  r1 = r1
  r2 = r2
  None = None
  Users = {A, B}
  Requests = {r1}
  MaxGrants = 4
  Stored = TRUE
  Budgets <- Scenarios
PROPERTIES ClearedOnlyIfRejected
CHECK_DEADLOCK FALSE
