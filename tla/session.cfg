SPECIFICATION FairSpec
CONSTANTS
  A = A
  B = B
  r1 = r1
  r2 = r2
  None = None
  Users = {A, B}
  Requests = {r1}
  MaxGrants = 4
  Stored = TRUE
  Budgets <- Scenarios
INVARIANTS SessionIsWanted OneIdentity CacheIsStored
PROPERTIES RequestsSettle
CHECK_DEADLOCK FALSE
