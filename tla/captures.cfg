CONSTANTS
  Notes = {n1, n2}
  Keys = {k1, k2}
  Texts = {t1, t2}
  MaxCalls = 2
  Budgets <- MCBudgets
SPECIFICATION Spec
CHECK_DEADLOCK FALSE
SYMMETRY Symmetry
INVARIANT Accounted DiscardApplied ImportedOnce ViewIsInbox
