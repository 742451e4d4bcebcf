SPECIFICATION Spec
CONSTANTS
  None = None
  ClosingDays = {1, 30, 31}
  DueDays = {1, 30}
  Days = {1, 29, 31}
  FirstMonth = 24336
  LastMonth = 24337
  Starts <- SomeDates
  Count = 3
  EditedParts = {1, 2, 3}
  Redates <- Around
  MaxEdits = 1
PROPERTY ResentPlanStays
CHECK_DEADLOCK FALSE
