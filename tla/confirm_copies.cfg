SPECIFICATION ItemsSpec
CONSTANTS
  Ids = {1, 2}
  Fields = {task, due}
  Dates = {due}
  Texts = {"a", ""}
  Empty = ""
  MaxSteps = 4
  MaxCalls = 1
INVARIANTS ConfirmUpdates
CHECK_DEADLOCK FALSE
