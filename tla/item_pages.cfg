SPECIFICATION ItemsSpec
CONSTANTS
  Ids = {1, 2}
  Fields = {task, due}
  Dates = {due}
  Texts = {"a", ""}
  Empty = ""
  MaxSteps = 4
  MaxCalls = 1
INVARIANTS OwnEditsStand OwnEditsShow
CHECK_DEADLOCK FALSE
