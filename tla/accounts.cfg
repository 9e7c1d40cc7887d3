SPECIFICATION Spec
CONSTANTS
  Users = {"ann", "bob"}
  First = "ann"
  Roles = {"Admin", "Member"}
  Slots = {1, 2}
  Tokens = {1, 2}
  Sessions = {1, 2}
  LogLevel = "WARNING"
  MaxEvents = 3
INVARIANTS ErasedIsAnonymous LoggedOutStaysOut
PROPERTIES SecretsWorkOnce KeepsAnAdmin SecondRowNeedsOverlap
CHECK_DEADLOCK FALSE
