SPECIFICATION Spec
CONSTANTS
  Users = {"ann", "bob", "cyd"}
  First = "ann"
  Roles = {}
  Slots = {1}
  Tokens = {1}
  Sessions = {1, 2}
  LogLevel = "WARNING"
  MaxEvents = 2
INVARIANT ErasureCanCommit
CHECK_DEADLOCK FALSE
