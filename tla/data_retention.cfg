SPECIFICATION FairSpec
CONSTANTS
  m1 = m1
  m2 = m2
  v = v
  w = w
  Meetings = {m1, m2}
  Workspaces = {v, w}
  WorkspaceOf <- MCWorkspaceOf
  Inputs = {"recording", "pasted"}
  LogLevels = {"info", "warning", "critical"}
  NewDays = {0}
  MaxAge = 3
  MaxEvents = 2
INVARIANTS RefsAndObjectsAgree
PROPERTIES OnlyTheOldGoes OverdueGoes
CHECK_DEADLOCK FALSE
