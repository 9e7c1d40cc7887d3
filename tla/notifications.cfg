SPECIFICATION FairSpec
CONSTANTS
  Users = {"ann", "bob"}
  Items = {"i1", "i2"}
  Rules = {"r1", "r2"}
  Members = {"ann", "bob"}
  Doubled = {"bob"}
  Transport = "smtp"
  RuleTypes = {"due_soon", "digest"}
  Channels = {"email"}
  MaxEvents = 2
INVARIANTS ArrivalsAreLogged SecondNeedsLoss
PROPERTIES RemindersAreCurrent OverdueIsReminded
CHECK_DEADLOCK FALSE
