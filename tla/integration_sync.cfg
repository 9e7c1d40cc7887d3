SPECIFICATION FairSpec
CONSTANTS
  Items = {i1}
  Configs = {c1, c2}
  Platforms = {"jira"}
  Syncers = {s1, s2}
  Admins = {a1}
  MaxPushes = 2
  MaxEvents = 2
INVARIANTS RefsNameTheirCopies RefsHaveItems SecondRefNeedsOverlap CopiesAreKnown
PROPERTIES SyncsEnd PullCatchesUp
CHECK_DEADLOCK FALSE
