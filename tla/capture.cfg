SPECIFICATION CaptureSpec
CONSTANTS
  Meetings = {m1, m2}
  MaxPolls = 3
  MaxMounts = 1
  MaxFlight = 2
INVARIANTS StoppedIsShown TimersCanStop
PROPERTIES FollowingEnds
CHECK_DEADLOCK FALSE
