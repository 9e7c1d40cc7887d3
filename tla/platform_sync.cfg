SPECIFICATION FairSpec
CONSTANTS
  Recordings = {r1}
  Workers = {w1, w2}
  Platforms = {"zoom", "teams", "google_meet"}
  LogLevels = {"info", "warning", "error"}
  MaxRetries = 1
  MaxMeetings = 3
  MaxEvents = 2
INVARIANTS SecondImportNeedsOverlap
PROPERTIES ImportsNeedConnection RecordingsArrive ImportsAreExtracted
CHECK_DEADLOCK FALSE
