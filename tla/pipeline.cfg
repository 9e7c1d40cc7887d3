SPECIFICATION Spec
CONSTANTS
  Meetings = {m1}
  Tasks = {t1}
  Workers = {w1}
  ApiTasks = {a1}
  Requests = {r1, r2}
  MaxExtractRetries = 0
  MaxTranscribeRetries = 0
  Environment = "production"
  Uploads = {"file", "audio"}
  Faults = {"exception", "broker", "mark", "rollback", "s3", "time_limit", "api_crash"}
  UserEdits = {"complete", "reopen", "delete"}
  MaxTriggers = 1
  MaxCrashes = 1
INVARIANTS NoOrphanRows FileFailureVisible ExtractedHasRun
PROPERTY BoardSpec
SYMMETRY Symmetric
CHECK_DEADLOCK FALSE
