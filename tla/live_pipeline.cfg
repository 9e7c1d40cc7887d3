SPECIFICATION FairSpec
CONSTANTS
  Meetings = {m1}
  Tasks = {t1}
  Workers = {w1}
  ApiTasks = {}
  Requests = {r1}
  MaxExtractRetries = 1
  MaxTranscribeRetries = 1
  Environment = "production"
  Uploads = {"paste", "file", "audio"}
  Faults = {"exception", "worker_crash", "s3"}
  UserEdits = {}
  MaxTriggers = 1
  MaxCrashes = 1
INVARIANTS ExtractingIsOwned RefIsStored
PROPERTIES WorkEnds ExtractionRecorded
CHECK_DEADLOCK FALSE
