------------------------- MODULE ExtractionPipeline -------------------------
(***************************************************************************)
(* The path of a meeting from upload to extracted action items, in one     *)
(* workspace: the API handlers that create, trigger and delete meetings    *)
(* (api/meetings.py, api/upload.py), the Celery broker, the transcription  *)
(* and extraction workers, the inline BackgroundTasks fallback, the        *)
(* `meetings` row with its row lock and READ COMMITTED visibility, the     *)
(* child rows that hang off it, and the S3 objects beside it.              *)
(*                                                                         *)
(* Variables hold COMMITTED database state.  What a transaction has        *)
(* written but not committed lives in the executor that runs it: its only  *)
(* effect on the others is the row lock of the meeting.                    *)
(*                                                                         *)
(* A few definitions are preceded by a variant with a plausible bug, which *)
(* nothing uses: with the variant in its place some property fails.        *)
(***************************************************************************)
EXTENDS Integers, FiniteSets

CONSTANTS
  Meetings,            \* meeting ids, each used for at most one meeting
  Tasks,               \* normalised task texts (task.lower().strip())
  Workers,             \* Celery worker processes (docker-compose: --concurrency=2)
  ApiTasks,            \* extractions the API process runs at once as BackgroundTasks
  Requests,            \* API requests in flight at once
  MaxExtractRetries,   \* max_retries of tasks.extract_meeting
  MaxTranscribeRetries,\* max_retries of tasks.transcribe_audio
  Environment,         \* settings.environment
  Uploads,             \* the ways meetings are created, a subset of UploadKinds
  Faults,              \* the faults that may occur, a subset of FaultKinds
  UserEdits,           \* the edits users make to items, a subset of EditKinds
  MaxTriggers,         \* bound: accepted calls of POST /meetings/{id}/extract
  MaxCrashes           \* bound: crashes of a worker or of the API process

FaultKinds == {"exception",    \* a run raises: LLM, provider, S3, database
               "broker",       \* .delay() raises
               "worker_crash", \* a worker process dies
               "time_limit",   \* a worker is killed at the hard time_limit
               "api_crash",    \* the API process restarts
               "mark",         \* the best-effort error mark itself fails
               "rollback",     \* the commit of a DELETE fails
               "s3"}           \* the best-effort S3 delete fails
UploadKinds == {"paste", "file", "audio"}
EditKinds == {"complete", "reopen", "delete"}

ASSUME PipelineAssumption ==
  /\ Workers \cap ApiTasks = {}
  /\ MaxExtractRetries \in Nat /\ MaxTranscribeRetries \in Nat
  /\ MaxTriggers \in Nat /\ MaxCrashes \in Nat
  /\ Environment \in {"development", "production"}
  /\ Uploads \subseteq UploadKinds
  /\ Faults \subseteq FaultKinds
  /\ UserEdits \subseteq EditKinds

Executors == Workers \cup ApiTasks
Kinds == {"extract", "transcribe", "inline"}
RetryLimit(k) == CASE k = "extract" -> MaxExtractRetries
                   [] k = "transcribe" -> MaxTranscribeRetries
                   [] OTHER -> 0
TryNumbers == 0..(MaxExtractRetries + MaxTranscribeRetries)

(***************************************************************************)
(* A message is a queued Celery task, or (kind "inline") an entry of       *)
(* FastAPI's BackgroundTasks; `tries` is self.request.retries.             *)
(***************************************************************************)
Messages == [kind : Kinds, meeting : Meetings, tries : TryNumbers]
Message(k, m, n) == [kind |-> k, meeting |-> m, tries |-> n]
NoJob == [kind |-> "none"]

RequestSteps == {"stored", "enqueue_audio", "trigger", "enqueue",
                 "delete_object", "delete_row"}
NoRequest == [step |-> "idle"]

Statuses == {"unborn", "draft", "extracting", "extracted", "deleted"}
LiveStatuses == {"draft", "extracting", "extracted"}
Sources == {"none", "paste", "file", "audio"}
Keys == {"audio", "transcript"}

VARIABLES
  \* the meetings table
  status, source, transcript, ref,
  \* action_items (counts, by meeting and task), knowledge_entries, extraction_runs
  openItems, doneItems, knowledge, runs,
  objects,             \* S3 objects under the meeting's prefix
  pending,             \* messages not delivered, a bag
  pc, job, lock, input, fresh,        \* executors
  request,             \* API requests
  triggers, crashes

rowVars == <<status, source, transcript, ref>>
childVars == <<openItems, doneItems, knowledge, runs>>
execVars == <<pc, job, lock, input, fresh>>
vars == <<rowVars, childVars, objects, pending, execVars, request,
          triggers, crashes>>

Live(m) == status[m] \in LiveStatuses
NoItems == [t \in Tasks |-> 0]

(* The row lock an uncommitted UPDATE of the meeting takes.  A second      *)
(* UPDATE or a DELETE of the row waits until it is released.               *)
RowUnlocked(m) ==
  \A w \in Executors : lock[w] = "held" => job[w].meeting # m

(* The UPDATE of a run's commit finds the row, and has or gets its lock.   *)
UpdatesWithoutRow(w) == lock[w] = "held" \/ RowUnlocked(job[w].meeting)
MayUpdateRow(w) ==
  /\ Live(job[w].meeting)
  /\ lock[w] = "held" \/ RowUnlocked(job[w].meeting)
-----------------------------------------------------------------------------
(* API: creating meetings                                                  *)

MayCreate(m, how) == how \in Uploads /\ status[m] = "unborn" /\ objects[m] = {}

CreateMeeting(m, hasText) ==
  /\ MayCreate(m, "paste")
  /\ status' = [status EXCEPT ![m] = "draft"]
  /\ source' = [source EXCEPT ![m] = "paste"]
  /\ transcript' = [transcript EXCEPT ![m] = hasText]
  /\ UNCHANGED <<ref, childVars, objects, pending, execVars, request, triggers, crashes>>

Step(r, s) == request[r].step = s
Advance(r, s, m, k) ==
  request' = [request EXCEPT ![r] = [step |-> s, meeting |-> m, key |-> k]]
EndRequest(r) == request' = [request EXCEPT ![r] = NoRequest]

UploadTranscriptFile(r, m) ==
  /\ Step(r, "idle") /\ MayCreate(m, "file")
  /\ status' = [status EXCEPT ![m] = "extracting"]
  /\ source' = [source EXCEPT ![m] = "file"]
  /\ transcript' = [transcript EXCEPT ![m] = TRUE]
  /\ Advance(r, "enqueue", m, "none")
  /\ UNCHANGED <<ref, childVars, objects, pending, execVars, triggers, crashes>>

(* The audio object is stored before the row that names it is committed.   *)
UploadAudio(r, m) ==
  /\ Step(r, "idle") /\ MayCreate(m, "audio")
  /\ objects' = [objects EXCEPT ![m] = @ \cup {"audio"}]
  /\ Advance(r, "stored", m, "none")
  /\ UNCHANGED <<rowVars, childVars, pending, execVars, triggers, crashes>>

CommitAudio(r) ==
  /\ Step(r, "stored")
  /\ LET m == request[r].meeting IN
       /\ status' = [status EXCEPT ![m] = "draft"]
       /\ source' = [source EXCEPT ![m] = "audio"]
       /\ ref' = [ref EXCEPT ![m] = "audio"]
       /\ Advance(r, "enqueue_audio", m, "none")
  /\ UNCHANGED <<transcript, childVars, objects, pending, execVars, triggers, crashes>>

Publish(msg) == pending' = [pending EXCEPT ![msg] = @ + 1]

(* A broker failure is logged and the upload is answered 202 all the same. *)
EnqueueTranscription(r) ==
  /\ Step(r, "enqueue_audio")
  /\ \/ Publish(Message("transcribe", request[r].meeting, 0))
     \/ "broker" \in Faults /\ UNCHANGED pending
  /\ EndRequest(r)
  /\ UNCHANGED <<rowVars, childVars, objects, execVars, triggers, crashes>>
-----------------------------------------------------------------------------
(* API: triggering extraction                                              *)

(* The status is read here and acted on in TriggerCommit; a meeting that   *)
(* is already extracting is answered at once and nothing changes.          *)
TriggerLoad(r, m) ==
  /\ Step(r, "idle") /\ triggers < MaxTriggers
  /\ status[m] \in {"draft", "extracted"}
  /\ Advance(r, "trigger", m, "none")
  /\ triggers' = triggers + 1
  /\ UNCHANGED <<rowVars, childVars, objects, pending, execVars, crashes>>

TriggerCommit(r) ==
  /\ Step(r, "trigger")
  /\ LET m == request[r].meeting IN
       /\ Live(m) /\ RowUnlocked(m)
       /\ status' = [status EXCEPT ![m] = "extracting"]
       /\ Advance(r, "enqueue", m, "none")
  /\ UNCHANGED <<source, transcript, ref, childVars, objects, pending, execVars,
                 triggers, crashes>>

(* The row was deleted meanwhile: the UPDATE matches nothing, a 500.       *)
TriggerRowGone(r) ==
  /\ Step(r, "trigger") /\ ~Live(request[r].meeting)
  /\ EndRequest(r)
  /\ UNCHANGED <<rowVars, childVars, objects, pending, execVars, triggers, crashes>>

(* Celery outside development; BackgroundTasks in development and whenever *)
(* .delay() raises.  Shared by trigger_extraction and                      *)
(* upload_transcript_file.                                                 *)
EnqueueExtraction(r) ==
  /\ Step(r, "enqueue")
  /\ \/ /\ Environment # "development"
        /\ Publish(Message("extract", request[r].meeting, 0))
     \/ /\ Environment = "development" \/ "broker" \in Faults
        /\ Publish(Message("inline", request[r].meeting, 0))
  /\ EndRequest(r)
  /\ UNCHANGED <<rowVars, childVars, objects, execVars, triggers, crashes>>
-----------------------------------------------------------------------------
(* API: deleting a meeting.  The S3 object named by the row as it was read *)
(* goes first, the row last.                                               *)

DeleteLoad(r, m) ==
  /\ Step(r, "idle") /\ Live(m)
  /\ Advance(r, "delete_object", m, IF source[m] \in {"audio", "file"} THEN ref[m]
                                                                     ELSE "none")
  /\ UNCHANGED <<rowVars, childVars, objects, pending, execVars, triggers, crashes>>

DeleteObject(r) ==
  /\ Step(r, "delete_object")
  /\ LET m == request[r].meeting
         k == request[r].key
     IN /\ \/ objects' = [objects EXCEPT ![m] = @ \ {k}]
           \/ "s3" \in Faults /\ UNCHANGED objects
        /\ Advance(r, "delete_row", m, k)
  /\ UNCHANGED <<rowVars, childVars, pending, execVars, triggers, crashes>>

(* ON DELETE CASCADE.                                                      *)
CascadeForgetsRuns(m) ==
  /\ openItems' = [openItems EXCEPT ![m] = NoItems]
  /\ doneItems' = [doneItems EXCEPT ![m] = NoItems]
  /\ knowledge' = [knowledge EXCEPT ![m] = 0]
  /\ UNCHANGED runs
Cascade(m) ==
  /\ openItems' = [openItems EXCEPT ![m] = NoItems]
  /\ doneItems' = [doneItems EXCEPT ![m] = NoItems]
  /\ knowledge' = [knowledge EXCEPT ![m] = 0]
  /\ runs' = [runs EXCEPT ![m] = {}]

(* DELETE of the row and of everything under it.                           *)
DeleteRow(r) ==
  /\ Step(r, "delete_row")
  /\ LET m == request[r].meeting IN
       /\ Live(m) /\ RowUnlocked(m)
       /\ status' = [status EXCEPT ![m] = "deleted"]
       /\ source' = [source EXCEPT ![m] = "none"]
       /\ transcript' = [transcript EXCEPT ![m] = FALSE]
       /\ ref' = [ref EXCEPT ![m] = "none"]
       /\ Cascade(m)
  /\ EndRequest(r)
  /\ UNCHANGED <<objects, pending, execVars, triggers, crashes>>

(* Another request deleted the row first, or the commit fails.             *)
DeleteNothing(r) ==
  /\ Step(r, "delete_row")
  /\ ~Live(request[r].meeting) \/ "rollback" \in Faults
  /\ EndRequest(r)
  /\ UNCHANGED <<rowVars, childVars, objects, pending, execVars, triggers, crashes>>
-----------------------------------------------------------------------------
(* Users editing items (api/items.py)                                      *)

EditItems(m, t, open, done) ==
  /\ openItems' = [openItems EXCEPT ![m][t] = open]
  /\ doneItems' = [doneItems EXCEPT ![m][t] = done]
  /\ UNCHANGED <<rowVars, knowledge, runs, objects, pending, execVars, request,
                 triggers, crashes>>

CompleteItem(m, t) ==
  /\ "complete" \in UserEdits /\ openItems[m][t] > 0
  /\ EditItems(m, t, openItems[m][t] - 1, doneItems[m][t] + 1)

ReopenItem(m, t) ==
  /\ "reopen" \in UserEdits /\ doneItems[m][t] > 0
  /\ EditItems(m, t, openItems[m][t] + 1, doneItems[m][t] - 1)

DeleteItem(m, t) ==
  /\ "delete" \in UserEdits
  /\ \/ openItems[m][t] > 0 /\ EditItems(m, t, openItems[m][t] - 1, doneItems[m][t])
     \/ doneItems[m][t] > 0 /\ EditItems(m, t, openItems[m][t], doneItems[m][t] - 1)
-----------------------------------------------------------------------------
(* Executors: a Celery worker process, or a BackgroundTask of the API      *)

Goto(w, p) == pc' = [pc EXCEPT ![w] = p]
(* The session is closed: an open transaction is rolled back.              *)
Unlock(w) == lock' = [lock EXCEPT ![w] = "none"]
Reset(w) ==
  /\ Goto(w, "idle") /\ Unlock(w)
  /\ job' = [job EXCEPT ![w] = NoJob]
  /\ input' = [input EXCEPT ![w] = "none"]
  /\ fresh' = [fresh EXCEPT ![w] = {}]

(* A worker takes a message with task_acks_late: it owns it until it acks. *)
Receive(w, msg) ==
  /\ pc[w] = "idle" /\ pending[msg] > 0
  /\ (msg.kind = "inline") <=> (w \in ApiTasks)
  /\ pending' = [pending EXCEPT ![msg] = @ - 1]
  /\ job' = [job EXCEPT ![w] = msg]

(* transcript_text or transcript_ref or "" *)
TranscriptTextOnly(m) == IF transcript[m] THEN "text" ELSE "none"
TranscriptInput(m) == IF transcript[m] THEN "text" ELSE ref[m]

(* SELECT of the meeting.  `meeting.status = "extracting"` is an UPDATE    *)
(* only when the loaded status differs.                                    *)
LoadMeeting(w, msg) ==
  /\ Receive(w, msg) /\ Live(msg.meeting)
  /\ lock' = [lock EXCEPT ![w] = IF status[msg.meeting] = "extracting"
                                 THEN "none" ELSE "wanted"]
  /\ input' = [input EXCEPT ![w] = IF msg.kind = "transcribe" THEN "none"
                                   ELSE TranscriptInput(msg.meeting)]
  /\ Goto(w, "loaded")
  /\ UNCHANGED <<rowVars, childVars, objects, fresh, request, triggers, crashes>>

MeetingNotFound(w, msg) ==
  /\ Receive(w, msg) /\ ~Live(msg.meeting)
  /\ Goto(w, "failed")
  /\ UNCHANGED <<rowVars, childVars, objects, lock, input, fresh, request,
                 triggers, crashes>>

(* session.flush(): the row lock is taken, nothing is visible yet.         *)
MarkExtracting(w) ==
  /\ pc[w] = "loaded"
  /\ \/ lock[w] = "none" /\ UNCHANGED lock
     \/ /\ lock[w] = "wanted" /\ Live(job[w].meeting) /\ RowUnlocked(job[w].meeting)
        /\ lock' = [lock EXCEPT ![w] = "held"]
  /\ Goto(w, CASE job[w].kind = "transcribe" -> "transcribe"
               [] job[w].kind # "transcribe" /\ input[w] = "none" -> "empty"
               [] OTHER -> "llm")
  /\ UNCHANGED <<rowVars, childVars, objects, pending, job, input, fresh, request,
                 triggers, crashes>>

(* Nothing to extract from: extracted at once, no ExtractionRun.           *)
FinishEmpty(w) ==
  /\ pc[w] = "empty"
  /\ LET m == job[w].meeting IN
       /\ MayUpdateRow(w)
       /\ status' = [status EXCEPT ![m] = "extracted"]
  /\ Unlock(w) /\ Goto(w, "ack")
  /\ UNCHANGED <<source, transcript, ref, childVars, objects, pending, job, input, fresh,
                 request, triggers, crashes>>

(* Tasks of the open items of the workspace of m.                          *)
OpenTasks(m) == {t \in Tasks : \E n \in Meetings : openItems[n][t] > 0}

(* The model answers and the open tasks of the workspace are read: what is *)
(* inserted later is decided here, from what is committed now.             *)
ExtractItems(w, found) ==
  /\ pc[w] = "llm"
  /\ fresh' = [fresh EXCEPT ![w] = found \ OpenTasks(job[w].meeting)]
  /\ Goto(w, "knowledge")
  /\ UNCHANGED <<rowVars, childVars, objects, pending, job, lock, input, request,
                 triggers, crashes>>

(* Knowledge extraction returns entries or fails (swallowed); then one     *)
(* commit of items, entries, run record and status.                        *)
CommitExtraction(w, entries) ==
  /\ pc[w] = "knowledge"
  /\ LET m == job[w].meeting IN
       /\ MayUpdateRow(w)
       /\ status' = [status EXCEPT ![m] = "extracted"]
       /\ openItems' = [openItems EXCEPT ![m] =
                          [t \in Tasks |-> IF t \in fresh[w] THEN @[t] + 1 ELSE @[t]]]
       /\ knowledge' = [knowledge EXCEPT ![m] = @ + entries]
       /\ runs' = [runs EXCEPT ![m] = @ \cup {"ok"}]
  /\ Unlock(w) /\ Goto(w, "ack")
  /\ fresh' = [fresh EXCEPT ![w] = {}]
  /\ UNCHANGED <<source, transcript, ref, doneItems, objects, pending, job, input, request,
                 triggers, crashes>>

(* Transcription: download and transcribe, store the text in S3, commit.   *)
TranscribeUnsaved(w) ==
  /\ pc[w] = "transcribe" /\ "audio" \in objects[job[w].meeting]
  /\ Goto(w, "commit")
  /\ UNCHANGED <<rowVars, childVars, objects, pending, job, lock, input, fresh, request,
                 triggers, crashes>>
Transcribe(w) ==
  /\ pc[w] = "transcribe" /\ "audio" \in objects[job[w].meeting]
  /\ Goto(w, "save")
  /\ UNCHANGED <<rowVars, childVars, objects, pending, job, lock, input, fresh, request,
                 triggers, crashes>>

SaveTranscript(w) ==
  /\ pc[w] = "save"
  /\ objects' = [objects EXCEPT ![job[w].meeting] = @ \cup {"transcript"}]
  /\ Goto(w, "commit")
  /\ UNCHANGED <<rowVars, childVars, pending, job, lock, input, fresh, request,
                 triggers, crashes>>

(* What a provider may make of a recording: a text, and segments of which  *)
(* some are spoken or all are blank.                                       *)
TranscriptionResult == [text : BOOLEAN, segments : {"none", "blank", "spoken"}]

WhisperResults == TranscriptionResult

(* Without a text of its own an answer of Deepgram takes that of its       *)
(* utterances.                                                             *)
DeepgramResults ==
  {[a EXCEPT !.text = @ \/ a.segments = "spoken"] : a \in TranscriptionResult}

(* Uploaded, submitted and polled until completed; an error or a hundred   *)
(* and twenty polls without an end raise, as any failing call does.        *)
AssemblyAIResults == TranscriptionResult

Results == WhisperResults \cup DeepgramResults \cup AssemblyAIResults

(* With segments, the transcript has a line for each, if only of a speaker *)
(* and a time; else it is the text, and that of silence is empty.          *)
Formatted(a) == IF a.segments = "none" THEN a.text ELSE TRUE

(* "extracting" becomes visible only now, if this run wrote it at all.     *)
CommitTranscript(w, result) ==
  /\ pc[w] = "commit"
  /\ LET m == job[w].meeting IN
       /\ MayUpdateRow(w)
       /\ status' = [status EXCEPT ![m] = IF lock[w] = "held" THEN "extracting" ELSE @]
       /\ transcript' = [transcript EXCEPT ![m] = Formatted(result)]
       /\ ref' = [ref EXCEPT ![m] = "transcript"]
  /\ Unlock(w) /\ Goto(w, "enqueue")
  /\ UNCHANGED <<source, childVars, objects, pending, job, input, fresh, request,
                 triggers, crashes>>

EnqueueAfterTranscription(w) ==
  /\ pc[w] = "enqueue"
  /\ Publish(Message("extract", job[w].meeting, 0))
  /\ Goto(w, "ack")
  /\ UNCHANGED <<rowVars, childVars, objects, job, lock, input, fresh, request,
                 triggers, crashes>>

Ack(w) ==
  /\ pc[w] = "ack" /\ Reset(w)
  /\ UNCHANGED <<rowVars, childVars, objects, pending, request, triggers, crashes>>
-----------------------------------------------------------------------------
(* Failure of a run                                                        *)

Raise(w) ==
  /\ Goto(w, "failed") /\ Unlock(w)
  /\ fresh' = [fresh EXCEPT ![w] = {}]
  /\ UNCHANGED <<rowVars, childVars, objects, pending, job, input, request,
                 triggers, crashes>>

(* The UPDATE of a row deleted meanwhile matches nothing: StaleDataError.  *)
RowGone(w) ==
  /\ \/ pc[w] = "loaded" /\ lock[w] = "wanted"
     \/ pc[w] \in {"empty", "knowledge", "commit"}
  /\ ~Live(job[w].meeting)
  /\ Raise(w)

AudioGone(w) ==
  /\ pc[w] = "transcribe" /\ "audio" \notin objects[job[w].meeting]
  /\ Raise(w)

RunRaises(w) ==
  /\ \/ "exception" \in Faults /\ pc[w] \in {"loaded", "empty", "llm", "knowledge",
                                             "transcribe", "save", "commit"}
     \/ "broker" \in Faults /\ pc[w] = "enqueue"
  /\ Raise(w)

(* An extraction that fails records an error run, a transcription nothing. *)
NoFailureRecord(k) == {}
FailureRecord(k) == IF k = "transcribe" THEN {} ELSE {"error"}

(* A session of its own sets the meeting back to draft: an UPDATE of the   *)
(* status only if it was not draft when the meeting was loaded.            *)
MarkLoad(w) ==
  /\ pc[w] = "failed" /\ Live(job[w].meeting)
  /\ lock' = [lock EXCEPT ![w] = IF status[job[w].meeting] = "draft" THEN "none"
                                                                    ELSE "wanted"]
  /\ Goto(w, "mark")
  /\ UNCHANGED <<rowVars, childVars, objects, pending, job, input, fresh, request,
                 triggers, crashes>>

MarkDraft(w) ==
  /\ pc[w] = "mark"
  /\ LET m == job[w].meeting IN
       /\ Live(m)
       /\ \/ lock[w] = "none" /\ UNCHANGED status
          \/ /\ lock[w] = "wanted" /\ RowUnlocked(m)
             /\ status' = [status EXCEPT ![m] = "draft"]
       /\ runs' = [runs EXCEPT ![m] = @ \cup FailureRecord(job[w].kind)]
  /\ Unlock(w) /\ Goto(w, "retry")
  /\ UNCHANGED <<source, transcript, ref, openItems, doneItems, knowledge, objects,
                 pending, job, input, fresh, request, triggers, crashes>>

(* No such meeting any more, or the mark itself fails and is only logged.  *)
MarkNothing(w) ==
  /\ pc[w] \in {"failed", "mark"}
  /\ ~Live(job[w].meeting) \/ "mark" \in Faults
  /\ Unlock(w) /\ Goto(w, "retry")
  /\ UNCHANGED <<rowVars, childVars, objects, pending, job, input, fresh, request,
                 triggers, crashes>>

(* self.retry: a new message with one more try, the old one is acked.      *)
MayRetry(w) == job[w].kind # "inline" /\ job[w].tries < RetryLimit(job[w].kind)
SameTry(msg) == Message(msg.kind, msg.meeting, msg.tries)
NextTry(msg) == Message(msg.kind, msg.meeting, msg.tries + 1)

RetryTask(w) ==
  /\ pc[w] = "retry" /\ MayRetry(w)
  /\ Publish(NextTry(job[w])) /\ Reset(w)
  /\ UNCHANGED <<rowVars, childVars, objects, request, triggers, crashes>>

(* Retries used up, or the retry cannot be published: Celery rejects the   *)
(* message without requeueing it.                                          *)
GiveUp(w) ==
  /\ pc[w] = "retry"
  /\ ~MayRetry(w) \/ "broker" \in Faults
  /\ Reset(w)
  /\ UNCHANGED <<rowVars, childVars, objects, pending, request, triggers, crashes>>
-----------------------------------------------------------------------------
(* Crashes                                                                 *)

Crash == crashes < MaxCrashes /\ crashes' = crashes + 1

(* task_reject_on_worker_lost: the unacked message is delivered again.     *)
CrashAfterEarlyAck(w) ==
  /\ "worker_crash" \in Faults /\ Crash
  /\ w \in Workers /\ pc[w] # "idle" /\ Reset(w)
  /\ UNCHANGED <<rowVars, childVars, objects, pending, request, triggers>>
WorkerCrash(w) ==
  /\ "worker_crash" \in Faults /\ Crash
  /\ w \in Workers /\ pc[w] # "idle"
  /\ Publish(job[w]) /\ Reset(w)
  /\ UNCHANGED <<rowVars, childVars, objects, request, triggers>>

(* The worker dies between publishing the retry and acking the original.   *)
CrashAfterRetry(w) ==
  /\ "worker_crash" \in Faults /\ Crash
  /\ w \in Workers /\ pc[w] = "retry" /\ MayRetry(w)
  /\ pending' = [pending EXCEPT ![job[w]] = @ + 1, ![NextTry(job[w])] = @ + 1]
  /\ Reset(w)
  /\ UNCHANGED <<rowVars, childVars, objects, request, triggers>>

(* Only tasks.transcribe_audio has a time_limit; on that path Celery acks. *)
TimeLimit(w) ==
  /\ "time_limit" \in Faults
  /\ pc[w] # "idle" /\ job[w].kind = "transcribe"
  /\ Reset(w)
  /\ UNCHANGED <<rowVars, childVars, objects, pending, request, triggers, crashes>>

(* Requests in flight and BackgroundTasks die with the API process.        *)
ApiCrash ==
  /\ "api_crash" \in Faults /\ Crash
  /\ request' = [r \in Requests |-> NoRequest]
  /\ pending' = [msg \in Messages |-> IF msg.kind = "inline" THEN 0 ELSE pending[msg]]
  /\ pc' = [w \in Executors |-> IF w \in ApiTasks THEN "idle" ELSE pc[w]]
  /\ job' = [w \in Executors |-> IF w \in ApiTasks THEN NoJob ELSE job[w]]
  /\ lock' = [w \in Executors |-> IF w \in ApiTasks THEN "none" ELSE lock[w]]
  /\ input' = [w \in Executors |-> IF w \in ApiTasks THEN "none" ELSE input[w]]
  /\ fresh' = [w \in Executors |-> IF w \in ApiTasks THEN {} ELSE fresh[w]]
  /\ UNCHANGED <<rowVars, childVars, objects, triggers>>
-----------------------------------------------------------------------------
Init ==
  /\ status = [m \in Meetings |-> "unborn"]
  /\ source = [m \in Meetings |-> "none"]
  /\ transcript = [m \in Meetings |-> FALSE]
  /\ ref = [m \in Meetings |-> "none"]
  /\ openItems = [m \in Meetings |-> NoItems]
  /\ doneItems = [m \in Meetings |-> NoItems]
  /\ knowledge = [m \in Meetings |-> 0]
  /\ runs = [m \in Meetings |-> {}]
  /\ objects = [m \in Meetings |-> {}]
  /\ pending = [msg \in Messages |-> 0]
  /\ pc = [w \in Executors |-> "idle"]
  /\ job = [w \in Executors |-> NoJob]
  /\ lock = [w \in Executors |-> "none"]
  /\ input = [w \in Executors |-> "none"]
  /\ fresh = [w \in Executors |-> {}]
  /\ request = [r \in Requests |-> NoRequest]
  /\ triggers = 0 /\ crashes = 0

RequestStep(r) ==
  \/ CommitAudio(r) \/ EnqueueTranscription(r)
  \/ TriggerCommit(r) \/ TriggerRowGone(r) \/ EnqueueExtraction(r)
  \/ DeleteObject(r) \/ DeleteRow(r) \/ DeleteNothing(r)

NewRequest(r) ==
  \E m \in Meetings : \/ UploadTranscriptFile(r, m) \/ UploadAudio(r, m)
                      \/ TriggerLoad(r, m) \/ DeleteLoad(r, m)

ExecutorStep(w) ==
  \/ \E msg \in Messages : LoadMeeting(w, msg) \/ MeetingNotFound(w, msg)
  \/ MarkExtracting(w) \/ FinishEmpty(w)
  \/ \E found \in SUBSET Tasks : ExtractItems(w, found)
  \/ \E entries \in {0, 1} : CommitExtraction(w, entries)
  \/ Transcribe(w) \/ SaveTranscript(w)
  \/ \E result \in Results : CommitTranscript(w, result)
  \/ EnqueueAfterTranscription(w) \/ Ack(w)
  \/ RowGone(w) \/ AudioGone(w)
  \/ MarkLoad(w) \/ MarkDraft(w) \/ MarkNothing(w) \/ RetryTask(w) \/ GiveUp(w)

UserStep ==
  \/ \E m \in Meetings, hasText \in BOOLEAN : CreateMeeting(m, hasText)
  \/ \E m \in Meetings, t \in Tasks : \/ CompleteItem(m, t) \/ ReopenItem(m, t)
                                      \/ DeleteItem(m, t)

FaultStep ==
  \/ \E w \in Executors : \/ RunRaises(w) \/ WorkerCrash(w) \/ CrashAfterRetry(w)
                          \/ TimeLimit(w)
  \/ ApiCrash

Next ==
  \/ \E r \in Requests : RequestStep(r) \/ NewRequest(r)
  \/ \E w \in Executors : ExecutorStep(w)
  \/ UserStep
  \/ FaultStep

Spec == Init /\ [][Next]_vars

(* A request the API has accepted and a message a worker can take are      *)
(* carried on; no fault, user or new request is ever obliged to occur.     *)
FairSpec == /\ Spec
            /\ \A r \in Requests : WF_vars(RequestStep(r))
            /\ \A w \in Executors : WF_vars(ExecutorStep(w))
-----------------------------------------------------------------------------
(* Properties *)

ExecSteps == {"idle", "loaded", "empty", "llm", "knowledge", "transcribe", "save",
              "commit", "enqueue", "ack", "failed", "mark", "retry"}

(* Type invariant. *)
TypeOK ==
  /\ status \in [Meetings -> Statuses]
  /\ source \in [Meetings -> Sources]
  /\ transcript \in [Meetings -> BOOLEAN]
  /\ ref \in [Meetings -> Keys \cup {"none"}]
  /\ openItems \in [Meetings -> [Tasks -> Nat]]
  /\ doneItems \in [Meetings -> [Tasks -> Nat]]
  /\ knowledge \in [Meetings -> Nat]
  /\ runs \in [Meetings -> SUBSET {"ok", "error"}]
  /\ objects \in [Meetings -> SUBSET Keys]
  /\ pending \in [Messages -> Nat]
  /\ pc \in [Executors -> ExecSteps]
  /\ job \in [Executors -> Messages \cup {NoJob}]
  /\ \A w \in Executors : pc[w] # "idle" => job[w] \in Messages
  /\ lock \in [Executors -> {"none", "wanted", "held"}]
  /\ input \in [Executors -> {"none", "text"} \cup Keys]
  /\ fresh \in [Executors -> SUBSET Tasks]
  /\ request \in [Requests -> {NoRequest} \cup
                    [step : RequestSteps, meeting : Meetings, key : Keys \cup {"none"}]]
  /\ triggers \in 0..MaxTriggers
  /\ crashes \in 0..MaxCrashes

(* A transaction that wrote a meeting row keeps everyone else off it until *)
(* it ends: at most one executor holds the lock, and the row is there.     *)
RowLockExclusive ==
  \A w \in Executors : lock[w] = "held" =>
    /\ pc[w] # "idle" /\ Live(job[w].meeting)
    /\ \A x \in Executors \ {w} : lock[x] = "held" => job[x].meeting # job[w].meeting

(* Ids are fresh: no message, run or request names a meeting that was      *)
(* never created, and an audio upload that has stored its object is the    *)
(* only one to have its id.                                                *)
Uncreated(m) == status[m] = "unborn"
NamesAreBorn ==
  /\ \A msg \in Messages : pending[msg] > 0 => ~Uncreated(msg.meeting)
  /\ \A w \in Executors : pc[w] # "idle" => ~Uncreated(job[w].meeting)
  /\ \A r \in Requests : ~Step(r, "idle") /\ ~Step(r, "stored")
                          => ~Uncreated(request[r].meeting)
  /\ \A r \in Requests : Step(r, "stored") =>
       /\ Uncreated(request[r].meeting) /\ "audio" \in objects[request[r].meeting]
       /\ \A q \in Requests \ {r} : Step(q, "stored")
                                     => request[q].meeting # request[r].meeting

(* Only an audio upload is ever transcribed. *)
AudioOrDeleted(m) == source[m] = "audio" \/ status[m] = "deleted"
TranscribesAudioOnly ==
  /\ \A msg \in Messages : msg.kind = "transcribe" /\ pending[msg] > 0
                            => AudioOrDeleted(msg.meeting)
  /\ \A w \in Executors : pc[w] # "idle" /\ job[w].kind = "transcribe"
                           => AudioOrDeleted(job[w].meeting)
  /\ \A r \in Requests : Step(r, "enqueue_audio") => AudioOrDeleted(request[r].meeting)

(* The run of w has neither committed nor marked its failure, and will do  *)
(* one or the other.                                                       *)
Working(w) ==
  /\ pc[w] \notin {"idle", "ack", "retry"}
  /\ pc[w] = "mark" => lock[w] = "wanted"

(* Someone is still going to change the status of m: a message, a run, or  *)
(* a request about to enqueue one.                                         *)
Owned(m) ==
  \/ \E msg \in Messages : msg.meeting = m /\ pending[msg] > 0
  \/ \E w \in Executors : Working(w) /\ job[w].meeting = m
  \/ \E r \in Requests : Step(r, "enqueue") /\ request[r].meeting = m

(* What the inline fallback loses in a restart, and what a hard kill or a  *)
(* failed error mark leaves behind, has no owner.                          *)
LossyFaults == {"api_crash", "time_limit", "mark"}

(* POST /extract answers "extracting" without doing anything when the      *)
(* status says so (meetings.py:281), so a meeting may say so only while    *)
(* somebody works on it; otherwise no later request could revive it.       *)
ExtractingIsOwned ==
  Faults \cap LossyFaults = {} =>
    \A m \in Meetings : status[m] = "extracting" => Owned(m)

(* Action items, knowledge entries and extraction runs exist only under a  *)
(* meeting that exists, whatever runs were in flight when it was deleted.  *)
NoOrphanRows ==
  \A m \in Meetings : ~Live(m) =>
    /\ openItems[m] = NoItems /\ doneItems[m] = NoItems
    /\ knowledge[m] = 0 /\ runs[m] = {}

BeingDeleted(m) == \E r \in Requests : Step(r, "delete_row") /\ request[r].meeting = m

(* transcript_ref names an object that is in S3, unless a request is about *)
(* to delete the meeting: an object is stored before the row that names it *)
(* is committed, also when a run fails, is repeated or is overtaken.       *)
RefIsStored ==
  Faults \cap {"api_crash", "rollback"} = {} =>
    \A m \in Meetings :
      Live(m) /\ ref[m] # "none" => ref[m] \in objects[m] \/ BeingDeleted(m)

(* A file upload that is back in draft has an error run for                *)
(* GET /upload/status to show (upload.py:505).                             *)
FileFailureVisible ==
  \A m \in Meetings : source[m] = "file" /\ status[m] = "draft" => "error" \in runs[m]

(* The inductive invariant behind the theorems of ExtractionPipelineProofs. *)
PipelineInv ==
  /\ RowLockExclusive /\ NamesAreBorn /\ TranscribesAudioOnly
  /\ NoOrphanRows /\ FileFailureVisible

(* A meeting that has a transcript is "extracted" only if an extraction    *)
(* run succeeded, also when a trigger overtook the transcription.          *)
ExtractedHasRun ==
  \A m \in Meetings : status[m] = "extracted" /\ transcript[m] => "ok" \in runs[m]

(* The columns and tables a reader sees are the variables of MeetingBoard;  *)
(* queues, workers, locks, requests and objects have no counterpart there. *)
Board == INSTANCE MeetingBoard WITH
  Meetings <- Meetings, Tasks <- Tasks,
  status <- status, openItems <- openItems, doneItems <- doneItems,
  knowledge <- knowledge, runs <- runs

(* Everything a reader of the database can observe is a step of            *)
(* MeetingBoard: extractions appear atomically, failures leave no trace    *)
(* but their record, and a deleted meeting never comes back.               *)
BoardSpec == Board!Spec

(* The retries of a job end: a meeting with work left has none eventually. *)
WorkEnds == \A m \in Meetings : Owned(m) ~> ~Owned(m)

(* An extraction of a transcript that was accepted leaves an extraction    *)
(* run, successful or not, unless the meeting is deleted.                  *)
ExtractionRecorded ==
  \A m \in Meetings :
    transcript[m] /\ (\E r \in Requests : Step(r, "enqueue") /\ request[r].meeting = m)
      ~> runs[m] # {} \/ ~Live(m)
=============================================================================
