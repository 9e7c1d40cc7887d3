# Synthesis: a verification project

Synthesis turns meetings into action items. A FastAPI service
(`src/backend/app`) accepts pasted notes, transcript files and recordings;
Celery workers transcribe the recordings and have a language model extract
action items and knowledge entries; further workers import cloud recordings,
copy items to project-management tools, send reminders and delete what is too
old; a React client submits, polls, and shows the items. This directory holds
TLA+ models of that system, TLC configurations that check them on small
instances, and proofs checked by TLAPS.

1. [Inventory](#inventory): the parts of the system
2. [Modules](#modules): what is modelled and how it corresponds to the code
3. [Runs](#runs): what TLC checks, with bounds
4. [Fairness](#fairness): what the liveness properties assume
5. [Proofs](#proofs): what TLAPS proves, and how
6. [Findings](#findings): where code and comments disagree
7. [Not modelled](#not-modelled), and the [plan](#plan)

Paths are relative to `src/backend/app` unless they begin with `src/`.

## Inventory

The processes are: the API (one event loop, many requests in flight; it also
runs `BackgroundTasks` after a response), Celery workers
(`docker-compose.yml`: `--concurrency=2`), Celery beat, and browsers. They
share PostgreSQL (READ COMMITTED), S3 and Redis (broker, rate limits, cost
counters). Hardly anybody talks to anybody directly: everything goes through a
row, an object, a message or a counter, and that is where the hard behaviour is.

| Component | State | Operations | Hard behaviour | What makes it correct |
|---|---|---|---|---|
| **Extraction pipeline** `api/meetings.py`, `api/upload.py`, `workers/extraction_worker.py`, `workers/transcription_worker.py`, `workers/celery_app.py`, `services/storage.py` | `meetings`, `extraction_runs`, items, entries, S3 objects, queue | create, upload, trigger, transcribe, extract, mark failure, retry, delete | two runs of one meeting; status read, then set; late ack and redelivery; commit, then enqueue; deletion under way of a run; row lock held during model calls | no meeting stays "extracting" with nobody at work; no row outlives its meeting; references name stored objects; extraction is atomic; failures show |
| **Integration sync** `workers/integration_sync_worker.py`, `services/integrations/*`, `api/integrations.py` | `item_integration_refs`, configs, items of the tool | push one, push all, pull, configure | look-up and insert with no constraint; external effect before the commit; locks held until one late commit | refs name copies of their own item; duplicates need a race; finished work is taken over |
| **Platform sync** `workers/platform_sync_worker.py`, `services/platforms/*`, `api/platforms.py` | imported `meetings`, platform config, tokens | connect, disconnect, sync, hand over to extraction | concurrent imports; commit, then enqueue; tokens refreshed and not stored | each recording becomes one meeting and is extracted |
| **Retention** `services/retention.py`, `workers/compliance_worker.py`, `api/compliance.py` | policies, meetings, items, S3 objects | apply policy, edit policy, erase a user | objects removed before the commit; partial failures | nothing goes too early, everything overdue goes, no name without object |
| **Notifications** `services/notifications.py`, `workers/notification_worker.py`, `api/notifications.py` | rules, log | due soon, overdue, digest, test, run now | sends before the one commit that records them | what arrived is logged; nobody is told twice but after a failure, or about what is done |
| **Accounts** `api/auth.py`, `auth/*`, `api/mfa.py`, `api/workspace.py`, `services/retention.py` (erasure) | users, memberships, tokens, second factors, revoked sessions | login, SSO, reset, invite, accept, verify, log out, change role, remove, erase | read, check and write in one request with no lock | secrets are used once; log-out holds; a workspace keeps an administrator; the erased stay anonymous |
| **Extraction algorithms** `services/extraction_service.py`, `services/knowledge_service.py`, `services/extraction.py` | windows, answers | chunk, ask, merge | boundaries of windows; similarity is not transitive | nothing is skipped, nothing is kept twice or lost |
| **Status polling** `src/frontend/src/pages/CapturePage.tsx`, `MeetingStatusPage.tsx`, `hooks/usePolling.ts` | phase, timer, refs | submit, poll, give up, redirect | overlapping polls, late answers, unmounted pages | timers can be stopped; a page that stops says why |
| **Item pages** `src/frontend/src/pages/ReviewPage.tsx`, `TrackerPage.tsx`, `components/ActionItemCard.tsx`, `api/items.py` | query cache, forms, `action_items` | list, edit, save, cancel, delete, confirm all | a refetch from before an edit; forms that outlive their item | what a user saved stands and is shown |
| Rate limits, cost | Redis counters | count, refuse, record | hour boundary, fails open | bounded use |
| Knowledge base, item comments | rows | create, edit, delete | none of their own | |
| Dashboard, BI feed, reporting, export, chat | none of their own | queries, prompts | none | |
| Audit, logging, metrics, tracing | append-only | write | log calls that raise (below) | |
| Application, configuration, database | session factory | transaction per request | visibility and locks, part of every model | |
| Evaluation harness, load tests | none | offline | none | |

How the parts interact: *capture* submits to the *pipeline* and polls it; the
pipeline feeds *items*; *platform sync* creates meetings and enqueues
extractions; *integration sync* and *notifications* read items; *retention*
deletes meetings, items and objects beside the pipeline; *erasure* and sign-in
write the same users. `PROJECT.json` lists every component with its status and
every hazard with its line.

## Modules

| Module | What it is |
|---|---|
| `ExtractionPipeline` | the pipeline in detail, and its properties |
| `MeetingBoard` | abstract specification: what a reader of the database may see of meetings. Implemented by `ExtractionPipeline`, used by `CaptureFlow` |
| `IntegrationSync` | pushes, pulls and configuration of a project-management tool |
| `PlatformSync` | import of cloud recordings |
| `DataRetention` | the daily retention job |
| `Notifications` | rules, reminders, digests |
| `Accounts` | users, members, tokens, sessions, second factor, erasure |
| `TranscriptExtraction` | windows and chunks of a transcript, merging of answers, in the current and the older service |
| `CaptureFlow` | a browser tab that follows meetings, composed with `MeetingBoard` |
| `ItemPages` | the review page and the tracker, their cache, and the API of items |
| `MCExtractionPipeline`, `MCDataRetention`, `MCTranscriptExtraction` | symmetry and constants for TLC |
| `ExtractionPipelineProofs`, `IntegrationSyncProofs`, `PlatformSyncProofs`, `DataRetentionProofs`, `NotificationsProofs`, `AccountsProofs`, `TranscriptExtractionProofs` | theorems about the modules of those names, and their proofs |
| `BrowserProofs` | theorems about `CaptureFlow` and `ItemPages`, and their proofs |

Conventions, in every module: variables hold *committed* state, what a
transaction has read or flushed is in the record of its run; a handler is cut
where another process can get in (a commit, a lock, a call to the broker, S3, a
provider, the model); a fault is an action that costs one of `MaxEvents`
(`MaxCrashes`, `MaxSteps`); history variables, marked so, record what a property
has to except. Definitions preceded by a variant that nothing uses (commented
`Bug:` in most modules) have in that variant a plausible mistake: in the place
of the definition that follows, it makes a property fail, which shows that the
property depends on the code it is about.

### ExtractionPipeline

| Variable | Code |
|---|---|
| `status`, `source`, `transcript`, `ref` | columns of `meetings`; `"unborn"` and `"deleted"` are "no row". `transcript` says that `transcript_text` is not empty, `ref` which object `transcript_ref` names |
| `openItems`, `doneItems` | number of `action_items` of a meeting with a normalised task, by `status != "Done"` |
| `knowledge`, `runs` | number of `knowledge_entries`; outcomes in `extraction_runs` |
| `objects` | S3 objects `audio` and `transcript` of a meeting |
| `pending` | a bag: queued Celery tasks and, of kind `inline`, BackgroundTasks. A bag, because two workers take messages in any order |
| `pc`, `job`, `input`, `fresh`, `lock` | an executor: where its run is, its message, what it takes for the transcript, the tasks it will insert, and whether its uncommitted UPDATE wants or holds the row |
| `request` | an API request between two of its awaits that matter |
| `triggers`, `crashes` | bounds, not code |

| Handler | Actions |
|---|---|
| `create_meeting` | `CreateMeeting` |
| `upload_transcript_file` | `UploadTranscriptFile`, `EnqueueExtraction` |
| `upload_audio` | `UploadAudio` (S3), `CommitAudio`, `EnqueueTranscription` |
| `trigger_extraction` | `TriggerLoad`, `TriggerCommit` or `TriggerRowGone`, `EnqueueExtraction` |
| `delete_meeting` | `DeleteLoad`, `DeleteObject`, `DeleteRow` or `DeleteNothing` |
| `update_item`, `delete_item` | `CompleteItem`, `ReopenItem`, `DeleteItem` |
| `_run_extraction` | `LoadMeeting` or `MeetingNotFound`, `MarkExtracting`, then `FinishEmpty`, or `ExtractItems` and `CommitExtraction` |
| `_run_transcription` | `LoadMeeting`, `MarkExtracting`, `Transcribe` or `AudioGone`, `SaveTranscript`, `CommitTranscript`, `EnqueueAfterTranscription` |
| tasks and Celery | `Receive`, `Ack`, `RunRaises`, `RowGone`, `MarkLoad` and `MarkDraft`, or `MarkNothing`, `RetryTask`, `GiveUp` |
| crashes | `WorkerCrash`, `CrashAfterRetry`, `TimeLimit`, `ApiCrash` |

What may go wrong is the constant `Faults`. An `exception` is anything that
makes a run raise: the model, a provider, S3, the database, the soft time
limit. `WorkerCrash` puts the message back (`task_acks_late`,
`task_reject_on_worker_lost`); the hard time limit of `transcribe_audio` does
not, since Celery acks on that path. The error mark is two steps, since it
writes the status only if it was not "draft" when it was loaded: a trigger in
between leaves the meeting "extracting". The model's answer is any set of tasks.
`status = "reviewed"` appears in the client and in the schema, but no code sets
it; it is left out.

`ExtractingIsOwned` and `RefIsStored` state which faults they exclude. A
restart of the API loses background tasks, a hard kill after the commit of
"extracting" loses the enqueueing, a failing error mark is only logged: after
these a meeting may stay in "extracting", and the early return of
`trigger_extraction` refuses to start it again.

What a provider of speech to text makes of a recording is a member of `Results`,
by its class in `services/transcription.py`, and `Formatted` says whether the
transcript has any text: that of silence without segments is empty.

**`MeetingBoard`** has no queue, worker, lock or crash: a meeting appears, is
started, is extracted (status, items, entries and run record together), fails
(status and failure record only), has an item edited, or disappears with
everything under it. `BoardSpec` says that the pipeline, seen through the
committed rows, does nothing else. A half-done extraction, a row under a
deleted meeting or a resurrected meeting would show there.

### IntegrationSync

One workspace with one platform. `refs` are the rows of
`item_integration_refs`, `external` the items of the tool in the order of their
creation. A syncer is a worker or a request: `job`, `todo`, `current` (the pair
or ref it is at, with what it has read), `writes` and `dones` (flushed, not
committed; they are also the row locks). `SyncItem`, `SyncAllItems` and
`PullStatusUpdates` start a run; `FindRef`, `PushItem`, `InsertRef` or
`UpdateRef` push a pair, `FetchStatus`, `ApplyStatus`, `MarkDone` pull a ref,
`Commit` is the one commit. `RowGone`, `DeadlockVictim`, `FindTwoRefs`, `Crash`
roll back: what was created in the tool stays. The four adapters are what they
create and what `get_item_status` answers.

The task `tasks.sync_item_to_integrations` has no caller, and the worker of
`docker-compose.yml` consumes only the queues `extraction`, `transcription` and
`default`, so that the tasks of the queues `integration`, `notifications` and
`platform_sync` wait unless another worker is started; the models assume one.

### PlatformSync

One workspace, one platform account. `config` is the row of
`platform_configs`; a run copies its tokens, refreshes the copy and does not
write it back. Beat (`SyncAllPlatforms`) and users (`TriggerSync`) enqueue;
`LoadConfig`, `ListRecordings`, `SkipImported` or `AddMeeting`, `Commit`,
`EnqueueExtractions` are a run; `Fail` sends it again, `MaxRetries` times. The
extraction is one step. A call for attendees that fails is part of
`FetchFails`; `Attendees` is the level at which the connector logs its answer, a
warning when there is no report. The connectors log through the standard library with keyword
arguments it does not take (`services/platforms/zoom.py:158`, `teams.py:165`,
`google_meet.py:152`, `platform_sync_worker.py:176`): at `--loglevel=info` every
sync raises after listing, and at warning one that meets a missing report.
`logLevel` is therefore a variable, and liveness is stated for what the level
allows. Liveness excepts what the code cannot recover
from (`Hopeless`): no connection, tokens that are spent (Zoom rotates the
refresh token, and the new one is not stored), a recording with two meetings,
whose look-up raises for ever, or one whose report cannot be logged as missing. A
recording imported before its transcript is ready never gets it: Teams and Meet
list meetings without one, and Zoom lists what has a complete video
(`services/platforms/zoom.py:125`), whose transcript may come later.

### DataRetention

Ages and periods count in years and all meetings age together. For each
workspace: `OpenWorkspace`, `ClearTranscript` and `TranscriptStays` (S3
refuses) for each old transcript, `FlushTranscripts`, `ReadMeetings`,
`DeleteAudio` and `AudioStays`, `FlushMeetings`, `Commit`; `WorkspaceFails` and
`Crash` roll back, after the objects are gone. A row is locked from the flush
that changes it to the commit. Beside that, `StoreTranscript` puts a transcript
into S3 and `FinishTranscription` commits its name, and `BeginDelete` of a meeting
takes the object off S3 and `FinishDelete` the row: both are two steps, so that
each may fall between any two of the run. `overtaken` are the transcriptions that
committed in the transaction of a run: if the run then removes the meeting, the
transcript stays with no row, since from `services/retention.py:177` on only
recordings are deleted; a DELETE that has read the name of the recording leaves
it likewise. The log calls raise here too
(`compliance_worker.py:92`, `:141` at info, `:125` at error, which aborts the
whole run): at level info the job never starts its work. `audio_retention_days`
is never read, although `models/gdpr.py` says that audio is deleted after it.

### Notifications

One workspace and one worker. `Receive` reads the rules, `ReadItems` the items,
`LoadUser` and `SendForRule` send, `Commit` stores the log, and `Acknowledge`
takes the task from the queue. `FlushFails`, `TaskFails` and `Crash` lose the
rows but not the messages; a `Crash` between `Commit` and `Acknowledge` loses no
row, and has the task delivered again all the same (`task_acks_late`,
`task_reject_on_worker_lost`), so that everything is sent twice. A member with
two rows in the workspace gets the digest twice. The tasks of a day
end before the next day begins (`NewDay`). Edits of items, rules and users come
between any two steps. `PatchConfig` models that new keys are merged into the
dictionary that was loaded (`api/notifications.py:242-245`), so that the session
sees no change and stores none. `TestRule` and `RunRule` write to the
administrator. `notify_assignment` has no caller.

### Accounts

One tenant with one workspace. A request reads in one step (`Begin`) and writes
in another (`Due`), at its commit; the members of `Slots` are requests in
flight, of which the lowest free one is taken. Requests whose two steps nobody
can tell apart are one action. Modelled are invitation, creation, role change
and removal of members, reset and invitation tokens, login, second factor and
backup codes, SSO of users known here or not (`elsewhere` holds those whom it has
given a tenant of their own), log-out with the purge of revoked tokens,
switching workspace, erasure, and the three that put an item in a user's name: an
extraction, a PATCH (`UpdateItem`, `CommitUpdate`, which write only the columns
that differ from what was read), and a bulk save (`BulkSaveItems`). Nothing in
the code refuses the name of someone who was erased, so `ErasedIsAnonymous`
excepts items that a user has named anew; labels that extraction copies from a
transcript, with no owner, are not covered. `LogLevel` is that of the API: at
the default INFO, and at DEBUG, the log call of `services/retention.py:299`
raises after the flush, and no erasure is stored (`Raises`, `CanStore`); the
runs have it at WARNING. Failed attempts at a second factor are counted in the transaction that
the 401 rolls back (`api/mfa.py:377`), so that nothing is kept of them.
Outside: the other tenants, and a new user row for the old address of an erased
one.

### TranscriptExtraction

`Key` is what two texts have in common when one of them is dropped: the text
without case and outer spaces, and of a knowledge entry only its first 100
characters (`services/knowledge_service.py:174`); nothing is lost up to that.

`start`, `end` delimit the window or chunk, `sent` are those the model was
asked about, `pending`, `kept`, `heard` its answers, what was kept of them, and
all of them. `CutWindow` is the loop of `_chunk_transcript` in
`extraction_service.py` and `knowledge_service.py`; `BeginChunks`,
`TakeSegment`, `CutChunk` that of `services/extraction.py`, which is no longer
called by the application; `KeepFirst` and `KeepBetter` merge. A text is a
sequence of the lengths of its units. The model's answers are any items.

### CaptureFlow

Both pages of a tab, and the meetings of `MeetingBoard` behind them. A poll is
sent (`Tick`, `StatusPolls`), answered (`Answer`) and heard (`HearOnCapture`,
`HearExtracted`, `HearOnStatus`, `HearAway`) in three steps; leaving a page
takes back neither polls nor submissions. An upload is sent (`Upload`) and
answered (`Uploaded`, `UploadFails`) in two steps too: meanwhile the user may
submit the form or go elsewhere, and the answer moves the tab from wherever it
is. `StartPolling` sets an interval after
two awaits, whether or not the page is still shown. `late` excepts what does
happen when polls overlap a next step: an answer heard after a failed poll
clears the error of a page that has stopped; a late failure shows the form
while another submission is under way, so that the second interval hides the
first; a page that is gone moves the tab to the review.

### ItemPages

`rows` is the table; `cache`, `invalid`, `failed`, `query` the cached queries of
the two pages; `cards` the mounted forms; `calls` the requests under way. The
cache is TanStack Query, modelled from how the pages use it. A request is
committed before it is answered (`Commits`) or after (`AnswersFirst`,
`CommitsLate`): `pyproject.toml` asks for `fastapi>=0.111`, and from 0.118 on a
dependency with `yield` ends after the response is sent. A date that is cleared
is sent as null (`ActionItemCard.tsx:238`), which `update_item` takes for a field
that is not given (`api/items.py:312`): `Unset` and `Merged` leave it as it was.

A card takes its form from the item at its mount only, so that saving it writes
its whole form over the edits of others. `OwnEditsStand` says what holds all the
same, and what does not: a cleared date; an edit of a page that was left, which
the stale card of the next page may undo; an edit in a card whose form was
closed before the tab had caught up, or whose page heard an answer before its
commit (`hasty`). Comments, filters and paging are left out.

## Runs

| Run | Properties | States |
|---|---|---|
| `pipeline` | `NoOrphanRows`, `FileFailureVisible`, `ExtractedHasRun`, `BoardSpec` | 389 000 |
| `live_pipeline` | `ExtractingIsOwned`, `RefIsStored`, `WorkEnds`, `ExtractionRecorded` | 85 000 |
| `integration_sync` | `RefsNameTheirCopies`, `RefsHaveItems`, `SecondRefNeedsOverlap`, `CopiesAreKnown`, `SyncsEnd`, `PullCatchesUp` | 79 000 |
| `platform_sync` | `SecondImportNeedsOverlap`, `ImportsNeedConnection`, `RecordingsArrive`, `ImportsAreExtracted` | 683 000 |
| `data_retention` | `RefsAndObjectsAgree`, `OnlyTheOldGoes`, `OverdueGoes` | 1 397 000 |
| `notifications` | `ArrivalsAreLogged`, `SecondNeedsLoss`, `RemindersAreCurrent`, `OverdueIsReminded` | 442 000 |
| `accounts` | `ErasedIsAnonymous`, `LoggedOutStaysOut`, `SecretsWorkOnce`, `KeepsAnAdmin`, `SecondRowNeedsOverlap` | 161 000 |
| `transcript` | `Covered`, `EachTextOnce`, `BestIsKept`, `Terminates` | 35 000 |
| `capture` | `StoppedIsShown`, `TimersCanStop`, `FollowingEnds` | 350 000 |
| `item_pages` | `OwnEditsStand`, `OwnEditsShow` | 1 904 000 |
| `erasure`, `confirm_copies` | the [findings](#findings): TLC finds a counterexample | |

Each module also states its types, and they are proved.
Deadlock is not checked: once everything is done and the bounds are used up, the
systems rest.

**Bounds.**

* `pipeline`: one meeting, uploaded as file or audio, one worker and one inline
  extraction, two requests, one trigger, one crash, all faults but the worker's
  crash, all item edits. Every pair of concurrent handlers of one meeting meets;
  meetings share nothing but the look-up of open tasks. `live_pipeline`: every
  upload, one retry of each task, one worker crash. The theorems of
  `ExtractionPipelineProofs` have none of these bounds.
* `integration_sync`: one item, two configs (one replaces the other), Jira, two
  syncers, one configuring request, two pushes, two events. A second ref takes
  two overlapping pushes, a lost copy takes one event. The platforms differ only
  in their names for states.
* `platform_sync`: one recording, two workers, the three platforms, three log
  levels, one retry, three meetings, two events: two overlapping imports, or two
  faults in any places of a run.
* `data_retention`: two meetings in two workspaces, so that a failure of one
  workspace meets the other; levels info, warning and critical; ages up to 3,
  past every default period; recordings and pasted texts; two events. Every step
  of a run meets every step of a transcription and of a deletion of its meeting.
* `notifications`: two members, one of them with two rows, two items, two rules, SMTP
  and Slack (the providers have the same outcomes), days unbounded, two events.
* `accounts`: two people, two requests in flight, two tokens, two sessions,
  three requests or expiries: two racing requests and one more that makes the
  race visible; the log level WARNING, at which erasures can be stored. `erasure`
  needs three people and has the same level.
* `transcript`: windows of 4 that overlap by 2, texts of 0, 4, 8 and 9 (over the
  limit) characters, and segments of which one is longer than a chunk; items of
  which two share a text and similarity is not transitive.
* `capture`: two meetings, one mount of the capture page with something under
  way, one file being uploaded at a time, two polls in flight, a limit of three
  polls.
* `item_pages`: two rows, two fields of which one is a date, two values of which
  one is empty, four steps of users or failures, one request at a time; no
  symmetry, since the draft has one of the ids.

## Fairness

* Pipeline: weak fairness of the steps of each request in progress and of each
  executor. An event loop resumes a coroutine whose await is done, and Celery
  delivers a queued message to a live worker. No fault, user or new request is
  obliged to occur, and the number of tries bounds exceptions. The liveness run
  has no background tasks.
* `IntegrationSync`: strong fairness of each syncer's steps, since PostgreSQL
  queues those that wait for a lock while others take and release it; strong
  fairness of the start of a pull by some syncer, since beat sends one every 15
  minutes; weak fairness of the configuring request. Two pulls that overlap
  count as an event: if every pull met another, taking the locks in opposite
  orders, each might end the other for ever.
* `PlatformSync`: weak fairness of beat, of receiving a task, of each run and of
  extraction. `DataRetention`: of the daily start and of the run.
  `Notifications`: of the work and of a new day. `TranscriptExtraction`: of the
  loop.
* `CaptureFlow`: intervals go off, five minutes pass, and each request is
  answered, if only with an error, and its answer heard.

## Proofs

TLAPS checks the theorems for all values of the constants that satisfy the
named assumption of the module. Every safety invariant and every action property
that the passing runs check is proved. For each module an inductive invariant
(`PipelineInv`, `IInv`, `ImportInv`, `RetentionInv`, `NotificationInv`,
`AccountsInv`, `CaptureInv`, `ItemsInv`) holds at first and is
kept by every step, by a lemma for each action that changes what it is about. The
assumptions are what the code gives: ids are numbers, `"none"` and `"admin"`
are nobody's name, at least one mount, and ages that reach the default period of
two years, so that the cap on them hides none.

### ExtractionPipelineProofs

| Theorem | Statement |
|---|---|
| `TypeCorrect` | `Spec => []TypeOK` |
| `PipelineInvariant` | `Spec => []PipelineInv` |
| `NoOrphans`, `FileFailuresShow` | two of its conjuncts, `NoOrphanRows` and `FileFailureVisible` |
| `ExtractingOwned` | `Spec => []ExtractingIsOwned` |
| `PipelineImplementsBoard` | `Spec => BoardSpec` |
| `ExtractedHasItsRun` | `Spec => []ExtractedHasRun` |
| `RefsAreStored` | `Spec => []RefIsStored` |

`NoOrphanRows` is not inductive alone: a run that holds the lock commits
without asking again whether the row is there, and an upload could in principle
take the id of a deleted meeting. So `PipelineInv` adds `RowLockExclusive` (a
held lock has one holder and its row is alive), `NamesAreBorn` (messages, jobs
and requests name only meetings that were created) and `TranscribesAudioOnly`
(a transcription marks failures without a record, so it must never work on a
file upload). The lemmas `RowWriters` and `ChildWriters` list the actions that
touch a row or what is under it; later proofs split on those and not on all
thirty actions. `MessageOrigin`, `JobOrigin` and `RequestOrigin` say where a
name can have come from.

`ExtractingOwned` follows the owner of a meeting (`Working`) through a step
(`MessageKept`, `RunKept`, `EnqueueKept`): each owner remains, hands over to
another, or takes the meeting out of "extracting". `PipelineImplementsBoard` has
an initial-state lemma and a step lemma; `FinishEmpty` and `CommitTranscript`
are the cases where the step of the board is not the one the name suggests
(`ExtractNothing`, `Start` or a stutter).

`ExtractedHasItsRun` needs to know that a run which finds nothing to extract from
is about a meeting that never gets a text: `RunInv` says that every other meeting
has a text or names an object from its first row on, and relates what a run has
read to the row it will write. `RefsAreStored` follows an object from the step
that stores it to the commit that names it (`StoreInv`). What a deletion removes
is excused only while its request goes on to the row (`DeletionGoesOn`), which is
where the two faults that the property excludes come in.

### IntegrationSyncProofs

| Theorem | Statement |
|---|---|
| `TypeCorrect` | `Spec => []TypeOK` |
| `RefsName`, `RefsHave` | `Spec => []RefsNameTheirCopies`, `Spec => []RefsHaveItems` |
| `Copies` | `Spec => []CopiesAreKnown` |
| `SecondRef` | `Spec => []SecondRefNeedsOverlap` |
| `DoneFollows` | `Spec => DoneFollowsTool` (proved only; no run repeats it) |

They assume finitely many items and configs, which counting the pairs of a push
needs. `IInv` adds to the properties what makes them inductive:

* `MemoryHolds`: a run works on a ref it read before the call to the tool. By
  then the row is still that of the pair, or is deleted and does not come back
  (`Settled`); the copy the run remembers is still one of its item.
* `WritesAlone`, `WritesFit`: a flushed row is its writer's alone, of an item
  that is there (a delete waits for it) and of the pair it was before, and never
  drops a copy without naming another. So the commit, which writes rows that it
  flushed many calls ago, puts back nothing that others changed meanwhile.
* `PairsOnce`: a push comes to each pair once, so that it overwrites no row it
  has flushed itself and no copy is forgotten between two writes.
* `OneRowOfPair`: without an overlap there is one row of a pair, committed or
  not, or one push that is going to insert it, never both.
* `SyncedHaveCopies`, `DonesAreClosed`: a pull asks only about copies that
  exist, and what it marks done was finished.

`OverwriteKeeps` is the lemma behind `UpdateRef` and `ApplyStatus`,
`RollbackKeeps` that behind all five ways a run fails, `CommitKeeps` is the case
where all parts meet. `DoneFollows` needs no step of its own but the commit:
nothing else sets an item to "Done" except a user.

### PlatformSyncProofs

| Theorem | Statement |
|---|---|
| `TypeCorrect` | `Spec => [](TypeOK /\ RunOK)` |
| `ImportInvariant` | `Spec => []ImportInv` |
| `SecondImports` | `Spec => []SecondImportNeedsOverlap` |
| `ImportsAreConnected` | `Spec => ImportsNeedConnection` |

The database has no constraint on the id of a recording; what keeps imports apart
is that a run looks before it adds. `OneMeeting`, `NotYetSaved` and `OneRun` say
what that comes to: a recording that was not imported twice at a time has one
meeting that is committed, or one that is not, of one run. By `AddsOnce` the
commit of a run saves one meeting for each recording. The commit numbers its new
meetings by a bijection; that there is one, and that it numbers nothing twice, is
a matter of counting (`FiniteSetTheorems`).

### DataRetentionProofs

| Theorem | Statement |
|---|---|
| `TypeCorrect` | `Spec => [](TypeOK /\ JobOK)` |
| `RetentionInvariant` | `Spec => []RetentionInv` |
| `ObjectsAgree` | `Spec => []RefsAndObjectsAgree` |
| `OnlyOldGoes` | `Spec => OnlyTheOldGoes` |

The run decides in one step, deletes from S3 in others, and changes the rows in
its last one, while meetings and policies change. `TakesTheOld` carries the
decision to the commit: ages only grow, and the policy that counts is the one the
run has read. `DeletedIsTaken` and `ClearedIsOff` carry what it did in S3:
everything it has deleted belongs to a row that its commit changes, and the
transcript of a row it has cleared is not stored any more, or its deletion
failed. `SeesTranscripts` and `SeesRecordings` say that a run overlooks no object
but those of `overtaken`, so that nothing else is left behind when it removes a
meeting; `StoredIsThere` and `DeletingIsOff` carry the first half of a
transcription and of a DELETE to the second. `RefsAndObjectsAgree` mentions none
of them and needs them all at the commit.

### NotificationsProofs

| Theorem | Statement |
|---|---|
| `TypeCorrect` | `Spec => [](TypeOK /\ JobOK)` |
| `NotificationInvariant` | `Spec => []NotificationInv` |
| `ArrivalsLogged`, `SecondsNeedLoss` | `Spec => []ArrivalsAreLogged`, `Spec => []SecondNeedsLoss` |
| `Reminders` | `Spec => RemindersAreCurrent` |

That nobody is told twice rests on three things at once: a task of a kind that has
committed is over for the day, or about to be acknowledged, or was lost before
that (`LoggedIsOver`), a run has each rule once and of its own kind, although
rules are deleted and created meanwhile (`RulesOfJob`), and within a run each user
and each rule comes once, but for the two rows of a member (`RowsAreDone`).
`ItemsAsRead` is
what `RemindersAreCurrent` says of the present recipient, for all those that are
still to come, since the items are read for all of them at once.

### AccountsProofs

| Theorem | Statement |
|---|---|
| `TypeCorrect` | `Spec => [](TypeOK /\ ReqOK)` |
| `AccountsInvariant` | `Spec => []AccountsInv` |
| `ErasedStayAnonymous` | `Spec => []ErasedIsAnonymous` |
| `LoggedOutStay` | `Spec => []LoggedOutStaysOut` |
| `SecretsOnce` | `Spec => SecretsWorkOnce` |
| `AdminStays` | `Spec => KeepsAnAdmin` |
| `SecondRows` | `Spec => SecondRowNeedsOverlap` |

Requests read, and write later, and nothing locks what they have read. The
properties except an overlap, and the invariant says why that is the only
exception: two requests in flight both know of it (`OverlapIsKnown`), and what a
request that knows of none has read is still so (`ReadsStand`; `Stands` lists it by
kind: the invited is no member, there is another administrator, the token is
unused, the codes are those of the row, the rows and the item of the erased are
all there are). The three action properties then need only the step of the commit;
`AdminStays` adds a lemma about counting (`AnotherAdmin`): more than one row of an
administrator, of which one user has one, is a row of somebody else.

`ErasedIsLeftAlone` is what makes `ErasedIsAnonymous` inductive: a request about
someone who was erased alone is of the few kinds that still find such a user, and
none of those brings a name, address, subject or membership back. It holds of the
name on the item only with the exception for users: an edit that finds the erased
user may put it back. `LeftIsRevoked`
says that a session that was logged out is on the list or has expired, whatever is
purged in between. `BeginStep`, `EndStep` and `BetweenStep` prove what concerns
requests once for all kinds; the lemma of an action adds what it does to rows.

### TranscriptExtractionProofs

| Theorem | Statement |
|---|---|
| `TypeCorrect` | `Spec => []TypeOK` |
| `EverythingIsSeen` | `Spec => []Covered` |
| `ChunksStayShort` | `Spec => []ChunksAreShort` |
| `TextsAreKeptOnce` | `Spec => []EachTextOnce` |
| `TheBestIsKept` | `Spec => []BestIsKept` |

The invariant `IInv` says of the loop in progress what the properties say of
its end: `SeenSoFar` that every unit up to the current chunk lies in a chunk
that was sent, with its reach; `TextsKept` that the texts kept and still pending
are those heard, each kept once; `BestSoFar` that for every item heard one at
least as confident is kept or pending. `StepsOfService` and `ChunkShape` say
which steps belong to which service and where the next chunk may begin.
`KeepFirstKeeps` and `KeepBetterKeeps` are the lemmas about merging;
`TheBestIsKept` needs no property of `Near` at all, because a replaced item is
always replaced by one the model is more confident of.

### BrowserProofs

| Theorem | Statement |
|---|---|
| `TypeCorrect` | `CaptureSpec => []CaptureTypes` |
| `CaptureInvariant` | `CaptureSpec => []CaptureInv` |
| `StoppedPagesTell` | `CaptureSpec => []StoppedIsShown` |
| `IntervalsCanStop` | `CaptureSpec => []TimersCanStop` |
| `ItemsTypeCorrect` | `ItemsSpec => [](ItemTypes /\ CardsAreListed)` |
| `ItemsInvariant` | `ItemsSpec => []ItemsInv` |
| `EditsStand` | `ItemsSpec => []OwnEditsStand` |
| `EditsShow` | `ItemsSpec => []OwnEditsShow` |

The theorems about `CaptureFlow` are about the composition: the meetings behind
the page take any step of the board. `TimersCanStop` alone is not inductive: an interval begins two
awaits after the form was sent, and holds `pollIntervalRef` only if nothing else
of its mount did in between. `OneAtATime` says that a mount has one submission or
interval under way, `FormIsFree` that its form is not shown then, and both stand
on polls being about what is under way (`OnePoll`, `PollsFollow`): it is the
failing poll of an older submission that would show the form too early.
`StoppedIsQuiet` keeps answers, which could take the error away, from a status
page that has stopped.

An edit on a page of items goes through a form, a request, a commit, an
invalidation and a refetch, and the two properties of `ItemPages` speak of the
moments when all of that is over. `ItemsInv` says where the edit is meanwhile,
for any number of requests: in the form (`FormKeeps`), in every save of the card
that is not committed, answered or not (`SavesKeep`), in the table or in such a
save (`Stored`),
and in the cache, in an answer on its way, or to be found by a fetch or after a
save that is not yet heard (`ShownSoon`). The four need each other: `SavesKeep`
holds of a new save by `FormKeeps`, which Cancel keeps by `ShownSoon`, which an
answered fetch keeps by `Stored`, which a commit keeps by `SavesKeep`. That
`ShownSoon` outlives an answer is what the cancelling of a fetch under way gives,
and that it is the right page's is what the keys give that are invalidated.
`Marks` says that what a card remembers as saved is never a cleared date;
`WritesKeep`, the lemma about the write of a request, is used for both orders of
commit and answer, and an answer heard before its commit makes the page `hasty`.
`CardsAreListed` keeps the rows that a bulk save inserts away from the cards of
others.

### Only model-checked

All liveness, which rests on fairness and ENABLED, is out of the prover's reach
here: `WorkEnds`, `ExtractionRecorded`, `SyncsEnd`, `PullCatchesUp`,
`RecordingsArrive`, `ImportsAreExtracted`, `OverdueGoes`, `OverdueIsReminded`,
`Terminates`, `FollowingEnds`. `ErasureCanCommit` and `ConfirmUpdates`
are refuted by the runs of the findings.

## Findings

Each is a run in which TLC violates what a comment of the code says.

* `erasure`: `process_erasure_request` (`services/retention.py:262`) is to
  "anonymise and purge all data for a user", but gives every erased user the
  same address (`:292`) under a unique constraint (`models/user.py:29`): the
  second erasure of a tenant fails, and nothing of that user is anonymised. This
  is at log level WARNING and above; at the default, INFO, not even the first
  erasure is stored (see below).
* `confirm_copies`: `src/frontend/src/api/items.ts:41` says that the server
  "will update existing items by ID"; `bulk_save_items` (`api/items.py:447`)
  inserts, so that Confirm All doubles the items of a meeting.

Further disagreements met on the way; the models have the behaviour of the code,
and no run is about them:

* `workers/transcription_worker.py:74` marks a meeting as in progress with a
  flush that nobody sees before the commit after transcription.
* `api/upload.py:273` stores the key of the recording in `transcript_ref`, which
  `workers/extraction_worker.py:95` takes for text: an extraction triggered
  before the transcription sends the key to the model.
* `workers/extraction_worker.py:126` de-duplicates against open items that it
  read in another transaction than the commit: two workers insert one task twice.
* `docs/TECHNICAL_SPECIFICATION.md:442` has a deletion remove all derived data;
  a transcription under way may store its text after `api/meetings.py:363`, or
  `services/retention.py:120`, chose what to remove: with nothing failing, the
  transcript is left in S3 and no row names it. The recording stays too once
  `transcript_ref` names the text.
* A due date cannot be cleared: the card sends null
  (`src/frontend/src/components/ActionItemCard.tsx:238`), and `update_item` skips
  it (`api/items.py:312`) and answers 200.
* `docs/TECHNICAL_SPECIFICATION.md:463` has concurrent edits not clobber each
  other; a card sends its whole form as it was at its mount, so that its save
  undoes what others changed meanwhile, and on a page with an older cache what the
  same user changed on the other page.
* `docs/TECHNICAL_SPECIFICATION.md:463` has deleted items never reappear; a
  redelivered extraction (`workers/celery_app.py:88`) inserts them again.
* `services/retention.py` logs with keyword arguments the standard library
  refuses, so that at level info erasure answers 500 and retention does not run.
* Run now of a rule with a project lists the items of the whole tenant: it
  filters on `ActionItem.project_id`, which does not exist, inside
  `except: pass` (`api/notifications.py`).
* `forgot_password` fails with two recent tokens; removing a member leaves the
  access to projects behind; an invitation with another role leaves a user whose
  role differs from that of the membership (`api/workspace.py`, `api/auth.py`).
* `src/evals/run.py` imports a function that `services/extraction.py` does not
  have.

## Not modelled

* Text itself: prompts, wording of messages, parsing of files, due dates, owner
  resolution. They are string matching without state.
* Rate limits and cost: one atomic pipeline per request; nothing reads the cost
  counters to refuse anything.
* Knowledge base and comments: single-row writes. Entries that extraction adds
  are part of the pipeline.
* Dashboard, BI feed, reports, export, chat: they only read. Audit, metrics and
  tracing: append-only, and they swallow their own failures.
* Tenancy: a filter on each query; the models are about one workspace of one
  tenant. Encryption, hashing and signatures are taken to work.
* Speech to text, mail, chat, SSO and project-management providers are external:
  modelled by what they may answer.
* Settings, chat and administration pages of the client.

## Plan

1. Two tabs over one `ItemPages` table.
2. Due dates as recursive functions against a reference calendar.
