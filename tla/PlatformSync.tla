---------------------------- MODULE PlatformSync ----------------------------
(***************************************************************************)
(* Import of cloud recordings (Zoom, Teams, Google Meet) as meetings.      *)
(*                                                                         *)
(* Beat and users enqueue sync tasks.  A task lists the recordings of the  *)
(* last 24 hours, adds a meeting for each one that has none, commits once, *)
(* and then enqueues the extraction of every imported draft.  The check    *)
(* for an existing meeting is not backed by a constraint.                  *)
(*                                                                         *)
(* The connectors log through the standard library with keyword arguments  *)
(* it does not take, so that a message which the log level lets through    *)
(* raises TypeError where it is written.                                   *)
(*                                                                         *)
(* One workspace and one platform.  The extraction of a meeting is a       *)
(* single step here; ExtractionPipeline has its detail.                    *)
(***************************************************************************)
EXTENDS Integers, Sequences, FiniteSets

CONSTANTS
  Recordings,   \* recordings of the account
  Workers,      \* Celery workers
  Platforms,    \* platforms the account may be on
  LogLevels,    \* log levels the worker may run with
  MaxRetries,   \* retries of a sync task
  MaxMeetings,  \* bound: meetings imported or being imported
  MaxEvents     \* bound: triggers, failed calls, crashes, expiries, edits

ASSUME PlatformAssumption ==
  /\ Platforms \subseteq {"zoom", "teams", "google_meet"}
  /\ LogLevels \subseteq {"info", "warning", "error"}
  /\ MaxRetries \in Nat /\ MaxMeetings \in Nat /\ MaxEvents \in Nat

VARIABLES
  platform, logLevel,
  config,       \* the platform_configs row: its id and the tokens it stores
  epoch,        \* the platform accepts access tokens of this epoch
  issued,       \* number of the newest refresh token
  recording,    \* each recording: when it started, video and transcript, and whether
                \* there is a report of who attended
  meeting,      \* meetings by id: what they were imported from, and status
  tasks,        \* sync tasks waiting: how many with each number of retries
  extractions,  \* extraction tasks waiting, by meeting
  run,          \* what each worker does
  overlap,      \* history: recordings two runs imported at a time
  events        \* counter, bounded by MaxEvents

account == <<epoch, issued>>
queues == <<tasks, extractions>>
vars == <<platform, logLevel, config, epoch, issued, recording, meeting, tasks,
          extractions, run, overlap, events>>

NoConfig == [id |-> 0]
NoToken == 0
NoRun == [step |-> "idle"]
Event == events < MaxEvents /\ events' = events + 1

\* A log call with keyword arguments raises if its level is enabled.
Raises(level) ==
  CASE logLevel = "info" -> level \in {"info", "warning", "error"}
    [] logLevel = "warning" -> level \in {"warning", "error"}
    [] OTHER -> level = "error"

Existing(r) == {m \in DOMAIN meeting : meeting[m].rec = r /\ meeting[m].status # "deleted"}

\* Bug: a meeting that was extracted is not recognised.
ExistingDraft(r) == {m \in Existing(r) : meeting[m].status = "draft"}

\* The meetings that the check for a recording finds.
Imported(r) == Existing(r)

-----------------------------------------------------------------------------
(* Tokens.  A run works on its own copy of the stored tokens; what it      *)
(* refreshes is not written back.  Zoom takes a refresh token once.        *)

MayRefresh(refresh) == IF platform = "zoom" THEN refresh = issued ELSE refresh # NoToken

\* A request with tokens t, and the refresh that a 401 makes it do; the
\* message about the refresh comes first.
Accepted(t) == t.access = epoch \/ (~Raises("info") /\ MayRefresh(t.refresh))
Refreshed(t) ==
  IF t.access = epoch THEN t
  ELSE [access |-> epoch, refresh |-> IF platform = "zoom" THEN issued + 1 ELSE t.refresh]
Issued(t) == IF t.access # epoch /\ platform = "zoom" THEN issued + 1 ELSE issued

-----------------------------------------------------------------------------
(* Tasks. *)

Enqueue(k) == tasks' = [tasks EXCEPT ![k] = @ + 1]
Busy == \E w \in Workers : run[w].step # "idle"
Waiting == \E k \in 0 .. MaxRetries : tasks[k] > 0

\* Every hour.  An hour in which the last task has not ended is an event.
SyncAllPlatforms ==
  /\ config # NoConfig
  /\ Enqueue(0)
  /\ IF Busy \/ Waiting THEN Event ELSE UNCHANGED events
  /\ UNCHANGED <<platform, logLevel, config, account, recording, meeting, extractions, run, overlap>>

TriggerSync ==
  /\ config # NoConfig
  /\ Enqueue(0)
  /\ Event
  /\ UNCHANGED <<platform, logLevel, config, account, recording, meeting, extractions, run, overlap>>

Receive(w) ==
  /\ run[w].step = "idle"
  /\ \E k \in 0 .. MaxRetries :
       /\ tasks[k] > 0
       /\ tasks' = [tasks EXCEPT ![k] = @ - 1]
       /\ run' = [run EXCEPT ![w] = [step |-> "load", retries |-> k]]
  /\ UNCHANGED <<platform, logLevel, config, account, recording, meeting, extractions, overlap, events>>

\* The task ends with an exception: it is sent again, MaxRetries times.
Fail(w) ==
  /\ run' = [run EXCEPT ![w] = NoRun]
  /\ IF run[w].retries < MaxRetries THEN Enqueue(run[w].retries + 1) ELSE UNCHANGED tasks

\* The connection is found, or it is not and that is logged.
LoadConfig(w) ==
  /\ run[w].step = "load" /\ config # NoConfig
  /\ run' = [run EXCEPT ![w] =
       [step |-> "list", retries |-> @.retries, config |-> config.id,
        tokens |-> [access |-> config.access, refresh |-> config.refresh]]]
  /\ UNCHANGED <<platform, logLevel, config, account, recording, meeting, queues, overlap, events>>

ConfigNotFound(w) ==
  /\ run[w].step = "load" /\ config = NoConfig
  /\ IF Raises("warning") THEN Fail(w)
     ELSE run' = [run EXCEPT ![w] = NoRun] /\ UNCHANGED tasks
  /\ UNCHANGED <<platform, logLevel, config, account, recording, meeting, extractions, overlap, events>>

\* What the connectors list.  Zoom is asked for whole days, and for videos that
\* are complete, whose transcript may come later; Teams and Meet for meetings
\* that began in the window.
ZoomRecordings ==
  {r \in Recordings : recording[r].age \in {"recent", "same day"} /\ recording[r].text # "not yet"}
TeamsMeetings == {r \in Recordings : recording[r].age = "recent"}
MeetConferences == {r \in Recordings : recording[r].age = "recent"}

\* Bug: meetings that have no transcript yet are left for later.
ListedWithText == {r \in Recordings : recording[r].age = "recent" /\ recording[r].text = "text"}

Listed ==
  CASE platform = "zoom" -> ZoomRecordings
    [] platform = "teams" -> TeamsMeetings
    [] OTHER -> MeetConferences

\* What get_transcript of each connector returns: none, only a header, or
\* text.  Meet has no header: no entries are no transcript.
ZoomTranscript(text) == IF text \in {"not yet", "video"} THEN "none" ELSE text
TeamsTranscript(text) == IF text \in {"not yet", "video"} THEN "none" ELSE text
MeetTranscript(text) == IF text = "text" THEN "text" ELSE "none"

Transcript(r) ==
  CASE platform = "zoom" -> ZoomTranscript(recording[r].text)
    [] platform = "teams" -> TeamsTranscript(recording[r].text)
    [] OTHER -> MeetTranscript(recording[r].text)

\* The header of a VTT file is no text.
ParseVtt(raw) == raw = "text"

\* The level at which get_attendees logs its answer: a report that is not
\* there, or not shown, is no error but an empty list and a warning.
ZoomAttendees(report) == IF report THEN "info" ELSE "warning"
TeamsAttendees(report) == IF report THEN "info" ELSE "warning"
MeetAttendees(report) == IF report THEN "info" ELSE "warning"

Attendees(r) ==
  CASE platform = "zoom" -> ZoomAttendees(recording[r].report)
    [] platform = "teams" -> TeamsAttendees(recording[r].report)
    [] OTHER -> MeetAttendees(recording[r].report)

\* The connector logs the number of recordings.
ListRecordings(w) ==
  LET t == run[w].tokens IN
  /\ run[w].step = "list" /\ Accepted(t)
  /\ issued' = Issued(t)
  /\ IF Raises("info") THEN Fail(w)
     ELSE /\ run' = [run EXCEPT ![w] =
               [step |-> "check", retries |-> @.retries, config |-> @.config,
                tokens |-> Refreshed(t), todo |-> Listed, new |-> {}]]
          /\ UNCHANGED tasks
  /\ UNCHANGED <<platform, logLevel, config, epoch, recording, meeting, extractions, overlap, events>>

\* The platform refuses the tokens, or a call fails.
ListFails(w) ==
  /\ run[w].step = "list"
  /\ IF Accepted(run[w].tokens) THEN Event ELSE UNCHANGED events
  /\ Fail(w)
  /\ UNCHANGED <<platform, logLevel, config, account, recording, meeting, extractions, overlap>>

\* A recording that has a meeting is passed over.
SkipImported(w) ==
  /\ run[w].step = "check"
  /\ \E r \in run[w].todo :
       /\ Cardinality(Imported(r)) = 1
       /\ run' = [run EXCEPT ![w].todo = @ \ {r}]
  /\ UNCHANGED <<platform, logLevel, config, account, recording, meeting, queues, overlap, events>>

\* scalar_one_or_none raises when it finds two.
FindTwoMeetings(w) ==
  /\ run[w].step = "check"
  /\ \E r \in run[w].todo : Cardinality(Imported(r)) > 1
  /\ Fail(w)
  /\ UNCHANGED <<platform, logLevel, config, account, recording, meeting, extractions, overlap, events>>

\* Meetings that v has made and not committed.
Unsaved(v) == IF run[v].step = "check" THEN run[v].new ELSE {}
UnsavedOfAll == UNION {{<<v, n.rec>> : n \in Unsaved(v)} : v \in Workers}

Add(w, r, text) ==
  /\ Len(meeting) + Cardinality(UnsavedOfAll) < MaxMeetings
  /\ run' = [run EXCEPT ![w].todo = @ \ {r},
                        ![w].new = @ \union {[rec |-> r, text |-> text]},
                        ![w].tokens = Refreshed(@)]
  /\ issued' = Issued(run[w].tokens)
  /\ overlap' = overlap \union
       {q \in {r} : \E v \in Workers \ {w} : \E n \in Unsaved(v) : n.rec = q}

\* No meeting was found: one is added, with the transcript there is by now.
AddMeeting(w) ==
  /\ run[w].step = "check" /\ Accepted(run[w].tokens)
  /\ \E r \in run[w].todo :
       Imported(r) = {} /\ ~Raises(Attendees(r)) /\ Add(w, r, ParseVtt(Transcript(r)))
  /\ UNCHANGED <<platform, logLevel, config, epoch, recording, meeting, queues, events>>

\* A fetch fails, or the message about the attendees does.  The handler logs
\* a warning and goes on without, if it can.
FetchFails(w) ==
  /\ run[w].step = "check"
  /\ \E r \in run[w].todo :
       /\ Imported(r) = {}
       /\ IF Accepted(run[w].tokens) /\ ~Raises(Attendees(r)) THEN Event ELSE UNCHANGED events
       /\ IF Raises("warning")
          THEN Fail(w) /\ UNCHANGED <<issued, overlap>>
          ELSE /\ \E text \in {FALSE, ParseVtt(Transcript(r))} : Add(w, r, text)
               /\ UNCHANGED tasks
  /\ UNCHANGED <<platform, logLevel, config, epoch, recording, meeting, extractions>>

\* Bug: the last sync is not written to the row of the connection.
NothingStale(w) == TRUE

\* UPDATE of last_sync_at must find the row that was loaded.
ConfigStands(w) == config.id = run[w].config

RowsOf(new) ==
  CHOOSE q \in [1 .. Cardinality(new) -> {[rec |-> n.rec, text |-> n.text, status |-> "draft"] : n \in new}] :
    \A n \in new : \E k \in DOMAIN q : q[k].rec = n.rec

Commit(w) ==
  /\ run[w].step = "check" /\ run[w].todo = {}
  /\ IF ConfigStands(w)
     THEN /\ meeting' = meeting \o RowsOf(run[w].new)
          /\ run' = [run EXCEPT ![w] =
               [step |-> "enqueue", retries |-> @.retries, new |-> {n.rec : n \in @.new}]]
          /\ UNCHANGED tasks
     ELSE Fail(w) /\ UNCHANGED meeting
  /\ UNCHANGED <<platform, logLevel, config, account, recording, extractions, overlap, events>>

\* Bug: only the meetings of this very run.
DraftsOfRun(w) ==
  {m \in DOMAIN meeting :
     meeting[m].status = "draft" /\ meeting[m].text /\ meeting[m].rec \in run[w].new}

\* Every draft with a transcript that was ever imported.
Drafts(w) == {m \in DOMAIN meeting : meeting[m].status = "draft" /\ meeting[m].text}

Send(S) == extractions' = extractions \union S

EnqueueExtractions(w) ==
  /\ run[w].step = "enqueue"
  /\ Send(Drafts(w))
  /\ run' = [run EXCEPT ![w] = NoRun]
  /\ UNCHANGED <<platform, logLevel, config, account, recording, meeting, tasks, overlap, events>>

\* The broker refuses one of the messages.
EnqueueFails(w) ==
  /\ run[w].step = "enqueue" /\ Event
  /\ \E S \in SUBSET Drafts(w) : S # Drafts(w) /\ Send(S)
  /\ Fail(w)
  /\ UNCHANGED <<platform, logLevel, config, account, recording, meeting, overlap>>

\* The process dies; the message is delivered again (acks_late).
Crash(w) ==
  /\ run[w].step # "idle" /\ Event
  /\ Enqueue(run[w].retries)
  /\ run' = [run EXCEPT ![w] = NoRun]
  /\ UNCHANGED <<platform, logLevel, config, account, recording, meeting, extractions, overlap>>

-----------------------------------------------------------------------------
(* The extraction of an imported meeting. *)

ExtractMeeting(m) ==
  /\ m \in extractions
  /\ extractions' = extractions \ {m}
  /\ meeting' = [meeting EXCEPT ![m].status = IF @ = "deleted" THEN @ ELSE "extracted"]
  /\ UNCHANGED <<platform, logLevel, config, account, recording, tasks, run, overlap, events>>

\* After its last retry the meeting is a draft again.
FailedStatus(st) == IF st = "deleted" THEN st ELSE "draft"

ExtractionFails(m) ==
  /\ m \in extractions /\ Event
  /\ extractions' = extractions \ {m}
  /\ meeting' = [meeting EXCEPT ![m].status = FailedStatus(@)]
  /\ UNCHANGED <<platform, logLevel, config, account, recording, tasks, run, overlap>>

-----------------------------------------------------------------------------
(* Users and the platform. *)

\* The refresh token that the exchange of a code yields.  Zoom must send
\* one; of the others a missing one is stored as an empty string.
ExchangeZoomCode == {issued + 1}
ExchangeTeamsCode == {issued + 1, NoToken}
ExchangeGoogleCode == {issued + 1, NoToken}

ExchangeCode ==
  CASE platform = "zoom" -> ExchangeZoomCode
    [] platform = "teams" -> ExchangeTeamsCode
    [] OTHER -> ExchangeGoogleCode

\* The callback of OAuth: insert the row, or write new tokens to it.
OAuthCallback ==
  /\ Event
  /\ issued' = issued + 1
  /\ \E token \in ExchangeCode :
       config' = [id |-> IF config = NoConfig THEN issued' ELSE config.id,
                  access |-> epoch, refresh |-> token]
  /\ UNCHANGED <<platform, logLevel, epoch, recording, meeting, queues, run, overlap>>

DisconnectPlatform ==
  /\ config # NoConfig /\ Event
  /\ config' = NoConfig
  /\ UNCHANGED <<platform, logLevel, account, recording, meeting, queues, run, overlap>>

DeleteMeeting(m) ==
  /\ meeting[m].status # "deleted" /\ Event
  /\ meeting' = [meeting EXCEPT ![m].status = "deleted"]
  /\ UNCHANGED <<platform, logLevel, config, account, recording, queues, run, overlap>>

AccessExpires ==
  /\ Event
  /\ epoch' = epoch + 1
  /\ UNCHANGED <<platform, logLevel, config, issued, recording, meeting, queues, run, overlap>>

\* A meeting begins, is recorded and transcribed, and leaves the 24 hours.
RecordingChanges(r) ==
  /\ \/ /\ recording[r].age = "future"
        /\ recording' = [recording EXCEPT ![r].age = "recent"]
     \/ /\ recording[r].age = "recent" /\ recording[r].text \in {"not yet", "video"}
        /\ \E text \in {"video", "header", "text"} :
             recording' = [recording EXCEPT ![r].text = text]
     \/ /\ recording[r].age \in {"recent", "same day"}
        /\ \E age \in {"same day", "old"} \ {recording[r].age} :
             recording' = [recording EXCEPT ![r].age = age]
  /\ UNCHANGED <<platform, logLevel, config, account, meeting, queues, run, overlap, events>>

-----------------------------------------------------------------------------
Init ==
  /\ platform \in Platforms /\ logLevel \in LogLevels
  /\ config = [id |-> 1, access |-> 0, refresh |-> 1]
  /\ epoch = 0 /\ issued = 1
  /\ recording \in [Recordings -> [age : {"future"}, text : {"not yet"}, report : BOOLEAN]]
  /\ meeting = << >>
  /\ tasks = [k \in 0 .. MaxRetries |-> 0]
  /\ extractions = {}
  /\ run = [w \in Workers |-> NoRun]
  /\ overlap = {} /\ events = 0

Step(w) ==
  \/ LoadConfig(w) \/ ConfigNotFound(w) \/ ListRecordings(w) \/ ListFails(w)
  \/ SkipImported(w) \/ FindTwoMeetings(w) \/ AddMeeting(w) \/ FetchFails(w)
  \/ Commit(w) \/ EnqueueExtractions(w) \/ EnqueueFails(w)

Extract == \E m \in DOMAIN meeting : ExtractMeeting(m) \/ ExtractionFails(m)

Environment ==
  \/ OAuthCallback \/ DisconnectPlatform \/ AccessExpires \/ TriggerSync
  \/ \E m \in DOMAIN meeting : DeleteMeeting(m)
  \/ \E r \in Recordings : RecordingChanges(r)

Next ==
  \/ SyncAllPlatforms \/ Extract \/ Environment
  \/ \E w \in Workers : Receive(w) \/ Step(w) \/ Crash(w)

Spec == Init /\ [][Next]_vars

\* Beat runs for ever; workers take what waits and go on with what they took.
Fairness ==
  /\ WF_vars(SyncAllPlatforms) /\ WF_vars(Extract)
  /\ \A w \in Workers : WF_vars(Step(w))
  /\ WF_vars(\E w \in Workers : Receive(w))

FairSpec == Spec /\ Fairness

-----------------------------------------------------------------------------
(* Properties. *)

TypeOK ==
  /\ platform \in Platforms /\ logLevel \in LogLevels
  /\ config \in {NoConfig} \union [id : Nat \ {0}, access : Nat, refresh : Nat]
  /\ epoch \in Nat /\ issued \in Nat
  /\ recording \in [Recordings -> [age : {"future", "recent", "same day", "old"},
                                 text : {"not yet", "video", "header", "text"}, report : BOOLEAN]]
  /\ meeting \in Seq([rec : Recordings, text : BOOLEAN,
                      status : {"draft", "extracted", "deleted"}])
  /\ tasks \in [0 .. MaxRetries -> Nat]
  /\ extractions \subseteq DOMAIN meeting
  /\ \A w \in Workers : run[w].step \in {"idle", "load", "list", "check", "enqueue"}
  /\ overlap \subseteq Recordings
  /\ events \in 0 .. MaxEvents

\* A recording has two meetings only if two runs imported it at a time:
\* retries, crashes and repeated syncs never import one again.
SecondImportNeedsOverlap ==
  \A r \in Recordings : Cardinality(Existing(r)) > 1 => r \in overlap

\* A run that outlives its connection imports nothing: what it fetched goes
\* with the connection, even when the platform is connected again meanwhile.
ImportsNeedConnection ==
  [][Len(meeting') > Len(meeting) =>
       \E w \in Workers : run[w].step = "check" /\ run[w].config = config.id]_vars

\* A run that cannot succeed: the platform is not connected, the stored tokens
\* are spent, or a recording has two meetings or none and no report of its
\* attendees, which the log level forbids.
Hopeless ==
  \/ config = NoConfig
  \/ ~Accepted([access |-> config.access, refresh |-> config.refresh])
  \/ \E r \in Recordings : recording[r].age # "old" /\
       (Cardinality(Existing(r)) > 1 \/ (Existing(r) = {} /\ Raises(Attendees(r))))

\* Every recording becomes a meeting while it is in the window, whatever
\* fails for a while, unless syncs cannot succeed at all.
Missing(r) ==
  /\ recording[r].age = "recent" /\ recording[r].text # "not yet"
  /\ Existing(r) = {} /\ ~Hopeless
RecordingsArrive == \A r \in Recordings : []<>(logLevel = "info" \/ ~Missing(r))

\* Every imported meeting that has a transcript is extracted in the end: what
\* a crash or the broker loses between the commit and the queue, or the
\* extraction itself fails, a later sync sends again.
Unextracted(m) == meeting[m].status = "draft" /\ meeting[m].text
ImportsAreExtracted ==
  \A r \in Recordings : []<>(logLevel = "info" \/ Hopeless \/ \A m \in Existing(r) : ~Unextracted(m))
=============================================================================
