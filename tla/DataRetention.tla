--------------------------- MODULE DataRetention ---------------------------
(***************************************************************************)
(* The daily retention job.                                                *)
(*                                                                         *)
(* For each workspace, in a transaction of its own, it clears transcripts, *)
(* deletes action items and deletes meetings that are older than the       *)
(* policy of the workspace allows.  The objects in S3 are deleted on the   *)
(* way, before the commit, and a failure to delete one is only logged; but *)
(* the log calls carry keyword arguments that the standard library does    *)
(* not take, so that a message the log level lets through raises instead.  *)
(*                                                                         *)
(* Beside the run, a transcription puts an object into S3 and then commits *)
(* the ref to it, and DELETE of a meeting takes the object off S3 and then *)
(* the row.  Ages and policies count in units of a year; 0 is less.        *)
(***************************************************************************)
EXTENDS Integers, FiniteSets

CONSTANTS
  Meetings,
  Workspaces,
  WorkspaceOf,   \* the workspace of each meeting
  Inputs,        \* what meetings are made from
  LogLevels,     \* log levels the worker may run with
  NewDays,       \* periods that an edit of the policy may set
  MaxAge,        \* bound: ages of meetings
  MaxEvents      \* bound: failures, crashes, edits of the policy, deletions

ASSUME RetentionAssumption ==
  /\ WorkspaceOf \in [Meetings -> Workspaces]
  /\ Inputs \subseteq {"recording", "file", "pasted"}
  /\ LogLevels \subseteq {"info", "warning", "error", "critical"}
  /\ NewDays \subseteq 0 .. MaxAge
  /\ MaxAge \in Nat /\ MaxAge >= 2    \* as long as the default periods
  /\ MaxEvents \in Nat

VARIABLES
  logLevel,
  policy,      \* data_retention_configs: days of each workspace, or NoPolicy
  meeting,     \* committed rows; Gone is no row
  objects,     \* S3: <<meeting, kind>>
  job,         \* the run of the job
  stored,      \* meetings whose transcript is in S3 and not committed yet
  deleting,    \* DELETE of a meeting: the ref it has read, or "no"
  overtaken,   \* history: transcriptions committed in the transaction of the run
  orphans,     \* history: objects that were left without a name
  undone,      \* history: objects deleted by a transaction that then failed
  events       \* counter, bounded by MaxEvents

history == <<overtaken, orphans, undone>>
others == <<stored, deleting>>
vars == <<logLevel, policy, meeting, objects, job, stored, deleting, overtaken, orphans, undone, events>>

NoPolicy == [transcript |-> -1, item |-> -1]
DefaultPolicy == [transcript |-> 1, item |-> 2]
Gone == [age |-> -1, text |-> FALSE, ref |-> "none", items |-> FALSE]
Idle == [step |-> "idle"]
Kinds == {"audio", "transcript"}
Event == events < MaxEvents /\ events' = events + 1
Exists(m) == meeting[m] # Gone

Raises(level) ==
  CASE logLevel = "info" -> level \in {"info", "warning", "error"}
    [] logLevel = "warning" -> level \in {"warning", "error"}
    [] logLevel = "error" -> level = "error"
    [] OTHER -> FALSE

-----------------------------------------------------------------------------
(* The policy. *)

PolicyOf(ws) == IF policy[ws] = NoPolicy THEN DefaultPolicy ELSE policy[ws]

\* Bug: a meeting goes when the shorter of the two periods is over.
ShorterPeriod(p) == IF p.transcript < p.item THEN p.transcript ELSE p.item

LongerPeriod(p) == IF p.transcript > p.item THEN p.transcript ELSE p.item

OfWorkspace(ws) == {m \in Meetings : Exists(m) /\ WorkspaceOf[m] = ws}

\* Bug: meetings whose transcript is only in S3 are looked for.
TranscriptsInS3(ws, p) ==
  {m \in OfWorkspace(ws) : meeting[m].age > p.transcript /\ meeting[m].ref = "transcript" /\ ~meeting[m].text}

OldTranscripts(ws, p) == {m \in OfWorkspace(ws) : meeting[m].age > p.transcript /\ meeting[m].text}
OldItems(ws, p) == {m \in OfWorkspace(ws) : meeting[m].age > p.item /\ meeting[m].items}
OldMeetings(ws, p) == {m \in OfWorkspace(ws) : meeting[m].age > LongerPeriod(p)}

\* GET of the policy stores the default one, PATCH changes what is given.
GetPolicy(ws) ==
  /\ policy[ws] = NoPolicy /\ Event
  /\ policy' = [policy EXCEPT ![ws] = DefaultPolicy]
  /\ UNCHANGED <<logLevel, meeting, objects, job, others, history>>

PatchPolicy(ws, field, days) ==
  /\ Event
  /\ policy' = [policy EXCEPT ![ws] = [PolicyOf(ws) EXCEPT ![field] = days]]
  /\ UNCHANGED <<logLevel, meeting, objects, job, others, history>>

-----------------------------------------------------------------------------
(* The run. *)

\* Its first message is at level info.
ApplyAllRetentionPolicies ==
  /\ job = Idle /\ ~Raises("info")
  /\ job' = [step |-> "next", todo |-> Workspaces]
  /\ UNCHANGED <<logLevel, policy, meeting, objects, others, history, events>>

OpenWorkspace ==
  /\ job.step = "next"
  /\ \E ws \in job.todo :
       LET p == PolicyOf(ws) IN
       job' = [step |-> "transcripts", todo |-> job.todo \ {ws}, ws |-> ws, policy |-> p,
               old |-> OldTranscripts(ws, p), cleared |-> {}, items |-> {}, gone |-> {},
               audio |-> {}, deleted |-> {}]
  /\ overtaken' = {}
  /\ UNCHANGED <<logLevel, policy, meeting, objects, others, orphans, undone, events>>

EndRun ==
  /\ job.step = "next" /\ job.todo = {}
  /\ job' = Idle
  /\ UNCHANGED <<logLevel, policy, meeting, objects, others, history, events>>

\* A workspace is open.
InTransaction == job.step \in {"transcripts", "items", "meetings", "flushed"}

\* The transaction of the workspace is rolled back.  The message about that
\* is at level error: if it raises, the run is over.
Abort ==
  /\ undone' = undone \union job.deleted
  /\ job' = IF Raises("error") THEN Idle ELSE [step |-> "next", todo |-> job.todo]

\* Objects that the step for m deletes: the one its row names, if the name
\* is that of a transcript, or in the last step that of a recording.
NamedTranscript(m) == IF meeting[m].ref = "transcript" THEN {<<m, "transcript">>} ELSE {}
NamedAudio(m) ==
  IF meeting[m].ref = "audio" /\ m \notin job.cleared THEN {<<m, "audio">>} ELSE {}

ClearTranscript(m) ==
  /\ job.step = "transcripts" /\ m \in job.old
  /\ objects' = objects \ NamedTranscript(m)
  /\ job' = [job EXCEPT !.old = @ \ {m}, !.cleared = @ \union {m},
                        !.deleted = @ \union NamedTranscript(m)]
  /\ UNCHANGED <<logLevel, policy, meeting, others, history, events>>

\* S3 refuses.
TranscriptStays(m) ==
  /\ job.step = "transcripts" /\ m \in job.old /\ NamedTranscript(m) # {} /\ Event
  /\ IF Raises("warning") THEN Abort /\ UNCHANGED orphans
     ELSE /\ job' = [job EXCEPT !.old = @ \ {m}, !.cleared = @ \union {m}]
          /\ orphans' = orphans \union NamedTranscript(m)
          /\ UNCHANGED undone
  /\ UNCHANGED <<logLevel, policy, meeting, objects, others, overtaken>>

\* The rows cleared must still be there; items go by DELETE, which minds not.
FlushTranscripts ==
  /\ job.step = "transcripts" /\ job.old = {}
  /\ \A m \in job.cleared : Exists(m)
  /\ job' = [job EXCEPT !.step = "items", !.items = OldItems(job.ws, job.policy)]
  /\ UNCHANGED <<logLevel, policy, meeting, objects, others, history, events>>

ReadMeetings ==
  /\ job.step = "items"
  /\ LET old == OldMeetings(job.ws, job.policy) IN
       job' = [job EXCEPT !.step = "meetings", !.gone = old, !.audio = UNION {NamedAudio(m) : m \in old}]
  /\ UNCHANGED <<logLevel, policy, meeting, objects, others, history, events>>

DeleteAudio(o) ==
  /\ job.step = "meetings" /\ o \in job.audio
  /\ objects' = objects \ {o}
  /\ job' = [job EXCEPT !.audio = @ \ {o}, !.deleted = @ \union {o}]
  /\ UNCHANGED <<logLevel, policy, meeting, others, history, events>>

AudioStays(o) ==
  /\ job.step = "meetings" /\ o \in job.audio /\ Event
  /\ IF Raises("warning") THEN Abort /\ UNCHANGED orphans
     ELSE /\ job' = [job EXCEPT !.audio = @ \ {o}]
          /\ orphans' = orphans \union {o}
          /\ UNCHANGED undone
  /\ UNCHANGED <<logLevel, policy, meeting, objects, others, overtaken>>

\* Bug: the ref of a cleared transcript stays.
AppliedButRef(m) ==
  IF ~Exists(m) \/ m \in job.gone THEN Gone
  ELSE [meeting[m] EXCEPT !.text = @ /\ m \notin job.cleared, !.items = @ /\ m \notin job.items]

\* What the commit makes of a row.  A transcription that ended meanwhile
\* has written its own columns.
Applied(m) ==
  IF ~Exists(m) \/ m \in job.gone THEN Gone
  ELSE [meeting[m] EXCEPT !.text = @ /\ m \notin job.cleared,
                          !.ref = IF m \in job.cleared THEN "none" ELSE @,
                          !.items = @ /\ m \notin job.items]

\* The flush that deletes the rows of meetings takes their locks; it does
\* not mind a row that is gone.
FlushMeetings ==
  /\ job.step = "meetings" /\ job.audio = {}
  /\ job' = [job EXCEPT !.step = "flushed"]
  /\ UNCHANGED <<logLevel, policy, meeting, objects, others, history, events>>

\* A meeting that was transcribed since the run looked for old transcripts
\* goes, but its transcript stays: only recordings are deleted with a row.
Commit ==
  /\ job.step = "flushed"
  /\ meeting' = [m \in Meetings |-> Applied(m)]
  /\ orphans' = orphans \union {<<m, "transcript">> : m \in job.gone \intersect overtaken}
  /\ overtaken' = {}
  /\ job' = [step |-> "next", todo |-> job.todo]
  /\ UNCHANGED <<logLevel, policy, objects, others, undone, events>>

\* A flush or the commit fails, by a lost connection or because a row to
\* clear was deleted.
WorkspaceFails ==
  /\ InTransaction
  /\ IF \A m \in job.cleared : Exists(m) THEN Event ELSE UNCHANGED events
  /\ Abort
  /\ UNCHANGED <<logLevel, policy, meeting, objects, others, overtaken, orphans>>

Crash ==
  /\ job # Idle /\ Event
  /\ undone' = undone \union (IF InTransaction THEN job.deleted ELSE {})
  /\ job' = Idle
  /\ UNCHANGED <<logLevel, policy, meeting, objects, others, overtaken, orphans>>

-----------------------------------------------------------------------------
(* The rest of the application. *)

\* The row lock of a meeting that the run has flushed.
Locked(m) ==
  \/ job.step \in {"items", "meetings", "flushed"} /\ m \in job.cleared
  \/ job.step = "flushed" /\ m \in job.gone

\* Transcription, first half: the text is put into S3.  The task that has
\* found the meeting as extracting already holds no lock of its row.
StoreTranscript(m) ==
  /\ Exists(m) /\ meeting[m].ref = "audio" /\ m \notin stored
  /\ stored' = stored \union {m}
  /\ objects' = objects \union {<<m, "transcript">>}
  /\ UNCHANGED <<logLevel, policy, meeting, job, deleting, history, events>>

\* Second half: its commit.  The ref names the transcript from now on, and
\* nothing names the recording.
FinishTranscription(m) ==
  /\ m \in stored /\ Exists(m) /\ ~Locked(m)
  /\ stored' = stored \ {m}
  /\ meeting' = [meeting EXCEPT ![m].text = TRUE, ![m].ref = "transcript", ![m].items = TRUE]
  /\ orphans' = (orphans \ {<<m, "transcript">>}) \union {<<m, "audio">>}
  /\ overtaken' = IF InTransaction /\ job.ws = WorkspaceOf[m] THEN overtaken \union {m} ELSE overtaken
  /\ UNCHANGED <<logLevel, policy, objects, job, deleting, undone, events>>

\* It cannot commit: its row is gone, or the worker or the connection is lost.
TranscriptionFails(m) ==
  /\ m \in stored
  /\ IF Exists(m) THEN Event ELSE UNCHANGED events
  /\ stored' = stored \ {m}
  /\ orphans' = orphans \union {<<m, "transcript">>}
  /\ UNCHANGED <<logLevel, policy, meeting, objects, job, deleting, overtaken, undone>>

\* DELETE of a meeting: the object its row names is taken off S3, if S3 is
\* willing; a refusal is only logged.
BeginDelete(m) ==
  /\ Exists(m) /\ deleting[m] = "no" /\ Event
  /\ deleting' = [deleting EXCEPT ![m] = meeting[m].ref]
  /\ \/ objects' = objects \ {<<m, meeting[m].ref>>} /\ UNCHANGED orphans
     \/ orphans' = orphans \union ({<<m, meeting[m].ref>>} \intersect objects) /\ UNCHANGED objects
  /\ UNCHANGED <<logLevel, policy, meeting, job, stored, overtaken, undone>>

\* Then the row goes, whatever it names by now; it may be gone.
FinishDelete(m) ==
  /\ deleting[m] # "no" /\ ~Locked(m)
  /\ deleting' = [deleting EXCEPT ![m] = "no"]
  /\ meeting' = [meeting EXCEPT ![m] = Gone]
  /\ orphans' = IF meeting[m].ref = "transcript" /\ deleting[m] = "audio"
                THEN orphans \union {<<m, "transcript">>} ELSE orphans
  /\ UNCHANGED <<logLevel, policy, objects, job, stored, overtaken, undone, events>>

\* The transaction or the process of the request is lost.
DeleteFails(m) ==
  /\ deleting[m] # "no" /\ Event
  /\ deleting' = [deleting EXCEPT ![m] = "no"]
  /\ undone' = IF deleting[m] \in Kinds THEN undone \union {<<m, deleting[m]>>} ELSE undone
  /\ UNCHANGED <<logLevel, policy, meeting, objects, job, stored, overtaken, orphans>>

\* Ages are those at the start of a run: it lasts minutes, and each of its
\* transactions counts back from the moment at which it begins.
AYearPasses ==
  /\ job = Idle
  /\ \E m \in Meetings : Exists(m)
  /\ \A m \in Meetings : meeting[m].age < MaxAge
  /\ meeting' = [m \in Meetings |-> IF Exists(m) THEN [meeting[m] EXCEPT !.age = @ + 1] ELSE Gone]
  /\ UNCHANGED <<logLevel, policy, objects, job, others, history, events>>

-----------------------------------------------------------------------------
NewMeeting(input) ==
  [age |-> 0, text |-> input # "recording", items |-> input # "recording",
   ref |-> CASE input = "recording" -> "audio" [] input = "file" -> "transcript" [] OTHER -> "none"]

NewMeetings == {NewMeeting(input) : input \in Inputs}

Init ==
  /\ logLevel \in LogLevels
  /\ policy = [ws \in Workspaces |-> NoPolicy]
  /\ meeting \in [Meetings -> NewMeetings]
  /\ objects = {<<m, meeting[m].ref>> : m \in {x \in Meetings : meeting[x].ref \in Kinds}}
  /\ job = Idle
  /\ stored = {} /\ deleting = [m \in Meetings |-> "no"]
  /\ overtaken = {} /\ orphans = {} /\ undone = {} /\ events = 0

Work ==
  \/ OpenWorkspace \/ EndRun \/ FlushTranscripts \/ ReadMeetings
  \/ FlushMeetings \/ Commit \/ WorkspaceFails
  \/ \E m \in Meetings : ClearTranscript(m) \/ TranscriptStays(m)
  \/ \E m \in Meetings : DeleteAudio(<<m, "audio">>) \/ AudioStays(<<m, "audio">>)

Others ==
  \/ \E ws \in Workspaces :
       \/ GetPolicy(ws)
       \/ \E f \in {"transcript", "item"}, d \in NewDays : PatchPolicy(ws, f, d)
  \/ \E m \in Meetings :
       \/ StoreTranscript(m) \/ FinishTranscription(m) \/ TranscriptionFails(m)
       \/ BeginDelete(m) \/ FinishDelete(m) \/ DeleteFails(m)
  \/ AYearPasses

Next == ApplyAllRetentionPolicies \/ Work \/ Crash \/ Others

Spec == Init /\ [][Next]_vars

\* Beat starts a run every day, and a run that is started goes on.
Fairness == WF_vars(ApplyAllRetentionPolicies) /\ WF_vars(Work)

FairSpec == Spec /\ Fairness

-----------------------------------------------------------------------------
(* Properties. *)

TypeOK ==
  /\ logLevel \in LogLevels
  /\ policy \in [Workspaces -> [transcript : -1 .. MaxAge, item : -1 .. MaxAge]]
  /\ meeting \in [Meetings -> [age : -1 .. MaxAge, text : BOOLEAN, items : BOOLEAN,
                               ref : {"none", "audio", "transcript"}]]
  /\ objects \subseteq Meetings \X Kinds
  /\ orphans \subseteq Meetings \X Kinds /\ undone \subseteq Meetings \X Kinds
  /\ stored \subseteq Meetings /\ overtaken \subseteq Meetings
  /\ deleting \in [Meetings -> {"no", "none", "audio", "transcript"}]
  /\ job.step \in {"idle", "next", "transcripts", "items", "meetings", "flushed"}
  /\ events \in 0 .. MaxEvents

\* Every object of S3 is named by the row of its meeting, and every name is
\* that of an object.  The objects without a name are: a transcript whose
\* transcription has yet to commit, or could not; a recording that was
\* transcribed; what S3 refused to delete; and the transcript of a meeting
\* that went though it was transcribed while the transaction of the run, or
\* the DELETE of the meeting, that took it was under way.  The names without
\* an object are of what a transaction has deleted that is under way or failed.
Names(m, kind) == Exists(m) /\ meeting[m].ref = kind
RefsAndObjectsAgree ==
  \A m \in Meetings, kind \in Kinds :
    /\ <<m, kind>> \in objects /\ ~Names(m, kind) =>
         <<m, kind>> \in orphans \/ (kind = "transcript" /\ m \in stored)
    /\ Names(m, kind) /\ <<m, kind>> \notin objects =>
         \/ <<m, kind>> \in undone \/ deleting[m] = kind
         \/ InTransaction /\ <<m, kind>> \in job.deleted

\* A run takes a meeting, its items or its transcript only when both periods,
\* that of items, or that of transcripts are over, by the policy it has read:
\* an edit of the policy during the run does not mix with it.
OnlyTheOldGoes ==
  [][job.step = "flushed" /\ job'.step = "next" =>
       \A m \in Meetings : LET p == job.policy IN
         /\ Exists(m) /\ meeting'[m] = Gone => meeting[m].age > p.transcript /\ meeting[m].age > p.item
         /\ meeting[m].items /\ ~meeting'[m].items => meeting[m].age > p.item
         /\ meeting[m].text /\ ~meeting'[m].text => meeting[m].age > p.transcript]_vars

\* What is overdue goes, whatever fails on some days: a run that was aborted
\* is made up for by the next.
Overdue(m) ==
  LET p == PolicyOf(WorkspaceOf[m]) IN
  /\ Exists(m)
  /\ \/ meeting[m].age > p.transcript /\ meeting[m].text
     \/ meeting[m].age > p.item /\ meeting[m].items
     \/ meeting[m].age > LongerPeriod(p)
OverdueGoes == \A m \in Meetings : []<>(logLevel = "info" \/ ~Overdue(m))
=============================================================================
