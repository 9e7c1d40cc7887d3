------------------------ MODULE DataRetentionProofs ------------------------
(***************************************************************************)
(* Theorems about DataRetention, for any meetings and workspaces, any log  *)
(* level and any number of failures.                                       *)
(***************************************************************************)
EXTENDS DataRetention, TLAPS

Policies == [transcript : -1 .. MaxAge, item : -1 .. MaxAge]
Rows == [age : -1 .. MaxAge, text : BOOLEAN, items : BOOLEAN,
         ref : {"none", "audio", "transcript"}]

(* A run is between two workspaces, or in the transaction of one.          *)
Between == [step : {"next"}, todo : SUBSET Workspaces]
Active == [step : {"transcripts", "items", "meetings", "flushed"}, todo : SUBSET Workspaces,
           ws : Workspaces, policy : Policies, old : SUBSET Meetings,
           cleared : SUBSET Meetings, items : SUBSET Meetings, gone : SUBSET Meetings,
           audio : SUBSET (Meetings \X Kinds), deleted : SUBSET (Meetings \X Kinds)]
JobOK == job = Idle \/ job \in Between \union Active

(* A meeting has no text while its ref is that of the recording, and has   *)
(* one while it is that of a transcript.                                   *)
RowsOK ==
  \A m \in Meetings : Exists(m) =>
    /\ meeting[m].age >= 0
    /\ meeting[m].text => meeting[m].ref # "audio"
    /\ meeting[m].ref = "transcript" => meeting[m].text

(* What the run takes is as old as the policy it has read says, and stays  *)
(* so; a transcript it has seen is not written again meanwhile.            *)
TakesTheOld ==
  job \in Active =>
    /\ \A m \in job.old \union job.cleared :
         Exists(m) => meeting[m].text /\ meeting[m].age > job.policy.transcript
    /\ \A m \in job.items : Exists(m) => meeting[m].age > job.policy.item
    /\ \A m \in job.gone : Exists(m) => meeting[m].age > LongerPeriod(job.policy)

(* What the run has deleted from S3 belongs to what its commit changes.    *)
DeletedIsTaken ==
  job \in Active =>
    /\ \A o \in job.deleted : \/ o[2] = "transcript" /\ o[1] \in job.cleared
                              \/ o[2] = "audio" /\ o[1] \in job.gone
    /\ \A o \in job.audio : o[2] = "audio" /\ o[1] \in job.gone
    /\ job.step \in {"transcripts", "items"} => job.gone = {} /\ job.audio = {}
    /\ job.step = "flushed" => job.audio = {}

(* A cleared transcript is off S3 or could not be deleted.                 *)
ClearedIsOff ==
  job \in Active =>
    \A m \in job.cleared :
      Names(m, "transcript") /\ <<m, "transcript">> \in objects => <<m, "transcript">> \in orphans

(* The run has seen the old transcripts of its workspace, but for those of *)
(* transcriptions that have overtaken it.                                  *)
SeesTranscripts ==
  job \in Active =>
    /\ job.step # "transcripts" => job.old = {}
    /\ \A m \in job.gone : WorkspaceOf[m] = job.ws
    /\ \A m \in Meetings :
         Names(m, "transcript") /\ WorkspaceOf[m] = job.ws /\ meeting[m].age > job.policy.transcript =>
           m \in job.old \union job.cleared \union overtaken

(* The recordings of the meetings it takes are off S3, or on the list.     *)
SeesRecordings ==
  job \in Active =>
    \A m \in job.gone :
      Names(m, "audio") /\ <<m, "audio">> \in objects => <<m, "audio">> \in job.audio \union orphans

(* A transcript that is yet to be committed is in S3, and its recording is *)
(* what the row names.                                                     *)
StoredIsThere ==
  \A m \in stored : /\ Exists(m) => meeting[m].ref = "audio"
                    /\ <<m, "transcript">> \in objects

(* A DELETE has taken what the row named off S3, or S3 has refused; a      *)
(* transcription may have committed since.                                 *)
DeletingIsOff ==
  \A m \in Meetings : deleting[m] # "no" =>
    /\ Names(m, "audio") => deleting[m] = "audio"
    /\ \A kind \in Kinds : Names(m, kind) /\ <<m, kind>> \in objects =>
         <<m, kind>> \in orphans \/ (kind = "transcript" /\ deleting[m] = "audio")

(* The inductive invariant.                                                *)
RetentionInv ==
  /\ TypeOK /\ JobOK /\ RowsOK
  /\ TakesTheOld /\ DeletedIsTaken /\ ClearedIsOff
  /\ SeesTranscripts /\ SeesRecordings /\ StoredIsThere /\ DeletingIsOff
  /\ RefsAndObjectsAgree
-----------------------------------------------------------------------------
(* Forms of the steps of a run *)

(* A run that is not in the transaction of a workspace.                    *)
Resting == job' = Idle \/ job' \in Between

(* Transcriptions and requests stay where they are.                        *)
Aside == stored' = stored /\ deleting' = deleting

(* The three kinds of job are apart.                                       *)
LEMMA Apart ==
  /\ \A j \in Active : j # Idle /\ j \notin Between /\ j.step \notin {"idle", "next"}
  /\ \A j \in Between : j # Idle /\ j \notin Active /\ j.step = "next"
  /\ Idle \notin Active /\ Idle \notin Between /\ Idle.step = "idle"
BY DEF Active, Between, Idle

(* A step of a transaction is a step of an active run.                     *)
LEMMA StepIsActive ==
  ASSUME JobOK, job.step \in {"transcripts", "items", "meetings", "flushed"}
  PROVE  job \in Active
BY Apart DEF JobOK, Between, Idle

(* The objects a row names are objects.                                    *)
LEMMA NamedType ==
  ASSUME NEW m \in Meetings
  PROVE  /\ NamedTranscript(m) \subseteq Meetings \X Kinds
         /\ NamedAudio(m) \subseteq Meetings \X Kinds
BY DEF NamedTranscript, NamedAudio, Kinds

(* A rollback: what was deleted is not undone with it.                     *)
LEMMA AbortForm ==
  ASSUME job \in Active, Abort
  PROVE  Resting /\ undone' = undone \union job.deleted
BY DEF Abort, Active, Between, Resting

(* The run opens a workspace.                                              *)
LEMMA OpenForm ==
  ASSUME TypeOK, JobOK, OpenWorkspace
  PROVE  /\ job \notin Active /\ job' \in Active /\ job'.step = "transcripts"
         /\ \E ws \in Workspaces : /\ job'.ws = ws /\ job'.policy = PolicyOf(ws)
                                   /\ job'.old = OldTranscripts(ws, PolicyOf(ws))
         /\ job'.cleared = {} /\ job'.items = {} /\ job'.gone = {} /\ job'.audio = {} /\ job'.deleted = {}
         /\ meeting' = meeting /\ objects' = objects /\ orphans' = orphans /\ undone' = undone
         /\ Aside /\ overtaken' = {}
<1>1. PICK ws \in job.todo :
        job' = [step |-> "transcripts", todo |-> job.todo \ {ws}, ws |-> ws, policy |-> PolicyOf(ws),
                old |-> OldTranscripts(ws, PolicyOf(ws)), cleared |-> {}, items |-> {}, gone |-> {},
                audio |-> {}, deleted |-> {}]
  BY DEF OpenWorkspace
<1>2. job \in Between
  BY Apart DEF OpenWorkspace, JobOK, Active, Idle
<1>3. ws \in Workspaces
  BY <1>2 DEF Between
<1>4. PolicyOf(ws) \in Policies
  BY <1>3, RetentionAssumption DEF PolicyOf, Policies, TypeOK, DefaultPolicy
<1>5. OldTranscripts(ws, PolicyOf(ws)) \subseteq Meetings
  BY DEF OldTranscripts, OfWorkspace
<1>6. job' \in Active
  BY <1>1, <1>2, <1>3, <1>4, <1>5 DEF Active, Between
<1>7. /\ meeting' = meeting /\ objects' = objects /\ orphans' = orphans /\ undone' = undone
      /\ Aside /\ overtaken' = {}
  BY DEF OpenWorkspace, Aside, others
<1> QED
  BY <1>1, <1>2, <1>3, <1>6, <1>7, Apart

(* The run clears a transcript, whose object S3 deletes.                   *)
LEMMA ClearForm ==
  ASSUME JobOK, NEW m \in Meetings, ClearTranscript(m)
  PROVE  /\ job \in Active /\ job' \in Active /\ job'.step = job.step /\ job.step = "transcripts"
         /\ job'.policy = job.policy /\ m \in job.old /\ job'.old = job.old \ {m}
         /\ job'.cleared = job.cleared \union {m} /\ job'.items = job.items
         /\ job'.gone = job.gone /\ job'.audio = job.audio
         /\ job'.deleted = job.deleted \union NamedTranscript(m)
         /\ objects' = objects \ NamedTranscript(m) /\ job'.ws = job.ws
         /\ meeting' = meeting /\ orphans' = orphans /\ undone' = undone
         /\ Aside /\ overtaken' = overtaken
<1>1. /\ job.step = "transcripts" /\ m \in job.old /\ objects' = objects \ NamedTranscript(m)
      /\ meeting' = meeting /\ orphans' = orphans /\ undone' = undone
      /\ Aside /\ overtaken' = overtaken
  BY DEF ClearTranscript, Aside, others, history
<1>2. job' = [job EXCEPT !.old = @ \ {m}, !.cleared = @ \union {m},
                         !.deleted = @ \union NamedTranscript(m)]
  BY DEF ClearTranscript
<1>3. job \in Active
  BY <1>1, StepIsActive
<1>4. /\ job.old \ {m} \in SUBSET Meetings /\ job.cleared \union {m} \in SUBSET Meetings
      /\ job.deleted \union NamedTranscript(m) \in SUBSET (Meetings \X Kinds)
  BY <1>3, NamedType DEF Active
<1> QED
  BY <1>1, <1>2, <1>3, <1>4 DEF Active

(* The run clears a transcript whose object stays, or is rolled back.      *)
LEMMA StaysForm ==
  ASSUME JobOK, NEW m \in Meetings, TranscriptStays(m)
  PROVE  /\ job \in Active /\ job.step = "transcripts" /\ meeting' = meeting /\ objects' = objects
         /\ Aside /\ overtaken' = overtaken
         /\ \/ Resting /\ undone' = undone \union job.deleted /\ orphans' = orphans
            \/ /\ job' \in Active /\ job'.step = job.step /\ job'.policy = job.policy /\ job'.ws = job.ws
               /\ m \in job.old /\ job'.old = job.old \ {m}
               /\ job'.cleared = job.cleared \union {m} /\ job'.items = job.items
               /\ job'.gone = job.gone /\ job'.audio = job.audio /\ job'.deleted = job.deleted
               /\ NamedTranscript(m) # {}
               /\ orphans' = orphans \union NamedTranscript(m) /\ undone' = undone
<1>1. /\ job.step = "transcripts" /\ m \in job.old /\ NamedTranscript(m) # {}
      /\ meeting' = meeting /\ objects' = objects /\ Aside /\ overtaken' = overtaken
  BY DEF TranscriptStays, Aside, others
<1>2. job \in Active
  BY <1>1, StepIsActive
<1>3. CASE Raises("warning")
  <2>1. Abort /\ orphans' = orphans
    BY <1>3 DEF TranscriptStays
  <2> QED
    BY <1>1, <1>2, <2>1, AbortForm
<1>4. CASE ~Raises("warning")
  <2>1. job' = [job EXCEPT !.old = @ \ {m}, !.cleared = @ \union {m}]
    BY <1>4 DEF TranscriptStays
  <2>2. orphans' = orphans \union NamedTranscript(m) /\ undone' = undone
    BY <1>4 DEF TranscriptStays
  <2>3. job.old \ {m} \in SUBSET Meetings /\ job.cleared \union {m} \in SUBSET Meetings
    BY <1>2 DEF Active
  <2>4. /\ job' \in Active /\ job'.step = job.step /\ job'.policy = job.policy /\ job'.ws = job.ws
        /\ job'.old = job.old \ {m}
        /\ job'.cleared = job.cleared \union {m} /\ job'.items = job.items
        /\ job'.gone = job.gone /\ job'.audio = job.audio /\ job'.deleted = job.deleted
    BY <1>2, <2>1, <2>3 DEF Active
  <2> QED
    BY <1>1, <1>2, <2>2, <2>4
<1> QED
  BY <1>3, <1>4

(* The run has cleared the transcripts, and takes the items.               *)
LEMMA FlushForm ==
  ASSUME JobOK, FlushTranscripts
  PROVE  /\ job \in Active /\ job' \in Active /\ job.step = "transcripts" /\ job'.step = "items"
         /\ job'.policy = job.policy /\ job'.old = job.old /\ job'.cleared = job.cleared
         /\ job'.items = OldItems(job.ws, job.policy)
         /\ job'.gone = job.gone /\ job'.audio = job.audio /\ job'.deleted = job.deleted
         /\ job'.ws = job.ws /\ job.old = {}
         /\ meeting' = meeting /\ objects' = objects /\ orphans' = orphans /\ undone' = undone
         /\ Aside /\ overtaken' = overtaken
<1>1. /\ job.step = "transcripts" /\ job.old = {}
      /\ meeting' = meeting /\ objects' = objects /\ orphans' = orphans /\ undone' = undone
      /\ Aside /\ overtaken' = overtaken
  BY DEF FlushTranscripts, Aside, others, history
<1>2. job' = [job EXCEPT !.step = "items", !.items = OldItems(job.ws, job.policy)]
  BY DEF FlushTranscripts
<1>3. job \in Active
  BY <1>1, StepIsActive
<1>4. OldItems(job.ws, job.policy) \in SUBSET Meetings
  BY DEF OldItems, OfWorkspace
<1> QED
  BY <1>1, <1>2, <1>3, <1>4 DEF Active

(* The run takes meetings, and their recordings.                           *)
LEMMA ReadForm ==
  ASSUME JobOK, ReadMeetings
  PROVE  /\ job \in Active /\ job' \in Active /\ job.step = "items" /\ job'.step = "meetings"
         /\ job'.policy = job.policy /\ job'.old = job.old /\ job'.cleared = job.cleared
         /\ job'.items = job.items /\ job'.gone = OldMeetings(job.ws, job.policy)
         /\ job'.audio = UNION {NamedAudio(m) : m \in OldMeetings(job.ws, job.policy)}
         /\ job'.deleted = job.deleted /\ job'.ws = job.ws
         /\ meeting' = meeting /\ objects' = objects /\ orphans' = orphans /\ undone' = undone
         /\ Aside /\ overtaken' = overtaken
<1> DEFINE old == OldMeetings(job.ws, job.policy)
           audio == UNION {NamedAudio(m) : m \in old}
<1>1. /\ job.step = "items"
      /\ meeting' = meeting /\ objects' = objects /\ orphans' = orphans /\ undone' = undone
      /\ Aside /\ overtaken' = overtaken
  BY DEF ReadMeetings, Aside, others, history
<1>2. job' = [job EXCEPT !.step = "meetings", !.gone = old, !.audio = audio]
  BY DEF ReadMeetings
<1>3. job \in Active
  BY <1>1, StepIsActive
<1>4. old \in SUBSET Meetings
  BY DEF OldMeetings, OfWorkspace
<1>5. audio \in SUBSET (Meetings \X Kinds)
  BY <1>4, NamedType
<1> HIDE DEF old, audio
<1>6. /\ job' \in Active /\ job'.step = "meetings"
      /\ job'.policy = job.policy /\ job'.old = job.old /\ job'.cleared = job.cleared
      /\ job'.items = job.items /\ job'.gone = old
      /\ job'.audio = audio /\ job'.deleted = job.deleted /\ job'.ws = job.ws
  BY <1>2, <1>3, <1>4, <1>5 DEF Active
<1> QED
  BY <1>1, <1>3, <1>6 DEF old, audio

(* The run deletes a recording, cannot, or is rolled back.                 *)
LEMMA AudioForm ==
  ASSUME JobOK, NEW o, DeleteAudio(o) \/ AudioStays(o)
  PROVE  /\ job \in Active /\ job.step = "meetings" /\ o \in job.audio /\ meeting' = meeting
         /\ Aside /\ overtaken' = overtaken
         /\ \/ /\ Resting /\ undone' = undone \union job.deleted
               /\ objects' = objects /\ orphans' = orphans
            \/ /\ job' \in Active /\ job'.step = job.step /\ job'.policy = job.policy /\ job'.ws = job.ws
               /\ job'.old = job.old /\ job'.cleared = job.cleared /\ job'.items = job.items
               /\ job'.gone = job.gone /\ job'.audio = job.audio \ {o} /\ undone' = undone
               /\ \/ /\ job'.deleted = job.deleted \union {o}
                     /\ objects' = objects \ {o} /\ orphans' = orphans
                  \/ /\ job'.deleted = job.deleted
                     /\ objects' = objects /\ orphans' = orphans \union {o}
<1>1. job.step = "meetings" /\ o \in job.audio /\ meeting' = meeting /\ Aside /\ overtaken' = overtaken
  BY DEF DeleteAudio, AudioStays, Aside, others, history
<1>2. job \in Active
  BY <1>1, StepIsActive
<1>3. CASE DeleteAudio(o)
  <2>1. job' = [job EXCEPT !.audio = @ \ {o}, !.deleted = @ \union {o}]
    BY <1>3 DEF DeleteAudio
  <2>2. objects' = objects \ {o} /\ orphans' = orphans /\ undone' = undone
    BY <1>3 DEF DeleteAudio, history
  <2>3. job.audio \ {o} \in SUBSET (Meetings \X Kinds) /\ job.deleted \union {o} \in SUBSET (Meetings \X Kinds)
    BY <1>1, <1>2 DEF Active
  <2>4. /\ job' \in Active /\ job'.step = job.step /\ job'.policy = job.policy /\ job'.ws = job.ws
        /\ job'.old = job.old /\ job'.cleared = job.cleared /\ job'.items = job.items
        /\ job'.gone = job.gone /\ job'.audio = job.audio \ {o}
        /\ job'.deleted = job.deleted \union {o}
    BY <1>2, <2>1, <2>3 DEF Active
  <2> QED
    BY <1>1, <1>2, <2>2, <2>4
<1>4. CASE AudioStays(o) /\ Raises("warning")
  <2>1. Abort /\ objects' = objects /\ orphans' = orphans
    BY <1>4 DEF AudioStays
  <2> QED
    BY <1>1, <1>2, <2>1, AbortForm
<1>5. CASE AudioStays(o) /\ ~Raises("warning")
  <2>1. job' = [job EXCEPT !.audio = @ \ {o}]
    BY <1>5 DEF AudioStays
  <2>2. objects' = objects /\ orphans' = orphans \union {o} /\ undone' = undone
    BY <1>5 DEF AudioStays
  <2>3. job.audio \ {o} \in SUBSET (Meetings \X Kinds)
    BY <1>2 DEF Active
  <2>4. /\ job' \in Active /\ job'.step = job.step /\ job'.policy = job.policy /\ job'.ws = job.ws
        /\ job'.old = job.old /\ job'.cleared = job.cleared /\ job'.items = job.items
        /\ job'.gone = job.gone /\ job'.audio = job.audio \ {o}
        /\ job'.deleted = job.deleted
    BY <1>2, <2>1, <2>3 DEF Active
  <2> QED
    BY <1>1, <1>2, <2>2, <2>4
<1> QED
  BY <1>3, <1>4, <1>5

(* The run begins, ends, or gives a workspace up.                          *)
LEMMA RestForm ==
  ASSUME JobOK, \/ ApplyAllRetentionPolicies \/ EndRun \/ WorkspaceFails \/ Crash
  PROVE  /\ Resting /\ meeting' = meeting /\ objects' = objects /\ orphans' = orphans
         /\ Aside /\ overtaken' = overtaken
         /\ undone' = undone \union (IF job \in Active THEN job.deleted ELSE {})
<1>1. CASE ApplyAllRetentionPolicies
  BY <1>1, Apart DEF ApplyAllRetentionPolicies, Resting, Between, Aside, others, history
<1>2. CASE EndRun
  BY <1>2, Apart DEF EndRun, Resting, JobOK, Aside, others, history
<1>3. CASE WorkspaceFails
  BY <1>3, StepIsActive, AbortForm DEF WorkspaceFails, Aside, others, InTransaction
<1>4. CASE Crash
  <2>1. InTransaction <=> job \in Active
    BY Apart, StepIsActive DEF InTransaction, Active
  <2> QED
    BY <1>4, <2>1 DEF Crash, Resting, Aside, others
<1> QED
  BY <1>1, <1>2, <1>3, <1>4

(* The rows of the meetings that go are locked.                            *)
LEMMA FlushMeetingsForm ==
  ASSUME JobOK, FlushMeetings
  PROVE  /\ job \in Active /\ job' \in Active /\ job.step = "meetings" /\ job'.step = "flushed"
         /\ job'.policy = job.policy /\ job'.old = job.old /\ job'.cleared = job.cleared
         /\ job'.items = job.items /\ job'.ws = job.ws /\ job.audio = {}
         /\ job'.gone = job.gone /\ job'.audio = job.audio /\ job'.deleted = job.deleted
         /\ meeting' = meeting /\ objects' = objects /\ orphans' = orphans /\ undone' = undone
         /\ Aside /\ overtaken' = overtaken
<1>1. /\ job.step = "meetings" /\ job.audio = {} /\ job' = [job EXCEPT !.step = "flushed"]
      /\ meeting' = meeting /\ objects' = objects /\ orphans' = orphans /\ undone' = undone
      /\ Aside /\ overtaken' = overtaken
  BY DEF FlushMeetings, Aside, others, history
<1>2. job \in Active
  BY <1>1, StepIsActive
<1> QED
  BY <1>1, <1>2 DEF Active

(* The commit takes what the run holds.                                    *)
LEMMA CommitForm ==
  ASSUME JobOK, Commit
  PROVE  /\ job \in Active /\ job.step = "flushed" /\ Resting
         /\ meeting' = [m \in Meetings |-> Applied(m)]
         /\ orphans' = orphans \union {<<m, "transcript">> : m \in job.gone \intersect overtaken}
         /\ objects' = objects /\ undone' = undone /\ Aside
<1>1. /\ job.step = "flushed" /\ job' = [step |-> "next", todo |-> job.todo]
      /\ meeting' = [m \in Meetings |-> Applied(m)]
      /\ orphans' = orphans \union {<<m, "transcript">> : m \in job.gone \intersect overtaken}
      /\ objects' = objects /\ undone' = undone /\ Aside
  BY DEF Commit, Aside, others
<1>2. job \in Active
  BY <1>1, StepIsActive
<1>3. Resting
  BY <1>1, <1>2 DEF Resting, Active, Between
<1> QED
  BY <1>1, <1>2, <1>3

(* Steps of a transcription or a deletion.                                 *)
Beside(m) == \/ StoreTranscript(m) \/ FinishTranscription(m) \/ TranscriptionFails(m)
             \/ BeginDelete(m) \/ FinishDelete(m) \/ DeleteFails(m)

(* The others leave the run alone.                                         *)
LEMMA OthersForm ==
  ASSUME Others
  PROVE  /\ job' = job
         /\ \/ /\ meeting' = meeting /\ objects' = objects /\ orphans' = orphans /\ undone' = undone
               /\ Aside /\ overtaken' = overtaken
            \/ AYearPasses
            \/ \E m \in Meetings : Beside(m)
<1>1. ASSUME NEW m \in Meetings, Beside(m)
      PROVE  job' = job
  BY <1>1 DEF Beside, StoreTranscript, FinishTranscription, TranscriptionFails, BeginDelete,
              FinishDelete, DeleteFails
<1>2. CASE AYearPasses
  BY <1>2 DEF AYearPasses
<1>3. ASSUME NEW ws \in Workspaces,
             GetPolicy(ws) \/ \E f \in {"transcript", "item"}, d \in NewDays : PatchPolicy(ws, f, d)
      PROVE  /\ job' = job /\ undone' = undone /\ meeting' = meeting /\ objects' = objects
             /\ orphans' = orphans /\ Aside /\ overtaken' = overtaken
  BY <1>3 DEF GetPolicy, PatchPolicy, Aside, others, history
<1> QED
  BY <1>1, <1>2, <1>3 DEF Others, Beside
-----------------------------------------------------------------------------
(* Types *)

(* A counted event stays within its bound.                                 *)
LEMMA EventType ==
  ASSUME TypeOK, Event
  PROVE  events' \in 0 .. MaxEvents
BY RetentionAssumption DEF TypeOK, Event

(* The run keeps its forms.                                                *)
LEMMA JobStep ==
  ASSUME TypeOK, JobOK, [Next]_vars
  PROVE  JobOK'
<1>1. CASE OpenWorkspace
  BY <1>1, OpenForm DEF JobOK
<1>2. ASSUME NEW m \in Meetings, ClearTranscript(m) \/ TranscriptStays(m)
      PROVE  JobOK'
  BY <1>2, ClearForm, StaysForm DEF JobOK, Resting
<1>3. ASSUME NEW m \in Meetings, DeleteAudio(<<m, "audio">>) \/ AudioStays(<<m, "audio">>)
      PROVE  JobOK'
  BY <1>3, AudioForm DEF JobOK, Resting
<1>4. CASE FlushTranscripts \/ ReadMeetings \/ FlushMeetings
  BY <1>4, FlushForm, ReadForm, FlushMeetingsForm DEF JobOK
<1>5. CASE Commit \/ ApplyAllRetentionPolicies \/ EndRun \/ WorkspaceFails \/ Crash
  BY <1>5, CommitForm, RestForm DEF JobOK, Resting
<1>6. CASE Others \/ UNCHANGED vars
  BY <1>6, OthersForm DEF JobOK, vars
<1> QED
  BY <1>1, <1>2, <1>3, <1>4, <1>5, <1>6 DEF Next, Work

(* What a step makes of the rows of meetings.                              *)
LEMMA MeetingSteps ==
  ASSUME JobOK, [Next]_vars
  PROVE  \/ meeting' = meeting
         \/ Commit \/ AYearPasses
         \/ \E m \in Meetings : FinishTranscription(m) \/ FinishDelete(m)
<1>1. CASE OpenWorkspace
  BY <1>1 DEF OpenWorkspace
<1>2. ASSUME NEW m \in Meetings, ClearTranscript(m) \/ TranscriptStays(m)
      PROVE  meeting' = meeting
  BY <1>2, ClearForm, StaysForm
<1>3. ASSUME NEW m \in Meetings, DeleteAudio(<<m, "audio">>) \/ AudioStays(<<m, "audio">>)
      PROVE  meeting' = meeting
  BY <1>3, AudioForm
<1>4. CASE FlushTranscripts \/ ReadMeetings \/ FlushMeetings
  BY <1>4, FlushForm, ReadForm, FlushMeetingsForm
<1>5. CASE ApplyAllRetentionPolicies \/ EndRun \/ WorkspaceFails \/ Crash
  BY <1>5, RestForm
<1>6. CASE UNCHANGED vars
  BY <1>6 DEF vars
<1>7. ASSUME NEW m \in Meetings, Beside(m)
      PROVE  meeting' = meeting \/ FinishTranscription(m) \/ FinishDelete(m)
  BY <1>7 DEF Beside, StoreTranscript, TranscriptionFails, BeginDelete, DeleteFails
<1> QED
  BY <1>1, <1>2, <1>3, <1>4, <1>5, <1>6, <1>7, OthersForm DEF Next, Work

(* What a commit makes of a row that stays: its age is the same, and it is *)
(* a row.                                                                  *)
LEMMA AppliedForm ==
  ASSUME TypeOK, RowsOK, job \in Active, NEW m \in Meetings
  PROVE  /\ Applied(m) \in Rows
         /\ ~Exists(m) \/ m \in job.gone => Applied(m) = Gone
         /\ Exists(m) /\ m \notin job.gone =>
              /\ Applied(m) # Gone /\ Applied(m).age = meeting[m].age
              /\ Applied(m).text = (meeting[m].text /\ m \notin job.cleared)
              /\ Applied(m).items = (meeting[m].items /\ m \notin job.items)
              /\ Applied(m).ref = IF m \in job.cleared THEN "none" ELSE meeting[m].ref
<1> DEFINE row == [meeting[m] EXCEPT !.text = @ /\ m \notin job.cleared,
                                     !.ref = IF m \in job.cleared THEN "none" ELSE @,
                                     !.items = @ /\ m \notin job.items]
<1>1. meeting[m] \in Rows
  BY DEF TypeOK, Rows
<1>2. (meeting[m].text /\ m \notin job.cleared) \in BOOLEAN /\ (meeting[m].items /\ m \notin job.items) \in BOOLEAN
  BY <1>1 DEF Rows
<1>3. row \in Rows
  BY <1>1, <1>2 DEF Rows
<1>4. /\ row.age = meeting[m].age
      /\ row.text = (meeting[m].text /\ m \notin job.cleared)
      /\ row.items = (meeting[m].items /\ m \notin job.items)
      /\ row.ref = IF m \in job.cleared THEN "none" ELSE meeting[m].ref
  BY <1>1 DEF Rows
<1>5. Exists(m) => row.age # -1
  BY <1>1, <1>4 DEF RowsOK, Rows
<1>6. Gone \in Rows /\ Gone.age = -1
  BY RetentionAssumption DEF Gone, Rows
<1>7. Applied(m) = IF ~Exists(m) \/ m \in job.gone THEN Gone ELSE row
  BY DEF Applied
<1> HIDE DEF row
<1>8. Exists(m) => row # Gone
  BY <1>5, <1>6
<1> QED
  BY <1>3, <1>4, <1>6, <1>7, <1>8

(* What a transcription, a deletion or a year makes of the rows.           *)
LEMMA RowForms ==
  ASSUME TypeOK, RowsOK, StoredIsThere
  PROVE  /\ \A m \in Meetings : FinishTranscription(m) =>
              /\ meeting' \in [Meetings -> Rows] /\ Exists(m) /\ ~Locked(m)
              /\ meeting[m].ref = "audio" /\ meeting'[m].ref = "transcript" /\ meeting'[m] # Gone
              /\ meeting'[m].age = meeting[m].age /\ meeting'[m].text /\ meeting'[m].items
              /\ \A n \in Meetings \ {m} : meeting'[n] = meeting[n]
         /\ \A m \in Meetings : FinishDelete(m) =>
              /\ meeting' \in [Meetings -> Rows] /\ meeting'[m] = Gone
              /\ \A n \in Meetings \ {m} : meeting'[n] = meeting[n]
         /\ AYearPasses =>
              /\ meeting' \in [Meetings -> Rows]
              /\ \A m \in Meetings :
                   /\ ~Exists(m) => meeting'[m] = Gone
                   /\ Exists(m) => /\ meeting'[m] # Gone /\ meeting'[m].age = meeting[m].age + 1
                                   /\ meeting'[m].text = meeting[m].text
                                   /\ meeting'[m].items = meeting[m].items
                                   /\ meeting'[m].ref = meeting[m].ref
<1>0. meeting \in [Meetings -> Rows] /\ Gone \in Rows /\ Gone.age = -1
  BY RetentionAssumption DEF TypeOK, Rows, Gone
<1>1. ASSUME NEW m \in Meetings, FinishTranscription(m)
      PROVE  /\ meeting' \in [Meetings -> Rows] /\ Exists(m) /\ ~Locked(m)
             /\ meeting[m].ref = "audio" /\ meeting'[m].ref = "transcript" /\ meeting'[m] # Gone
             /\ meeting'[m].age = meeting[m].age /\ meeting'[m].text /\ meeting'[m].items
             /\ \A n \in Meetings \ {m} : meeting'[n] = meeting[n]
  <2> DEFINE row == [meeting[m] EXCEPT !.text = TRUE, !.ref = "transcript", !.items = TRUE]
  <2>1. row \in Rows /\ row.ref = "transcript" /\ row.text /\ row.items /\ row.age = meeting[m].age
    BY <1>0 DEF Rows
  <2>2. meeting' = [meeting EXCEPT ![m] = row]
    <3>1. meeting' = [meeting EXCEPT ![m].text = TRUE, ![m].ref = "transcript", ![m].items = TRUE]
      BY <1>1 DEF FinishTranscription
    <3> QED
      BY <1>0, <3>1
  <2>3. Exists(m) /\ ~Locked(m) /\ meeting[m].ref = "audio"
    BY <1>1 DEF FinishTranscription, StoredIsThere
  <2> HIDE DEF row
  <2>4. row # Gone
    <3>1. meeting[m].age # -1
      BY <2>3, <1>0 DEF RowsOK, Rows
    <3> QED
      BY <2>1, <3>1, <1>0
  <2> QED
    BY <1>0, <2>1, <2>2, <2>3, <2>4
<1>2. ASSUME NEW m \in Meetings, FinishDelete(m)
      PROVE  /\ meeting' \in [Meetings -> Rows] /\ meeting'[m] = Gone
             /\ \A n \in Meetings \ {m} : meeting'[n] = meeting[n]
  <2>1. meeting' = [meeting EXCEPT ![m] = Gone]
    BY <1>2 DEF FinishDelete
  <2> QED
    BY <1>0, <2>1
<1>3. ASSUME AYearPasses
      PROVE  /\ meeting' \in [Meetings -> Rows]
             /\ \A m \in Meetings :
                  /\ ~Exists(m) => meeting'[m] = Gone
                  /\ Exists(m) => /\ meeting'[m] # Gone /\ meeting'[m].age = meeting[m].age + 1
                                  /\ meeting'[m].text = meeting[m].text
                                  /\ meeting'[m].items = meeting[m].items
                                  /\ meeting'[m].ref = meeting[m].ref
  <2> DEFINE older(m) == [meeting[m] EXCEPT !.age = @ + 1]
  <2>1. /\ meeting' = [m \in Meetings |-> IF Exists(m) THEN older(m) ELSE Gone]
        /\ \A m \in Meetings : meeting[m].age < MaxAge
    BY <1>3 DEF AYearPasses
  <2>2. ASSUME NEW m \in Meetings
        PROVE  /\ older(m) \in Rows
               /\ older(m).age = meeting[m].age + 1 /\ older(m).text = meeting[m].text
               /\ older(m).items = meeting[m].items /\ older(m).ref = meeting[m].ref
    <3>1. meeting[m] \in Rows /\ meeting[m].age + 1 \in -1 .. MaxAge
      BY <1>0, <2>1, RetentionAssumption DEF Rows
    <3> QED
      BY <3>1 DEF Rows
  <2>3. ASSUME NEW m \in Meetings, Exists(m)
        PROVE  older(m) # Gone
    BY <1>0, <2>2, <2>3 DEF RowsOK, Rows
  <2> HIDE DEF older
  <2> QED
    BY <1>0, <2>1, <2>2, <2>3
<1> QED
  BY <1>1, <1>2, <1>3

(* Only the API changes the policy, and nothing the log level.             *)
LEMMA SettingsForm ==
  ASSUME [Next]_vars
  PROVE  /\ logLevel' = logLevel /\ (events' = events \/ Event)
         /\ \/ policy' = policy
            \/ \E ws \in Workspaces :
                 GetPolicy(ws) \/ \E f \in {"transcript", "item"}, d \in NewDays : PatchPolicy(ws, f, d)
<1> DEFINE Same == logLevel' = logLevel /\ (events' = events \/ Event) /\ policy' = policy
<1>1. CASE ApplyAllRetentionPolicies \/ OpenWorkspace \/ EndRun \/ FlushTranscripts
  BY <1>1 DEF ApplyAllRetentionPolicies, OpenWorkspace, EndRun, FlushTranscripts
<1>2. CASE ReadMeetings \/ FlushMeetings \/ Commit \/ WorkspaceFails \/ Crash
  BY <1>2 DEF ReadMeetings, FlushMeetings, Commit, WorkspaceFails, Crash
<1>3. ASSUME NEW m \in Meetings, ClearTranscript(m) \/ TranscriptStays(m)
      PROVE  Same
  BY <1>3 DEF ClearTranscript, TranscriptStays
<1>4. ASSUME NEW m \in Meetings, DeleteAudio(<<m, "audio">>) \/ AudioStays(<<m, "audio">>)
      PROVE  Same
  BY <1>4 DEF DeleteAudio, AudioStays
<1>5. ASSUME NEW m \in Meetings, StoreTranscript(m) \/ FinishTranscription(m) \/ TranscriptionFails(m)
      PROVE  Same
  BY <1>5 DEF StoreTranscript, FinishTranscription, TranscriptionFails
<1>6. ASSUME NEW m \in Meetings, BeginDelete(m) \/ FinishDelete(m) \/ DeleteFails(m)
      PROVE  Same
  BY <1>6 DEF BeginDelete, FinishDelete, DeleteFails
<1>7. CASE AYearPasses \/ UNCHANGED vars
  BY <1>7 DEF AYearPasses, vars
<1>8. ASSUME NEW ws \in Workspaces,
             GetPolicy(ws) \/ \E f \in {"transcript", "item"}, d \in NewDays : PatchPolicy(ws, f, d)
      PROVE  logLevel' = logLevel /\ Event
  BY <1>8 DEF GetPolicy, PatchPolicy
<1> QED
  BY <1>1, <1>2, <1>3, <1>4, <1>5, <1>6, <1>7, <1>8 DEF Next, Work, Others

(* Every step keeps the types.                                             *)
LEMMA TypeStep ==
  ASSUME TypeOK, JobOK, RowsOK, StoredIsThere, [Next]_vars
  PROVE  TypeOK'
<1>0. JobOK'
  BY JobStep
<1>1. job'.step \in {"idle", "next", "transcripts", "items", "meetings", "flushed"}
  BY <1>0 DEF JobOK, Active, Between, Idle
<1>2. meeting' \in [Meetings -> Rows]
  <2>1. CASE Commit
    BY <2>1, CommitForm, AppliedForm
  <2>2. meeting \in [Meetings -> Rows]
    BY DEF TypeOK, Rows
  <2> QED
    BY <2>1, <2>2, MeetingSteps, RowForms
<1>3. /\ objects' \subseteq Meetings \X Kinds /\ orphans' \subseteq Meetings \X Kinds
      /\ undone' \subseteq Meetings \X Kinds /\ stored' \subseteq Meetings /\ overtaken' \subseteq Meetings
      /\ deleting' \in [Meetings -> {"no", "none", "audio", "transcript"}]
  <2> DEFINE Typed == /\ objects' \subseteq Meetings \X Kinds /\ orphans' \subseteq Meetings \X Kinds
                      /\ undone' \subseteq Meetings \X Kinds /\ stored' \subseteq Meetings
                      /\ overtaken' \subseteq Meetings
                      /\ deleting' \in [Meetings -> {"no", "none", "audio", "transcript"}]
  <2> USE DEF TypeOK, Aside
  <2>0. job \in Active => /\ job.deleted \subseteq Meetings \X Kinds /\ job.audio \subseteq Meetings \X Kinds
                          /\ job.gone \subseteq Meetings
    BY DEF Active
  <2>1. CASE OpenWorkspace
    BY <2>1, OpenForm
  <2>2. ASSUME NEW m \in Meetings, ClearTranscript(m) \/ TranscriptStays(m)
        PROVE  Typed
    BY <2>0, <2>2, ClearForm, StaysForm, NamedType
  <2>3. ASSUME NEW m \in Meetings, DeleteAudio(<<m, "audio">>) \/ AudioStays(<<m, "audio">>)
        PROVE  Typed
    BY <2>0, <2>3, AudioForm
  <2>4. CASE FlushTranscripts \/ ReadMeetings \/ FlushMeetings
    BY <2>4, FlushForm, ReadForm, FlushMeetingsForm
  <2>5. CASE ApplyAllRetentionPolicies \/ EndRun \/ WorkspaceFails \/ Crash
    BY <2>0, <2>5, RestForm
  <2>6. CASE Commit
    <3>1. overtaken' = {}
      BY <2>6 DEF Commit
    <3> QED
      BY <2>0, <2>6, <3>1, CommitForm DEF Kinds
  <2>7. ASSUME NEW m \in Meetings, Beside(m)
        PROVE  Typed
    <3>0. "no" \in {"no", "none", "audio", "transcript"} /\ <<m, "transcript">> \in Meetings \X Kinds /\ <<m, "audio">> \in Meetings \X Kinds
      BY DEF Kinds
    <3>1. CASE StoreTranscript(m)
      BY <3>0, <3>1 DEF StoreTranscript, history
    <3>2. CASE FinishTranscription(m)
      BY <3>0, <3>2 DEF FinishTranscription
    <3>3. CASE TranscriptionFails(m)
      BY <3>0, <3>3 DEF TranscriptionFails
    <3>4. CASE BeginDelete(m)
      BY <3>0, <3>4 DEF BeginDelete
    <3>5. CASE FinishDelete(m)
      BY <3>0, <3>5 DEF FinishDelete
    <3>6. CASE DeleteFails(m)
      BY <3>0, <3>6 DEF DeleteFails
    <3> QED
      BY <2>7, <3>1, <3>2, <3>3, <3>4, <3>5, <3>6 DEF Beside
  <2>8. CASE AYearPasses
    BY <2>8 DEF AYearPasses, others, history
  <2>9. CASE UNCHANGED vars
    BY <2>9 DEF vars
  <2> QED
    BY <2>1, <2>2, <2>3, <2>4, <2>5, <2>6, <2>7, <2>8, <2>9, OthersForm DEF Next, Work
<1>4. policy' \in [Workspaces -> Policies]
  <2>0. policy \in [Workspaces -> Policies]
    BY DEF TypeOK, Policies
  <2>1. \A ws \in Workspaces : PolicyOf(ws) \in Policies /\ DefaultPolicy \in Policies
    BY <2>0, RetentionAssumption DEF PolicyOf, DefaultPolicy, Policies
  <2>2. ASSUME NEW ws \in Workspaces, GetPolicy(ws)
        PROVE  policy' \in [Workspaces -> Policies]
    BY <2>0, <2>1, <2>2 DEF GetPolicy
  <2>3. ASSUME NEW ws \in Workspaces, NEW f \in {"transcript", "item"}, NEW d \in NewDays,
               PatchPolicy(ws, f, d)
        PROVE  policy' \in [Workspaces -> Policies]
    <3>1. d \in -1 .. MaxAge
      BY RetentionAssumption
    <3>2. [PolicyOf(ws) EXCEPT ![f] = d] \in Policies
      <4>1. CASE f = "transcript"
        BY <2>1, <3>1, <4>1 DEF Policies
      <4>2. CASE f = "item"
        BY <2>1, <3>1, <4>2 DEF Policies
      <4> QED
        BY <4>1, <4>2
    <3>3. policy' = [policy EXCEPT ![ws] = [PolicyOf(ws) EXCEPT ![f] = d]]
      BY <2>3 DEF PatchPolicy
    <3> QED
      BY <2>0, <3>2, <3>3
  <2> QED
    BY <2>0, <2>2, <2>3, SettingsForm
<1>5. logLevel' \in LogLevels /\ events' \in 0 .. MaxEvents
  <2>0. logLevel \in LogLevels /\ events \in 0 .. MaxEvents
    BY DEF TypeOK
  <2> QED
    BY <2>0, SettingsForm, EventType
<1> QED
  BY <1>1, <1>2, <1>3, <1>4, <1>5 DEF TypeOK, Policies, Rows

(* A row names a transcript when it has the text, and no recording then.   *)
LEMMA RowsStep ==
  ASSUME TypeOK, JobOK, RowsOK, StoredIsThere, [Next]_vars
  PROVE  RowsOK'
<1> DEFINE Fits(row) == /\ row.age >= 0 /\ (row.text => row.ref # "audio")
                        /\ (row.ref = "transcript" => row.text)
<1> SUFFICES ASSUME NEW n \in Meetings, meeting'[n] # Gone
             PROVE  Fits(meeting'[n])
  BY DEF RowsOK, Exists
<1>0. Exists(n) => meeting[n].age \in 0 .. MaxAge /\ Fits(meeting[n])
  BY DEF RowsOK, TypeOK
<1>1. CASE meeting' = meeting
  BY <1>0, <1>1 DEF Exists
<1>2. CASE Commit
  <2>1. job \in Active /\ meeting'[n] = Applied(n)
    BY <1>2, CommitForm
  <2>2. Exists(n) /\ n \notin job.gone
    BY <2>1, AppliedForm
  <2>3. /\ meeting'[n].age = meeting[n].age
        /\ meeting'[n].text = (meeting[n].text /\ n \notin job.cleared)
        /\ meeting'[n].ref = IF n \in job.cleared THEN "none" ELSE meeting[n].ref
    BY <2>1, <2>2, AppliedForm
  <2>4. CASE n \in job.cleared
    BY <1>0, <2>2, <2>3, <2>4
  <2>5. CASE n \notin job.cleared
    <3>1. meeting[n].text \in BOOLEAN
      BY DEF TypeOK
    <3>2. meeting'[n].text = meeting[n].text
      BY <2>3, <2>5, <3>1
    <3> QED
      BY <1>0, <2>2, <2>3, <2>5, <3>2
  <2> QED
    BY <2>4, <2>5
<1>3. CASE AYearPasses
  BY <1>0, <1>3, RowForms
<1>4. ASSUME NEW m \in Meetings, FinishTranscription(m)
      PROVE  Fits(meeting'[n])
  <2>1. CASE n = m
    BY <1>0, <1>4, <2>1, RowForms
  <2>2. CASE n # m
    BY <1>0, <1>4, <2>2, RowForms DEF Exists
  <2> QED
    BY <2>1, <2>2
<1>5. ASSUME NEW m \in Meetings, FinishDelete(m)
      PROVE  Fits(meeting'[n])
  BY <1>0, <1>5, RowForms DEF Exists
<1> QED
  BY <1>1, <1>2, <1>3, <1>4, <1>5, MeetingSteps
-----------------------------------------------------------------------------
(* What the run holds *)

(* Rows of one workspace that are old enough.                              *)
LEMMA OldForms ==
  ASSUME NEW ws, NEW p
  PROVE  /\ \A m \in OldTranscripts(ws, p) : m \in Meetings /\ meeting[m].text /\ meeting[m].age > p.transcript
         /\ \A m \in OldItems(ws, p) : meeting[m].age > p.item
         /\ \A m \in OldMeetings(ws, p) : /\ meeting[m].age > LongerPeriod(p) /\ WorkspaceOf[m] = ws
                                          /\ m \in Meetings /\ Exists(m)
BY DEF OldTranscripts, OldItems, OldMeetings, OfWorkspace

(* The others leave what is old as it is: rows go or get older, and a      *)
(* text is only added where there is none.                                 *)
LEMMA OlderForm ==
  ASSUME TypeOK, JobOK, RowsOK, StoredIsThere, Others, NEW n \in Meetings, Exists(n)'
  PROVE  /\ Exists(n) /\ meeting[n].age \in Int /\ meeting'[n].age \in Int
         /\ meeting'[n].age >= meeting[n].age /\ (meeting[n].text => meeting'[n].text)
         /\ meeting[n].text => Exists(n) /\ meeting'[n].ref = meeting[n].ref
<1>0. /\ ~Exists(n) => meeting[n] = Gone
      /\ meeting[n].age \in Int
  BY DEF Exists, TypeOK
<1>1. CASE meeting' = meeting
  BY <1>0, <1>1 DEF Exists
<1>2. CASE AYearPasses
  BY <1>0, <1>2, RowForms DEF Exists
<1>3. ASSUME NEW m \in Meetings, FinishTranscription(m)
      PROVE  /\ Exists(n) /\ meeting'[n].age = meeting[n].age /\ (meeting[n].text => meeting'[n].text)
             /\ meeting[n].text => meeting'[n].ref = meeting[n].ref
  <2>1. CASE n = m
    BY <1>3, <2>1, RowForms DEF RowsOK
  <2>2. CASE n # m
    BY <1>3, <2>2, RowForms DEF Exists
  <2> QED
    BY <2>1, <2>2
<1>4. ASSUME NEW m \in Meetings, FinishDelete(m)
      PROVE  /\ Exists(n) /\ meeting'[n] = meeting[n]
  BY <1>4, RowForms DEF Exists
<1>5. ASSUME NEW m \in Meetings, Beside(m)
      PROVE  meeting' = meeting \/ FinishTranscription(m) \/ FinishDelete(m)
  BY <1>5 DEF Beside, StoreTranscript, TranscriptionFails, BeginDelete, DeleteFails
<1> QED
  BY <1>0, <1>1, <1>2, <1>3, <1>4, <1>5, OthersForm

(* The run takes what is old by the policy it has read.                    *)
LEMMA TakesStep ==
  ASSUME TypeOK, JobOK, RowsOK, StoredIsThere, TakesTheOld, [Next]_vars
  PROVE  TakesTheOld'
<1>1. CASE OpenWorkspace
  <2>1. PICK ws \in Workspaces : /\ job'.policy = PolicyOf(ws)
                                 /\ job'.old = OldTranscripts(ws, PolicyOf(ws))
    BY <1>1, OpenForm
  <2>2. job'.cleared = {} /\ job'.items = {} /\ job'.gone = {} /\ meeting' = meeting
    BY <1>1, OpenForm
  <2>3. \A m \in job'.old : meeting'[m].text /\ meeting'[m].age > job'.policy.transcript
    BY <2>1, <2>2, OldForms
  <2> QED
    BY <2>2, <2>3 DEF TakesTheOld
<1>2. ASSUME NEW m \in Meetings, ClearTranscript(m) \/ TranscriptStays(m)
      PROVE  TakesTheOld'
  BY <1>2, ClearForm, StaysForm, Apart DEF TakesTheOld, Exists, Resting
<1>3. ASSUME NEW m \in Meetings, DeleteAudio(<<m, "audio">>) \/ AudioStays(<<m, "audio">>)
      PROVE  TakesTheOld'
  BY <1>3, AudioForm, Apart DEF TakesTheOld, Exists, Resting
<1>4. CASE FlushTranscripts
  BY <1>4, FlushForm, OldForms DEF TakesTheOld, Exists
<1>5. CASE ReadMeetings \/ FlushMeetings
  BY <1>5, ReadForm, FlushMeetingsForm, OldForms DEF TakesTheOld, Exists
<1>6. CASE Commit \/ ApplyAllRetentionPolicies \/ EndRun \/ WorkspaceFails \/ Crash
  BY <1>6, CommitForm, RestForm, Apart DEF TakesTheOld, Resting
<1>7. CASE Others
  <2>1. job' = job
    BY <1>7, OthersForm
  <2>2. SUFFICES ASSUME job \in Active
                 PROVE  /\ \A m \in job.old \union job.cleared :
                             Exists(m)' => meeting'[m].text /\ meeting'[m].age > job.policy.transcript
                        /\ \A m \in job.items : Exists(m)' => meeting'[m].age > job.policy.item
                        /\ \A m \in job.gone : Exists(m)' => meeting'[m].age > LongerPeriod(job.policy)
    BY <2>1 DEF TakesTheOld
  <2>3. /\ job.old \union job.cleared \subseteq Meetings
        /\ job.items \subseteq Meetings /\ job.gone \subseteq Meetings
        /\ job.policy.transcript \in Int /\ job.policy.item \in Int
        /\ LongerPeriod(job.policy) \in Int
    BY <2>2 DEF Active, Policies, LongerPeriod
  <2>4. ASSUME NEW m \in job.old \union job.cleared, Exists(m)'
        PROVE  meeting'[m].text /\ meeting'[m].age > job.policy.transcript
    BY <1>7, <2>2, <2>3, <2>4, OlderForm DEF TakesTheOld
  <2>5. ASSUME NEW m \in job.items, Exists(m)'
        PROVE  meeting'[m].age > job.policy.item
    BY <1>7, <2>2, <2>3, <2>5, OlderForm DEF TakesTheOld
  <2>6. ASSUME NEW m \in job.gone, Exists(m)'
        PROVE  meeting'[m].age > LongerPeriod(job.policy)
    BY <1>7, <2>2, <2>3, <2>6, OlderForm DEF TakesTheOld
  <2> QED
    BY <2>4, <2>5, <2>6
<1>8. CASE UNCHANGED vars
  BY <1>8 DEF TakesTheOld, Exists, vars
<1> QED
  BY <1>1, <1>2, <1>3, <1>4, <1>5, <1>6, <1>7, <1>8 DEF Next, Work

(* What goes from S3 is in what the commit will clear or delete.           *)
LEMMA DeletedStep ==
  ASSUME TypeOK, JobOK, DeletedIsTaken, [Next]_vars
  PROVE  DeletedIsTaken'
<1>1. CASE OpenWorkspace
  BY <1>1, OpenForm DEF DeletedIsTaken
<1>2. ASSUME NEW m \in Meetings, ClearTranscript(m) \/ TranscriptStays(m)
      PROVE  DeletedIsTaken'
  <2>1. \A o \in NamedTranscript(m) : o[1] = m /\ o[2] = "transcript"
    BY DEF NamedTranscript
  <2> QED
    BY <1>2, <2>1, ClearForm, StaysForm, Apart DEF DeletedIsTaken, Resting
<1>3. ASSUME NEW o, DeleteAudio(o) \/ AudioStays(o)
      PROVE  DeletedIsTaken'
  <2>1. CASE Resting
    BY <2>1, Apart DEF DeletedIsTaken, Resting
  <2>2. CASE ~Resting
    <3>1. /\ job \in Active /\ job.step = "meetings" /\ o \in job.audio /\ job' \in Active
          /\ job'.step = job.step /\ job'.cleared = job.cleared /\ job'.gone = job.gone
          /\ job'.audio = job.audio \ {o}
          /\ job'.deleted = job.deleted \union {o} \/ job'.deleted = job.deleted
      BY <1>3, <2>2, AudioForm
    <3>2. o[2] = "audio" /\ o[1] \in job.gone
      BY <3>1 DEF DeletedIsTaken
    <3> QED
      BY <3>1, <3>2 DEF DeletedIsTaken
  <2> QED
    BY <2>1, <2>2
<1>4. CASE FlushTranscripts \/ FlushMeetings
  BY <1>4, FlushForm, FlushMeetingsForm DEF DeletedIsTaken
<1>5. CASE ReadMeetings
  <2> DEFINE old == OldMeetings(job.ws, job.policy)
  <2>1. \A m \in old : \A o \in NamedAudio(m) : o[1] = m /\ o[2] = "audio"
    BY DEF NamedAudio
  <2>2. /\ job \in Active /\ job.step = "items" /\ job'.step = "meetings"
        /\ job'.cleared = job.cleared /\ job'.gone = old /\ job'.deleted = job.deleted
        /\ job'.audio = UNION {NamedAudio(m) : m \in old}
    BY <1>5, ReadForm
  <2>3. \A o \in job'.audio : o[2] = "audio" /\ o[1] \in job'.gone
    <3> HIDE DEF old
    <3> QED
      BY <2>1, <2>2
  <2>4. \A o \in job'.deleted : o[2] = "transcript" /\ o[1] \in job'.cleared
    BY <2>2 DEF DeletedIsTaken
  <2> QED
    BY <2>2, <2>3, <2>4 DEF DeletedIsTaken
<1>6. CASE Commit \/ ApplyAllRetentionPolicies \/ EndRun \/ WorkspaceFails \/ Crash
  BY <1>6, CommitForm, RestForm, Apart DEF DeletedIsTaken, Resting
<1>7. CASE Others \/ UNCHANGED vars
  BY <1>7, OthersForm DEF DeletedIsTaken, vars
<1> QED
  BY <1>1, <1>2, <1>3, <1>4, <1>5, <1>6, <1>7 DEF Next, Work

(* A transcription or a deletion leaves the other meetings as they are.    *)
Same(n) ==
  /\ meeting'[n] = meeting[n] /\ deleting'[n] = deleting[n]
  /\ n \in stored' <=> n \in stored
  /\ n \in overtaken' <=> n \in overtaken
  /\ \A kind \in Kinds : /\ <<n, kind>> \in objects' <=> <<n, kind>> \in objects
                         /\ <<n, kind>> \in orphans' <=> <<n, kind>> \in orphans
                         /\ <<n, kind>> \in undone' <=> <<n, kind>> \in undone

LEMMA BesideForm ==
  ASSUME TypeOK, NEW m \in Meetings, NEW n \in Meetings, n # m, Beside(m)
  PROVE  Same(n)
<1> USE DEF TypeOK, Same
<1>1. CASE StoreTranscript(m)
  BY <1>1 DEF StoreTranscript, history
<1>2. CASE FinishTranscription(m)
  BY <1>2 DEF FinishTranscription
<1>3. CASE TranscriptionFails(m)
  BY <1>3 DEF TranscriptionFails
<1>4. CASE BeginDelete(m)
  BY <1>4 DEF BeginDelete
<1>5. CASE FinishDelete(m)
  BY <1>5 DEF FinishDelete
<1>6. CASE DeleteFails(m)
  BY <1>6 DEF DeleteFails
<1> QED
  BY <1>1, <1>2, <1>3, <1>4, <1>5, <1>6 DEF Beside

(* What they make of the meeting itself.                                   *)
LEMMA OwnForms ==
  ASSUME TypeOK, RowsOK, StoredIsThere, NEW m \in Meetings
  PROVE  /\ StoreTranscript(m) =>
              /\ meeting[m].ref = "audio" /\ meeting' = meeting /\ deleting' = deleting
              /\ stored' = stored \union {m} /\ objects' = objects \union {<<m, "transcript">>}
              /\ orphans' = orphans /\ undone' = undone /\ overtaken' = overtaken
         /\ FinishTranscription(m) =>
              /\ m \in stored /\ <<m, "transcript">> \in objects
              /\ meeting[m].ref = "audio" /\ Exists(m)
              /\ meeting'[m] # Gone /\ meeting'[m].ref = "transcript"
              /\ meeting'[m].age = meeting[m].age
              /\ stored' = stored \ {m} /\ objects' = objects /\ deleting' = deleting
              /\ undone' = undone /\ orphans' = (orphans \ {<<m, "transcript">>}) \union {<<m, "audio">>}
              /\ InTransaction /\ job.ws = WorkspaceOf[m] => m \in overtaken'
         /\ TranscriptionFails(m) =>
              /\ meeting' = meeting /\ deleting' = deleting /\ stored' = stored \ {m} /\ objects' = objects
              /\ orphans' = orphans \union {<<m, "transcript">>} /\ undone' = undone /\ overtaken' = overtaken
         /\ BeginDelete(m) =>
              /\ Exists(m) /\ meeting' = meeting /\ stored' = stored /\ undone' = undone /\ overtaken' = overtaken
              /\ deleting'[m] = meeting[m].ref /\ meeting[m].ref # "no" /\ deleting[m] = "no"
              /\ objects' \subseteq objects /\ orphans \subseteq orphans'
              /\ <<m, meeting[m].ref>> \in objects' => <<m, meeting[m].ref>> \in orphans'
              /\ \A kind \in Kinds \ {meeting[m].ref} : <<m, kind>> \in objects' <=> <<m, kind>> \in objects
         /\ FinishDelete(m) =>
              /\ meeting'[m] = Gone /\ stored' = stored /\ objects' = objects /\ undone' = undone
              /\ overtaken' = overtaken /\ deleting[m] # "no" /\ deleting'[m] = "no"
              /\ orphans \subseteq orphans'
              /\ meeting[m].ref = "transcript" /\ deleting[m] = "audio" => <<m, "transcript">> \in orphans'
         /\ DeleteFails(m) =>
              /\ meeting' = meeting /\ stored' = stored /\ objects' = objects /\ orphans' = orphans
              /\ overtaken' = overtaken /\ deleting'[m] = "no" /\ undone \subseteq undone'
              /\ deleting[m] \in Kinds => <<m, deleting[m]>> \in undone'
<1> USE DEF TypeOK
<1>1. ASSUME StoreTranscript(m)
      PROVE  /\ meeting[m].ref = "audio" /\ meeting' = meeting /\ deleting' = deleting
             /\ stored' = stored \union {m} /\ objects' = objects \union {<<m, "transcript">>}
             /\ orphans' = orphans /\ undone' = undone /\ overtaken' = overtaken
  BY <1>1 DEF StoreTranscript, history
<1>2. ASSUME FinishTranscription(m)
      PROVE  /\ m \in stored /\ <<m, "transcript">> \in objects
             /\ meeting[m].ref = "audio" /\ Exists(m)
             /\ meeting'[m] # Gone /\ meeting'[m].ref = "transcript"
             /\ meeting'[m].age = meeting[m].age
             /\ stored' = stored \ {m} /\ objects' = objects /\ deleting' = deleting
             /\ undone' = undone /\ orphans' = (orphans \ {<<m, "transcript">>}) \union {<<m, "audio">>}
             /\ InTransaction /\ job.ws = WorkspaceOf[m] => m \in overtaken'
  <2>1. /\ m \in stored /\ stored' = stored \ {m} /\ objects' = objects /\ deleting' = deleting
        /\ undone' = undone /\ orphans' = (orphans \ {<<m, "transcript">>}) \union {<<m, "audio">>}
        /\ InTransaction /\ job.ws = WorkspaceOf[m] => m \in overtaken'
    BY <1>2 DEF FinishTranscription
  <2>2. <<m, "transcript">> \in objects
    BY <2>1 DEF StoredIsThere
  <2> QED
    BY <1>2, <2>1, <2>2, RowForms
<1>3. ASSUME TranscriptionFails(m)
      PROVE  /\ meeting' = meeting /\ deleting' = deleting /\ stored' = stored \ {m} /\ objects' = objects
             /\ orphans' = orphans \union {<<m, "transcript">>} /\ undone' = undone /\ overtaken' = overtaken
  BY <1>3 DEF TranscriptionFails
<1>4. ASSUME BeginDelete(m)
      PROVE  /\ Exists(m) /\ meeting' = meeting /\ stored' = stored /\ undone' = undone /\ overtaken' = overtaken
             /\ deleting'[m] = meeting[m].ref /\ meeting[m].ref # "no" /\ deleting[m] = "no"
             /\ objects' \subseteq objects /\ orphans \subseteq orphans'
             /\ <<m, meeting[m].ref>> \in objects' => <<m, meeting[m].ref>> \in orphans'
             /\ \A kind \in Kinds \ {meeting[m].ref} : <<m, kind>> \in objects' <=> <<m, kind>> \in objects
  <2>1. meeting[m].ref # "no"
    <3>1. meeting[m].ref \in {"none", "audio", "transcript"}
      OBVIOUS
    <3> QED
      BY <3>1
  <2> QED
    BY <1>4, <2>1 DEF BeginDelete
<1>5. ASSUME FinishDelete(m)
      PROVE  /\ meeting'[m] = Gone /\ stored' = stored /\ objects' = objects /\ undone' = undone
             /\ overtaken' = overtaken /\ deleting[m] # "no" /\ deleting'[m] = "no"
             /\ orphans \subseteq orphans'
             /\ meeting[m].ref = "transcript" /\ deleting[m] = "audio" => <<m, "transcript">> \in orphans'
  BY <1>5 DEF FinishDelete
<1>6. ASSUME DeleteFails(m)
      PROVE  /\ meeting' = meeting /\ stored' = stored /\ objects' = objects /\ orphans' = orphans
             /\ overtaken' = overtaken /\ deleting'[m] = "no" /\ undone \subseteq undone'
             /\ deleting[m] \in Kinds => <<m, deleting[m]>> \in undone'
  BY <1>6 DEF DeleteFails
<1> QED
  BY <1>1, <1>2, <1>3, <1>4, <1>5, <1>6

(* A year leaves everything but the ages, and passes between two runs.     *)
LEMMA YearForm ==
  ASSUME AYearPasses
  PROVE  /\ Aside /\ overtaken' = overtaken /\ objects' = objects /\ orphans' = orphans /\ undone' = undone
         /\ job = Idle /\ job' = Idle
BY DEF AYearPasses, Aside, others, history

(* What a row names, while it stays or only gets older.                    *)
LEMMA NamesForms ==
  ASSUME NEW m \in Meetings, NEW kind
  PROVE  /\ meeting'[m] = meeting[m] => (Names(m, kind)' <=> Names(m, kind))
         /\ meeting'[m] = Gone => ~Names(m, kind)'
         /\ meeting'[m] # Gone => (Names(m, kind)' <=> meeting'[m].ref = kind)
         /\ Names(m, kind) => Exists(m) /\ meeting[m].ref = kind
BY DEF Names, Exists

(* A cleared transcript does not come back to S3.                          *)
LEMMA ClearedStep ==
  ASSUME TypeOK, JobOK, RowsOK, StoredIsThere, TakesTheOld, ClearedIsOff, [Next]_vars
  PROVE  ClearedIsOff'
<1>1. CASE OpenWorkspace
  BY <1>1, OpenForm DEF ClearedIsOff
<1>2. ASSUME NEW m \in Meetings, ClearTranscript(m) \/ TranscriptStays(m)
      PROVE  ClearedIsOff'
  <2>1. NamedTranscript(m) = IF meeting[m].ref = "transcript" THEN {<<m, "transcript">>} ELSE {}
    BY DEF NamedTranscript
  <2>2. CASE ClearTranscript(m)
    BY <2>1, <2>2, ClearForm DEF ClearedIsOff, Names, Exists
  <2>3. CASE TranscriptStays(m)
    BY <2>1, <2>3, StaysForm, Apart DEF ClearedIsOff, Names, Exists, Resting
  <2> QED
    BY <1>2, <2>2, <2>3
<1>3. ASSUME NEW o, DeleteAudio(o) \/ AudioStays(o)
      PROVE  ClearedIsOff'
  BY <1>3, AudioForm, Apart DEF ClearedIsOff, Names, Exists, Resting
<1>4. CASE FlushTranscripts \/ ReadMeetings \/ FlushMeetings
  BY <1>4, FlushForm, ReadForm, FlushMeetingsForm DEF ClearedIsOff, Names, Exists
<1>5. CASE Commit \/ ApplyAllRetentionPolicies \/ EndRun \/ WorkspaceFails \/ Crash
  BY <1>5, CommitForm, RestForm, Apart DEF ClearedIsOff, Resting
<1>6. CASE Others
  <2>0. job' = job
    BY <1>6, OthersForm
  <2> SUFFICES ASSUME job \in Active, NEW n \in job.cleared,
                      Names(n, "transcript")', <<n, "transcript">> \in objects'
               PROVE  <<n, "transcript">> \in orphans'
    BY <2>0 DEF ClearedIsOff
  <2>1. n \in Meetings
    BY DEF Active
  <2>2. Names(n, "transcript") /\ <<n, "transcript">> \in objects => <<n, "transcript">> \in orphans
    BY DEF ClearedIsOff
  <2>3. CASE meeting' = meeting /\ objects' = objects /\ orphans' = orphans
    BY <2>2, <2>3 DEF Names, Exists
  <2>4. CASE AYearPasses
    BY <2>4, YearForm, Apart
  <2>5. ASSUME NEW m \in Meetings, Beside(m)
        PROVE  <<n, "transcript">> \in orphans'
    <3>1. CASE n # m
      <4>1. Same(n) /\ "transcript" \in Kinds
        BY <2>1, <2>5, <3>1, BesideForm DEF Kinds
      <4> QED
        BY <2>1, <2>2, <4>1, NamesForms DEF Same
    <3>2. CASE n = m
      <4>1. ~FinishTranscription(m) /\ ~FinishDelete(m)
        <5>1. Exists(m) => meeting[m].text
          BY <3>2 DEF TakesTheOld
        <5>2. ~FinishTranscription(m)
          BY <5>1, RowForms DEF RowsOK
        <5>3. ~FinishDelete(m)
          BY <3>2, RowForms, NamesForms
        <5> QED
          BY <5>2, <5>3
      <4>2. CASE StoreTranscript(m)
        BY <2>1, <3>2, <4>2, OwnForms, NamesForms
      <4>3. CASE TranscriptionFails(m) \/ DeleteFails(m) \/ BeginDelete(m)
        BY <2>1, <2>2, <3>2, <4>3, OwnForms, NamesForms
      <4> QED
        BY <2>5, <4>1, <4>2, <4>3 DEF Beside
    <3> QED
      BY <3>1, <3>2
  <2> QED
    BY <1>6, <2>3, <2>4, <2>5, OthersForm
<1>7. CASE UNCHANGED vars
  BY <1>7 DEF ClearedIsOff, Names, Exists, vars
<1> QED
  BY <1>1, <1>2, <1>3, <1>4, <1>5, <1>6, <1>7 DEF Next, Work
(* The old transcripts of the open workspace are known to the run, or have *)
(* overtaken it.                                                           *)
LEMMA SeesTranscriptsStep ==
  ASSUME TypeOK, JobOK, RowsOK, StoredIsThere, SeesTranscripts, [Next]_vars
  PROVE  SeesTranscripts'
<1>1. CASE OpenWorkspace
  <2>1. PICK ws \in Workspaces : /\ job'.ws = ws /\ job'.policy = PolicyOf(ws)
                                 /\ job'.old = OldTranscripts(ws, PolicyOf(ws))
    BY <1>1, OpenForm
  <2>2. job'.step = "transcripts" /\ job'.gone = {} /\ meeting' = meeting
    BY <1>1, OpenForm
  <2>3. ASSUME NEW m \in Meetings, Names(m, "transcript"), WorkspaceOf[m] = ws,
               meeting[m].age > PolicyOf(ws).transcript
        PROVE  m \in OldTranscripts(ws, PolicyOf(ws))
    BY <2>3 DEF Names, RowsOK, OldTranscripts, OfWorkspace
  <2> QED
    BY <2>1, <2>2, <2>3, NamesForms DEF SeesTranscripts
<1>2. ASSUME NEW m \in Meetings, ClearTranscript(m) \/ TranscriptStays(m)
      PROVE  SeesTranscripts'
  <2>1. CASE Resting
    BY <2>1, Apart DEF SeesTranscripts, Resting
  <2>2. CASE ~Resting
    <3>1. /\ job \in Active /\ job'.step = job.step /\ job'.ws = job.ws /\ job'.gone = job.gone
          /\ job'.policy = job.policy /\ job'.old = job.old \ {m} /\ job'.cleared = job.cleared \union {m}
          /\ job.step = "transcripts" /\ meeting' = meeting /\ overtaken' = overtaken
      BY <1>2, <2>2, ClearForm, StaysForm
    <3> QED
      BY <3>1, NamesForms DEF SeesTranscripts
  <2> QED
    BY <2>1, <2>2
<1>3. ASSUME NEW o, DeleteAudio(o) \/ AudioStays(o)
      PROVE  SeesTranscripts'
  <2>1. CASE Resting
    BY <2>1, Apart DEF SeesTranscripts, Resting
  <2>2. CASE ~Resting
    <3>1. /\ job \in Active /\ job'.step = job.step /\ job'.ws = job.ws /\ job'.gone = job.gone
          /\ job'.policy = job.policy /\ job'.old = job.old /\ job'.cleared = job.cleared
          /\ meeting' = meeting /\ overtaken' = overtaken
      BY <1>3, <2>2, AudioForm
    <3> QED
      BY <3>1, NamesForms DEF SeesTranscripts
  <2> QED
    BY <2>1, <2>2
<1>4. CASE FlushTranscripts \/ FlushMeetings
  <2>1. /\ job \in Active /\ job'.ws = job.ws /\ job'.gone = job.gone
        /\ job'.policy = job.policy /\ job'.old = job.old /\ job'.cleared = job.cleared
        /\ meeting' = meeting /\ overtaken' = overtaken
    BY <1>4, FlushForm, FlushMeetingsForm
  <2>2. job.old = {}
    BY <1>4, FlushForm, FlushMeetingsForm DEF SeesTranscripts
  <2> QED
    BY <2>1, <2>2, NamesForms DEF SeesTranscripts
<1>5. CASE ReadMeetings
  <2>1. /\ job \in Active /\ job'.ws = job.ws /\ job'.gone = OldMeetings(job.ws, job.policy)
        /\ job'.policy = job.policy /\ job'.old = job.old /\ job'.cleared = job.cleared
        /\ job.step = "items" /\ meeting' = meeting /\ overtaken' = overtaken
    BY <1>5, ReadForm
  <2>2. \A m \in OldMeetings(job.ws, job.policy) : WorkspaceOf[m] = job.ws
    BY OldForms
  <2> QED
    BY <2>1, <2>2, NamesForms DEF SeesTranscripts
<1>6. CASE Commit \/ ApplyAllRetentionPolicies \/ EndRun \/ WorkspaceFails \/ Crash
  BY <1>6, CommitForm, RestForm, Apart DEF SeesTranscripts, Resting
<1>7. CASE Others
  <2>0. job' = job
    BY <1>7, OthersForm
  <2>1. CASE meeting' = meeting /\ overtaken' = overtaken
    BY <2>0, <2>1, NamesForms DEF SeesTranscripts
  <2>2. CASE AYearPasses
    BY <2>2, YearForm, Apart DEF SeesTranscripts
  <2>3. ASSUME NEW m \in Meetings, Beside(m)
        PROVE  SeesTranscripts'
    <3> SUFFICES ASSUME job \in Active, NEW n \in Meetings, Names(n, "transcript")',
                        WorkspaceOf[n] = job.ws, meeting'[n].age > job.policy.transcript
                 PROVE  n \in job.old \union job.cleared \union overtaken'
      BY <2>0 DEF SeesTranscripts
    <3>0. /\ Names(n, "transcript") /\ meeting[n].age > job.policy.transcript =>
               n \in job.old \union job.cleared \union overtaken
          /\ InTransaction
      BY DEF SeesTranscripts, Active, InTransaction
    <3>1. CASE n # m
      BY <2>3, <3>0, <3>1, BesideForm, NamesForms DEF Same
    <3>2. CASE n = m /\ FinishTranscription(m)
      BY <3>0, <3>2, OwnForms
    <3>3. CASE n = m /\ FinishDelete(m)
      BY <3>3, OwnForms, NamesForms
    <3>4. CASE n = m /\ (StoreTranscript(m) \/ TranscriptionFails(m) \/ BeginDelete(m) \/ DeleteFails(m))
      <4>1. meeting' = meeting /\ overtaken' = overtaken
        BY <3>4, OwnForms
      <4> QED
        BY <3>0, <4>1, NamesForms
    <3> QED
      BY <2>3, <3>1, <3>2, <3>3, <3>4 DEF Beside
  <2> QED
    BY <1>7, <2>1, <2>2, <2>3, OthersForm
<1>8. CASE UNCHANGED vars
  BY <1>8 DEF SeesTranscripts, Names, Exists, vars
<1> QED
  BY <1>1, <1>2, <1>3, <1>4, <1>5, <1>6, <1>7, <1>8 DEF Next, Work

(* The recordings of the meetings that go are on the list, off S3 or left  *)
(* by S3.                                                                  *)
LEMMA SeesRecordingsStep ==
  ASSUME TypeOK, JobOK, RowsOK, StoredIsThere, TakesTheOld, SeesRecordings, DeletedIsTaken, [Next]_vars
  PROVE  SeesRecordings'
<1>1. CASE OpenWorkspace
  BY <1>1, OpenForm DEF SeesRecordings
<1>2. ASSUME NEW m \in Meetings, ClearTranscript(m) \/ TranscriptStays(m)
      PROVE  SeesRecordings'
  <2>1. CASE Resting
    BY <2>1, Apart DEF SeesRecordings, Resting
  <2>2. CASE ~Resting
    <3>1. job \in Active /\ job'.gone = job.gone /\ job.step = "transcripts"
      BY <1>2, <2>2, ClearForm, StaysForm
    <3>2. job'.gone = {}
      BY <3>1 DEF DeletedIsTaken
    <3> QED
      BY <3>2 DEF SeesRecordings
  <2> QED
    BY <2>1, <2>2
<1>3. ASSUME NEW o, DeleteAudio(o) \/ AudioStays(o)
      PROVE  SeesRecordings'
  <2>1. CASE Resting
    BY <2>1, Apart DEF SeesRecordings, Resting
  <2>2. CASE ~Resting
    <3>1. /\ job \in Active /\ job'.gone = job.gone /\ job'.audio = job.audio \ {o} /\ meeting' = meeting
          /\ job.gone \subseteq Meetings
          /\ \/ objects' = objects \ {o} /\ orphans' = orphans
             \/ objects' = objects /\ orphans' = orphans \union {o}
      BY <1>3, <2>2, AudioForm DEF Active
    <3> QED
      BY <3>1, NamesForms DEF SeesRecordings
  <2> QED
    BY <2>1, <2>2
<1>4. CASE FlushTranscripts
  <2>1. job \in Active /\ job'.gone = job.gone /\ job.step = "transcripts"
    BY <1>4, FlushForm
  <2>2. job'.gone = {}
    BY <2>1 DEF DeletedIsTaken
  <2> QED
    BY <2>2 DEF SeesRecordings
<1>5. CASE FlushMeetings
  <2>1. /\ job \in Active /\ job'.gone = job.gone /\ job'.audio = job.audio /\ meeting' = meeting
        /\ job.gone \subseteq Meetings /\ objects' = objects /\ orphans' = orphans
    BY <1>5, FlushMeetingsForm DEF Active
  <2> QED
    BY <2>1, NamesForms DEF SeesRecordings
<1>6. CASE ReadMeetings
  <2> DEFINE old == OldMeetings(job.ws, job.policy)
  <2>1. /\ job \in Active /\ job'.gone = old /\ job'.audio = UNION {NamedAudio(m) : m \in old}
        /\ meeting' = meeting
    BY <1>6, ReadForm
  <2>2. ASSUME NEW m \in old, Names(m, "audio")
        PROVE  <<m, "audio">> \in NamedAudio(m)
    <3>1. m \in Meetings /\ Exists(m) /\ meeting[m].ref = "audio"
      BY <2>2, OldForms DEF Names
    <3>2. ~meeting[m].text
      BY <3>1 DEF RowsOK
    <3>3. m \notin job.cleared
      BY <2>1, <3>1, <3>2 DEF TakesTheOld
    <3> QED
      BY <3>1, <3>3 DEF NamedAudio
  <2>3. old \subseteq Meetings
    BY OldForms
  <2> HIDE DEF old
  <2>4. ASSUME NEW m \in old, Names(m, "audio")
        PROVE  <<m, "audio">> \in job'.audio
    BY <2>1, <2>2, <2>4
  <2> QED
    BY <2>1, <2>3, <2>4, NamesForms DEF SeesRecordings
<1>7. CASE Commit \/ ApplyAllRetentionPolicies \/ EndRun \/ WorkspaceFails \/ Crash
  BY <1>7, CommitForm, RestForm, Apart DEF SeesRecordings, Resting
<1>8. CASE Others
  <2>0. job' = job
    BY <1>8, OthersForm
  <2> SUFFICES ASSUME job \in Active, NEW n \in job.gone, Names(n, "audio")', <<n, "audio">> \in objects'
               PROVE  <<n, "audio">> \in job.audio \union orphans'
    BY <2>0 DEF SeesRecordings
  <2>1. n \in Meetings /\ "audio" \in Kinds
    BY DEF Active, Kinds
  <2>2. Names(n, "audio") /\ <<n, "audio">> \in objects => <<n, "audio">> \in job.audio \union orphans
    BY DEF SeesRecordings
  <2>3. CASE meeting' = meeting /\ objects' = objects /\ orphans' = orphans
    BY <2>1, <2>2, <2>3, NamesForms
  <2>4. CASE AYearPasses
    BY <2>4, YearForm, Apart
  <2>5. ASSUME NEW m \in Meetings, Beside(m)
        PROVE  <<n, "audio">> \in job.audio \union orphans'
    <3>1. CASE n # m
      BY <2>1, <2>2, <2>5, <3>1, BesideForm, NamesForms DEF Same
    <3>2. CASE n = m
      <4>1. ~FinishTranscription(m) /\ ~FinishDelete(m)
        BY <2>1, <3>2, OwnForms, NamesForms
      <4>2. CASE StoreTranscript(m) \/ TranscriptionFails(m) \/ DeleteFails(m) \/ BeginDelete(m)
        <5>1. /\ meeting' = meeting /\ orphans \subseteq orphans'
              /\ objects' \subseteq objects \union {<<m, "transcript">>}
          BY <2>1, <3>2, <4>2, OwnForms
        <5>2. <<m, "audio">> \in objects' => <<m, "audio">> \in objects
          BY <5>1
        <5> QED
          BY <2>1, <2>2, <3>2, <5>1, <5>2, NamesForms
      <4> QED
        BY <2>5, <4>1, <4>2 DEF Beside
    <3> QED
      BY <3>1, <3>2
  <2> QED
    BY <1>8, <2>3, <2>4, <2>5, OthersForm
<1>9. CASE UNCHANGED vars
  BY <1>9 DEF SeesRecordings, Names, Exists, vars
<1> QED
  BY <1>1, <1>2, <1>3, <1>4, <1>5, <1>6, <1>7, <1>8, <1>9 DEF Next, Work
-----------------------------------------------------------------------------
(* Beside the run *)

(* What the run takes off S3: transcripts that rows name, and recordings.  *)
LEMMA RunDeletes ==
  ASSUME TypeOK, JobOK, DeletedIsTaken, Work \/ Crash \/ ApplyAllRetentionPolicies
  PROVE  /\ Aside /\ objects' \subseteq objects /\ orphans \subseteq orphans'
         /\ \A m \in Meetings : <<m, "transcript">> \in objects \ objects' => meeting[m].ref = "transcript"
         /\ Commit \/ meeting' = meeting
<1> DEFINE Goal == /\ Aside /\ objects' \subseteq objects /\ orphans \subseteq orphans'
                   /\ \A m \in Meetings : <<m, "transcript">> \in objects \ objects' => meeting[m].ref = "transcript"
                   /\ Commit \/ meeting' = meeting
<1>1. CASE OpenWorkspace \/ FlushTranscripts \/ ReadMeetings \/ FlushMeetings \/ Commit
  BY <1>1, OpenForm, FlushForm, ReadForm, FlushMeetingsForm, CommitForm
<1>2. CASE ApplyAllRetentionPolicies \/ EndRun \/ WorkspaceFails \/ Crash
  BY <1>2, RestForm
<1>3. ASSUME NEW m \in Meetings, ClearTranscript(m) \/ TranscriptStays(m)
      PROVE  Goal
  <2>1. \A n \in Meetings : <<n, "transcript">> \in NamedTranscript(m) => meeting[n].ref = "transcript"
    BY DEF NamedTranscript
  <2> QED
    BY <1>3, <2>1, ClearForm, StaysForm
<1>4. ASSUME NEW m \in Meetings, DeleteAudio(<<m, "audio">>) \/ AudioStays(<<m, "audio">>)
      PROVE  Goal
  BY <1>4, AudioForm
<1> QED
  BY <1>1, <1>2, <1>3, <1>4 DEF Work

(* A commit of the run gives no row a name it did not have.                *)
LEMMA CommitNames ==
  ASSUME TypeOK, JobOK, RowsOK, Commit, NEW n \in Meetings, NEW kind \in Kinds, Names(n, kind)'
  PROVE  Names(n, kind) /\ n \notin job.gone /\ n \notin job.cleared /\ meeting'[n].ref = meeting[n].ref
<1>1. job \in Active /\ meeting'[n] = Applied(n)
  BY CommitForm
<1>2. Exists(n) /\ n \notin job.gone /\ meeting'[n].ref = kind
  BY <1>1, AppliedForm, NamesForms
<1>3. meeting'[n].ref = IF n \in job.cleared THEN "none" ELSE meeting[n].ref
  BY <1>1, <1>2, AppliedForm
<1>4. kind # "none"
  BY DEF Kinds
<1> QED
  BY <1>2, <1>3, <1>4 DEF Names

(* A transcript that is yet to be committed stays in S3.                   *)
LEMMA StoredStep ==
  ASSUME TypeOK, JobOK, RowsOK, TakesTheOld, DeletedIsTaken, StoredIsThere, [Next]_vars
  PROVE  StoredIsThere'
<1> DEFINE Fine(n) == (meeting'[n] # Gone => meeting'[n].ref = "audio") /\ <<n, "transcript">> \in objects'
<1> SUFFICES ASSUME NEW n \in stored' PROVE Fine(n)
  BY DEF StoredIsThere, Exists
<1>0. n \in stored => /\ n \in Meetings /\ (Exists(n) => meeting[n].ref = "audio")
                      /\ <<n, "transcript">> \in objects
  BY DEF StoredIsThere, TypeOK
<1>1. CASE Work \/ Crash \/ ApplyAllRetentionPolicies
  <2>1. n \in stored /\ objects' \subseteq objects /\ (Commit \/ meeting' = meeting)
    BY <1>1, RunDeletes DEF Aside
  <2>2. <<n, "transcript">> \in objects \ objects' => meeting[n].ref = "transcript"
    BY <1>0, <1>1, <2>1, RunDeletes
  <2>3. meeting[n].ref # "transcript"
    BY <1>0, <2>1 DEF Exists, Gone
  <2>4. CASE meeting' = meeting
    BY <1>0, <2>1, <2>2, <2>3, <2>4 DEF Exists
  <2>5. CASE Commit
    <3>1. ASSUME meeting'[n] # Gone PROVE meeting'[n].ref = "audio"
      <4>1. job \in Active /\ meeting'[n] = Applied(n)
        BY <1>0, <2>1, <2>5, CommitForm
      <4>2. Exists(n) /\ n \notin job.gone
        BY <1>0, <2>1, <3>1, <4>1, AppliedForm
      <4>3. n \notin job.cleared
        BY <1>0, <2>1, <4>1, <4>2 DEF TakesTheOld, RowsOK
      <4> QED
        BY <1>0, <2>1, <4>1, <4>2, <4>3, AppliedForm
    <3> QED
      BY <1>0, <2>1, <2>2, <2>3, <3>1
  <2> QED
    BY <2>1, <2>4, <2>5
<1>2. CASE AYearPasses
  <2>1. n \in stored /\ objects' = objects
    BY <1>2, YearForm DEF Aside
  <2> QED
    BY <1>0, <1>2, <2>1, RowForms
<1>3. CASE meeting' = meeting /\ objects' = objects /\ Aside
  BY <1>0, <1>3 DEF Aside, Exists
<1>4. ASSUME NEW m \in Meetings, Beside(m)
      PROVE  Fine(n)
  <2>0. n \in Meetings
    BY <1>0, <1>4, OwnForms DEF Beside, BeginDelete, FinishDelete, DeleteFails
  <2>1. CASE n # m
    <3>1. Same(n) /\ "transcript" \in Kinds
      BY <1>4, <2>0, <2>1, BesideForm DEF Kinds
    <3> QED
      BY <1>0, <3>1 DEF Same, Exists
  <2>2. CASE n = m /\ StoreTranscript(m)
    BY <2>2, OwnForms
  <2>3. CASE n = m /\ (FinishTranscription(m) \/ TranscriptionFails(m))
    BY <2>3, OwnForms
  <2>4. CASE n = m /\ BeginDelete(m)
    <3>1. n \in stored /\ meeting' = meeting /\ Exists(m)
      BY <2>4, OwnForms
    <3>2. meeting[m].ref = "audio" /\ "transcript" \in Kinds
      BY <1>0, <2>4, <3>1 DEF Kinds
    <3> QED
      BY <1>0, <2>4, <3>1, <3>2, OwnForms DEF Exists
  <2>5. CASE n = m /\ (FinishDelete(m) \/ DeleteFails(m))
    BY <1>0, <2>5, OwnForms DEF Exists
  <2> QED
    BY <1>4, <2>1, <2>2, <2>3, <2>4, <2>5 DEF Beside
<1>5. CASE UNCHANGED vars
  BY <1>0, <1>5 DEF vars, Exists
<1> QED
  BY <1>1, <1>2, <1>3, <1>4, <1>5, OthersForm DEF Next

(* What a DELETE has taken off S3 comes back only as a transcript.         *)
LEMMA DeletingStep ==
  ASSUME TypeOK, JobOK, RowsOK, TakesTheOld, DeletedIsTaken, StoredIsThere, DeletingIsOff, [Next]_vars
  PROVE  DeletingIsOff'
<1> DEFINE Kept(n, kind) == <<n, kind>> \in orphans' \/ (kind = "transcript" /\ deleting'[n] = "audio")
<1> SUFFICES ASSUME NEW n \in Meetings, deleting'[n] # "no"
             PROVE  /\ Names(n, "audio")' => deleting'[n] = "audio"
                    /\ \A kind \in Kinds : Names(n, kind)' /\ <<n, kind>> \in objects' => Kept(n, kind)
  BY DEF DeletingIsOff
<1> DEFINE Goal == /\ Names(n, "audio")' => deleting'[n] = "audio"
                   /\ \A kind \in Kinds : Names(n, kind)' /\ <<n, kind>> \in objects' => Kept(n, kind)
<1>0. deleting[n] # "no" =>
        /\ Names(n, "audio") => deleting[n] = "audio"
        /\ \A kind \in Kinds : Names(n, kind) /\ <<n, kind>> \in objects =>
             <<n, kind>> \in orphans \/ (kind = "transcript" /\ deleting[n] = "audio")
  BY DEF DeletingIsOff
<1>1. CASE Work \/ Crash \/ ApplyAllRetentionPolicies
  <2>1. deleting' = deleting /\ objects' \subseteq objects /\ orphans \subseteq orphans'
    BY <1>1, RunDeletes DEF Aside
  <2>2. \A kind \in Kinds : Names(n, kind)' => Names(n, kind)
    BY <1>1, RunDeletes, CommitNames, NamesForms
  <2>3. "audio" \in Kinds
    BY DEF Kinds
  <2> QED
    BY <1>0, <2>1, <2>2, <2>3
<1>2. CASE AYearPasses
  <2>1. \A kind \in Kinds : Names(n, kind)' <=> Names(n, kind)
    BY <1>2, RowForms, NamesForms DEF Names
  <2>2. deleting' = deleting /\ objects' = objects /\ orphans' = orphans /\ "audio" \in Kinds
    BY <1>2, YearForm DEF Aside, Kinds
  <2> QED
    BY <1>0, <2>1, <2>2
<1>3. CASE meeting' = meeting /\ objects' = objects /\ orphans' = orphans /\ Aside
  BY <1>0, <1>3, NamesForms DEF Aside
<1>4. ASSUME NEW m \in Meetings, Beside(m)
      PROVE  Goal
  <2>0. "audio" \in Kinds /\ "transcript" \in Kinds /\ Kinds = {"audio", "transcript"}
    BY DEF Kinds
  <2>1. CASE n # m
    <3>1. Same(n)
      BY <1>4, <2>1, BesideForm
    <3> QED
      BY <1>0, <2>0, <3>1, NamesForms DEF Same
  <2>2. CASE n = m /\ StoreTranscript(m)
    <3>1. /\ meeting' = meeting /\ deleting' = deleting /\ orphans' = orphans /\ meeting[m].ref = "audio"
          /\ objects' = objects \union {<<m, "transcript">>}
      BY <2>2, OwnForms
    <3>2. <<m, "audio">> \in objects' => <<m, "audio">> \in objects
      BY <3>1
    <3> QED
      BY <1>0, <2>0, <2>2, <3>1, <3>2, NamesForms
  <2>3. CASE n = m /\ FinishTranscription(m)
    <3>1. /\ deleting' = deleting /\ Exists(m) /\ meeting[m].ref = "audio"
          /\ meeting'[m] # Gone /\ meeting'[m].ref = "transcript"
      BY <2>3, OwnForms
    <3>2. deleting[n] = "audio"
      BY <1>0, <2>3, <3>1 DEF Names
    <3> QED
      BY <2>0, <2>3, <3>1, <3>2, NamesForms
  <2>4. CASE n = m /\ TranscriptionFails(m)
    <3>1. meeting' = meeting /\ deleting' = deleting /\ orphans \subseteq orphans' /\ objects' = objects
      BY <2>4, OwnForms
    <3> QED
      BY <1>0, <2>0, <2>4, <3>1, NamesForms
  <2>5. CASE n = m /\ BeginDelete(m)
    <3>1. /\ meeting' = meeting /\ deleting'[m] = meeting[m].ref
          /\ <<m, meeting[m].ref>> \in objects' => <<m, meeting[m].ref>> \in orphans'
      BY <2>5, OwnForms
    <3> QED
      BY <2>0, <2>5, <3>1, NamesForms
  <2>6. CASE n = m /\ (FinishDelete(m) \/ DeleteFails(m))
    BY <2>6, OwnForms
  <2> QED
    BY <1>4, <2>1, <2>2, <2>3, <2>4, <2>5, <2>6 DEF Beside
<1>5. CASE UNCHANGED vars
  BY <1>0, <1>5, NamesForms DEF vars
<1> QED
  BY <1>1, <1>2, <1>3, <1>4, <1>5, OthersForm DEF Next
-----------------------------------------------------------------------------
(* The objects of S3 and the names in the rows *)

(* What was deleted by a transaction that is not over or was rolled back.  *)
Pending == undone \union (IF job \in Active THEN job.deleted ELSE {})
Agree(m, kind) ==
  /\ <<m, kind>> \in objects /\ ~Names(m, kind) =>
       <<m, kind>> \in orphans \/ (kind = "transcript" /\ m \in stored)
  /\ Names(m, kind) /\ <<m, kind>> \notin objects => <<m, kind>> \in Pending \/ deleting[m] = kind

(* The agreement, object by object.                                        *)
LEMMA AgreeForm ==
  ASSUME JobOK
  PROVE  RefsAndObjectsAgree <=> \A m \in Meetings, kind \in Kinds : Agree(m, kind)
<1>1. InTransaction <=> job \in Active
  BY Apart, StepIsActive DEF Active, InTransaction
<1> QED
  BY <1>1 DEF RefsAndObjectsAgree, Agree, Pending

(* What goes from S3 in a step that leaves the rows alone is pending.      *)
LEMMA StillAgree ==
  ASSUME NEW m \in Meetings, NEW kind \in Kinds, Agree(m, kind), meeting' = meeting, Aside,
         objects' \subseteq objects, orphans \subseteq orphans', Pending \subseteq Pending',
         objects \ objects' \subseteq Pending'
  PROVE  Agree(m, kind)'
BY NamesForms DEF Agree, Aside

(* The steps of the run but the commit.                                    *)
LEMMA RunAgrees ==
  ASSUME TypeOK, JobOK, NEW n \in Meetings, NEW kind \in Kinds, Agree(n, kind),
         \/ OpenWorkspace \/ FlushTranscripts \/ ReadMeetings \/ FlushMeetings
         \/ ApplyAllRetentionPolicies \/ EndRun \/ WorkspaceFails \/ Crash
         \/ \E m \in Meetings : ClearTranscript(m) \/ TranscriptStays(m)
         \/ \E m \in Meetings : DeleteAudio(<<m, "audio">>) \/ AudioStays(<<m, "audio">>)
  PROVE  Agree(n, kind)'
<1>0. Resting => job' \notin Active
  BY Apart DEF Resting
<1>1. CASE OpenWorkspace
  BY <1>1, OpenForm, StillAgree DEF Pending
<1>2. CASE FlushTranscripts \/ FlushMeetings
  BY <1>2, FlushForm, FlushMeetingsForm, StillAgree DEF Pending
<1>3. CASE ReadMeetings
  BY <1>3, ReadForm, StillAgree DEF Pending
<1>4. CASE ApplyAllRetentionPolicies \/ EndRun \/ WorkspaceFails \/ Crash
  BY <1>0, <1>4, RestForm, StillAgree DEF Pending
<1>5. ASSUME NEW m \in Meetings, ClearTranscript(m)
      PROVE  Agree(n, kind)'
  BY <1>5, ClearForm, StillAgree DEF Pending
<1>6. ASSUME NEW m \in Meetings, TranscriptStays(m)
      PROVE  Agree(n, kind)'
  BY <1>0, <1>6, StaysForm, StillAgree DEF Pending
<1>7. ASSUME NEW o, DeleteAudio(o) \/ AudioStays(o)
      PROVE  Agree(n, kind)'
  <2>1. CASE Resting
    <3>1. job \in Active /\ meeting' = meeting /\ Aside /\ objects' \subseteq objects /\ orphans \subseteq orphans'
      BY <1>7, AudioForm
    <3>2. undone' = undone \union job.deleted /\ objects' = objects
      BY <1>0, <1>7, <2>1, AudioForm
    <3> QED
      BY <1>0, <2>1, <3>1, <3>2, StillAgree DEF Pending
  <2>2. CASE ~Resting
    BY <1>7, <2>2, AudioForm, StillAgree DEF Pending
  <2> QED
    BY <2>1, <2>2
<1> QED
  BY <1>1, <1>2, <1>3, <1>4, <1>5, <1>6, <1>7

(* The commit: an object that it leaves in S3 without a name is one that   *)
(* S3 refused to delete, or of a transcription beside the run; a name that *)
(* it leaves is not of what the run has deleted.                           *)
LEMMA CommitAgrees ==
  ASSUME TypeOK, JobOK, RowsOK, TakesTheOld, DeletedIsTaken, ClearedIsOff, SeesTranscripts,
         SeesRecordings, Commit, NEW n \in Meetings, NEW kind \in Kinds, Agree(n, kind)
  PROVE  Agree(n, kind)'
<1>0. /\ job \in Active /\ job.step = "flushed" /\ Resting /\ meeting'[n] = Applied(n)
      /\ orphans' = orphans \union {<<m, "transcript">> : m \in job.gone \intersect overtaken}
      /\ objects' = objects /\ undone' = undone /\ Aside
  BY CommitForm
<1>1. Pending' = undone /\ Pending = undone \union job.deleted
  BY <1>0, Apart DEF Resting, Pending
<1>2. CASE ~Exists(n)
  BY <1>0, <1>2, AppliedForm, NamesForms DEF Agree, Names, Aside
<1>3. CASE Exists(n) /\ n \in job.gone
  <2>1. ~Names(n, kind)'
    BY <1>0, <1>3, AppliedForm, NamesForms
  <2>2. ASSUME <<n, kind>> \in objects, ~Names(n, kind)
        PROVE  <<n, kind>> \in orphans' \/ (kind = "transcript" /\ n \in stored')
    BY <1>0, <2>2 DEF Agree, Aside
  <2>3. ASSUME <<n, kind>> \in objects, Names(n, kind), kind = "audio"
        PROVE  <<n, kind>> \in orphans'
    <3>1. job.audio = {}
      BY <1>0 DEF DeletedIsTaken
    <3> QED
      BY <1>0, <1>3, <2>3, <3>1 DEF SeesRecordings
  <2>4. ASSUME <<n, kind>> \in objects, Names(n, kind), kind = "transcript"
        PROVE  <<n, kind>> \in orphans'
    <3>1. job.old = {} /\ WorkspaceOf[n] = job.ws
      BY <1>0, <1>3 DEF SeesTranscripts
    <3>2. meeting[n].age > job.policy.transcript
      <4>1. /\ job.policy.transcript \in Int /\ job.policy.item \in Int /\ meeting[n].age \in Int
            /\ meeting[n].age > LongerPeriod(job.policy)
        BY <1>0, <1>3 DEF Active, Policies, TypeOK, TakesTheOld
      <4> QED
        BY <4>1 DEF LongerPeriod
    <3>3. n \in job.cleared \/ n \in overtaken
      BY <1>0, <2>4, <3>1, <3>2 DEF SeesTranscripts
    <3>4. CASE n \in job.cleared
      BY <1>0, <2>4, <3>4 DEF ClearedIsOff
    <3>5. CASE n \in overtaken
      BY <1>0, <1>3, <2>4, <3>5
    <3> QED
      BY <3>3, <3>4, <3>5
  <2> QED
    BY <1>0, <2>1, <2>2, <2>3, <2>4 DEF Agree, Kinds
<1>4. CASE Exists(n) /\ n \notin job.gone
  <2>1. /\ meeting'[n] # Gone
        /\ meeting'[n].ref = IF n \in job.cleared THEN "none" ELSE meeting[n].ref
    BY <1>0, <1>4, AppliedForm
  <2>2. Names(n, kind)' <=> n \notin job.cleared /\ Names(n, kind)
    BY <1>4, <2>1, NamesForms DEF Names, Kinds
  <2>3. ASSUME <<n, kind>> \in objects, ~Names(n, kind)'
        PROVE  <<n, kind>> \in orphans \/ (kind = "transcript" /\ n \in stored)
    <3>1. CASE ~Names(n, kind)
      BY <2>3, <3>1 DEF Agree
    <3>2. CASE n \in job.cleared /\ Names(n, kind)
      <4>1. meeting[n].text /\ meeting[n].ref = kind
        BY <1>0, <1>4, <3>2 DEF TakesTheOld, Names
      <4>2. kind = "transcript"
        BY <1>4, <4>1 DEF RowsOK, Kinds
      <4> QED
        BY <1>0, <2>3, <3>2, <4>2 DEF ClearedIsOff
    <3> QED
      BY <2>2, <2>3, <3>1, <3>2
  <2>4. ASSUME Names(n, kind)', <<n, kind>> \notin objects
        PROVE  <<n, kind>> \in undone \/ deleting[n] = kind
    <3>1. <<n, kind>> \in undone \union job.deleted \/ deleting[n] = kind
      BY <1>1, <2>2, <2>4 DEF Agree
    <3>2. <<n, kind>> \notin job.deleted
      BY <1>0, <1>4, <2>2, <2>4 DEF DeletedIsTaken
    <3> QED
      BY <3>1, <3>2
  <2> QED
    BY <1>0, <1>1, <2>3, <2>4 DEF Agree, Aside
<1> QED
  BY <1>2, <1>3, <1>4

(* The steps of the others.                                                *)
LEMMA OthersAgree ==
  ASSUME TypeOK, JobOK, RowsOK, StoredIsThere, DeletingIsOff, Others,
         NEW n \in Meetings, NEW kind \in Kinds, Agree(n, kind)
  PROVE  Agree(n, kind)'
<1>0. job' = job
  BY OthersForm
<1>1. CASE /\ meeting' = meeting /\ objects' = objects /\ orphans' = orphans /\ undone' = undone
           /\ Aside
  BY <1>0, <1>1, NamesForms DEF Agree, Aside, Pending
<1>2. CASE AYearPasses
  <2>1. Names(n, kind)' <=> Names(n, kind)
    BY <1>2, RowForms, NamesForms DEF Names
  <2>2. objects' = objects /\ orphans' = orphans /\ undone' = undone /\ Aside
    BY <1>2, YearForm
  <2> QED
    BY <1>0, <2>1, <2>2 DEF Agree, Aside, Pending
<1>3. ASSUME NEW m \in Meetings, Beside(m)
      PROVE  Agree(n, kind)'
  <2>0. Kinds = {"audio", "transcript"} /\ (meeting[m].ref = "none" => meeting[m].ref \notin Kinds)
    BY DEF Kinds
  <2>1. CASE n # m
    <3>1. Same(n)
      BY <1>3, <2>1, BesideForm
    <3> QED
      BY <1>0, <3>1, NamesForms DEF Agree, Same, Pending
  <2>2. CASE n = m /\ StoreTranscript(m)
    <3>1. /\ meeting' = meeting /\ deleting' = deleting /\ orphans' = orphans /\ undone' = undone
          /\ stored' = stored \union {m} /\ objects' = objects \union {<<m, "transcript">>}
      BY <2>2, OwnForms
    <3> QED
      BY <1>0, <2>2, <3>1, NamesForms DEF Agree, Pending
  <2>3. CASE n = m /\ FinishTranscription(m)
    <3>1. /\ <<m, "transcript">> \in objects' /\ <<m, "audio">> \in orphans'
          /\ meeting'[m] # Gone /\ meeting'[m].ref = "transcript"
      BY <2>3, OwnForms
    <3>2. Names(n, kind)' <=> kind = "transcript"
      BY <2>3, <3>1, NamesForms
    <3> QED
      BY <2>0, <2>3, <3>1, <3>2 DEF Agree
  <2>4. CASE n = m /\ TranscriptionFails(m)
    <3>1. /\ meeting' = meeting /\ deleting' = deleting /\ stored' = stored \ {m} /\ objects' = objects
          /\ orphans' = orphans \union {<<m, "transcript">>} /\ undone' = undone
      BY <2>4, OwnForms
    <3> QED
      BY <1>0, <2>4, <3>1, NamesForms DEF Agree, Pending
  <2>5. CASE n = m /\ BeginDelete(m)
    <3>1. /\ meeting' = meeting /\ stored' = stored /\ undone' = undone /\ Exists(m)
          /\ deleting'[m] = meeting[m].ref /\ deleting[m] = "no"
          /\ objects' \subseteq objects /\ orphans \subseteq orphans'
          /\ \A k \in Kinds \ {meeting[m].ref} : <<m, k>> \in objects' <=> <<m, k>> \in objects
      BY <2>5, OwnForms
    <3>2. (Names(n, kind)' <=> Names(n, kind)) /\ (Names(n, kind) <=> meeting[m].ref = kind)
      BY <2>5, <3>1, NamesForms DEF Names
    <3> QED
      BY <1>0, <2>5, <3>1, <3>2 DEF Agree, Pending
  <2>6. CASE n = m /\ FinishDelete(m)
    <3>1. /\ meeting'[m] = Gone /\ stored' = stored /\ objects' = objects /\ deleting[m] # "no"
          /\ orphans \subseteq orphans'
          /\ meeting[m].ref = "transcript" /\ deleting[m] = "audio" => <<m, "transcript">> \in orphans'
      BY <2>6, OwnForms
    <3>2. ~Names(n, kind)'
      BY <2>6, <3>1, NamesForms
    <3>3. ASSUME <<n, kind>> \in objects, Names(n, kind)
          PROVE  <<n, kind>> \in orphans'
      <4>1. <<n, kind>> \in orphans \/ (kind = "transcript" /\ deleting[m] = "audio")
        BY <2>6, <3>1, <3>3 DEF DeletingIsOff
      <4>2. meeting[m].ref = kind
        BY <2>6, <3>3 DEF Names
      <4> QED
        BY <2>6, <3>1, <4>1, <4>2
    <3> QED
      BY <3>1, <3>2, <3>3 DEF Agree
  <2>7. CASE n = m /\ DeleteFails(m)
    <3>1. /\ meeting' = meeting /\ stored' = stored /\ objects' = objects /\ orphans' = orphans
          /\ undone \subseteq undone' /\ (deleting[m] \in Kinds => <<m, deleting[m]>> \in undone')
      BY <2>7, OwnForms
    <3> QED
      BY <1>0, <2>7, <3>1, NamesForms DEF Agree, Pending
  <2> QED
    BY <1>3, <2>1, <2>2, <2>3, <2>4, <2>5, <2>6, <2>7 DEF Beside
<1> QED
  BY <1>1, <1>2, <1>3, OthersForm

(* Every step keeps the agreement.                                         *)
LEMMA AgreeStep ==
  ASSUME RetentionInv, [Next]_vars
  PROVE  RefsAndObjectsAgree'
<1> SUFFICES ASSUME NEW n \in Meetings, NEW kind \in Kinds
             PROVE  (/\ <<n, kind>> \in objects /\ ~Names(n, kind) =>
                          <<n, kind>> \in orphans \/ (kind = "transcript" /\ n \in stored)
                     /\ Names(n, kind) /\ <<n, kind>> \notin objects =>
                          \/ <<n, kind>> \in undone \/ deleting[n] = kind
                          \/ InTransaction /\ <<n, kind>> \in job.deleted)'
  BY Zenon DEF RefsAndObjectsAgree
<1>0. InTransaction' <=> job' \in Active
  <2>1. JobOK'
    BY JobStep DEF RetentionInv
  <2> QED
    BY <2>1, Apart DEF JobOK, Active, Between, Idle, InTransaction
<1>1. Agree(n, kind)'
  <2> USE DEF RetentionInv
  <2>1. Agree(n, kind)
    BY AgreeForm
  <2>2. CASE UNCHANGED vars
    BY <2>1, <2>2 DEF Agree, Names, Exists, Pending, vars
  <2>3. CASE Commit
    BY <2>1, <2>3, CommitAgrees
  <2>4. CASE Others
    BY <2>1, <2>4, OthersAgree
  <2>5. CASE \/ OpenWorkspace \/ FlushTranscripts \/ ReadMeetings \/ FlushMeetings
             \/ ApplyAllRetentionPolicies \/ EndRun \/ WorkspaceFails \/ Crash
    BY <2>1, <2>5, RunAgrees
  <2>6. ASSUME NEW m \in Meetings, ClearTranscript(m) \/ TranscriptStays(m)
        PROVE  Agree(n, kind)'
    BY <2>1, <2>6, RunAgrees
  <2>7. ASSUME NEW m \in Meetings, DeleteAudio(<<m, "audio">>) \/ AudioStays(<<m, "audio">>)
        PROVE  Agree(n, kind)'
    BY <2>1, <2>7, RunAgrees
  <2> HIDE DEF RetentionInv
  <2> QED
    BY <2>2, <2>3, <2>4, <2>5, <2>6, <2>7 DEF Next, Work
<1> QED
  BY <1>0, <1>1 DEF Agree, Names, Exists, Pending
-----------------------------------------------------------------------------
(* Theorems *)

(* Rows as they are made.                                                  *)
LEMMA NewForm ==
  ASSUME NEW row \in NewMeetings
  PROVE  /\ row \in Rows /\ row.age = 0 /\ row # Gone
         /\ (row.text => row.ref # "audio") /\ (row.ref = "transcript" => row.text)
<1>1. PICK input \in Inputs : row = NewMeeting(input)
  BY DEF NewMeetings
<1>2. 0 \in -1 .. MaxAge
  BY RetentionAssumption
<1>3. CASE input = "recording"
  <2>1. row = [age |-> 0, text |-> FALSE, items |-> FALSE, ref |-> "audio"]
    BY <1>1, <1>3 DEF NewMeeting
  <2> QED
    BY <1>2, <2>1 DEF Rows, Gone
<1>4. CASE input = "file"
  <2>1. row = [age |-> 0, text |-> TRUE, items |-> TRUE, ref |-> "transcript"]
    BY <1>1, <1>4 DEF NewMeeting
  <2> QED
    BY <1>2, <2>1 DEF Rows, Gone
<1>5. CASE input = "pasted"
  <2>1. row = [age |-> 0, text |-> TRUE, items |-> TRUE, ref |-> "none"]
    BY <1>1, <1>5 DEF NewMeeting
  <2> QED
    BY <1>2, <2>1 DEF Rows, Gone
<1> QED
  BY <1>3, <1>4, <1>5, RetentionAssumption

(* The run starts with nothing, and the names of the rows are the objects. *)
LEMMA InitHolds == Init => RetentionInv
<1> SUFFICES ASSUME Init PROVE RetentionInv
  OBVIOUS
<1>1. meeting \in [Meetings -> Rows]
  <2>1. NewMeetings \subseteq Rows
    BY NewForm
  <2> QED
    BY <2>1 DEF Init
<1>2. objects = {<<m, meeting[m].ref>> : m \in {x \in Meetings : meeting[x].ref \in Kinds}}
  BY DEF Init
<1>3. TypeOK
  <2>1. NoPolicy \in Policies
    BY RetentionAssumption DEF NoPolicy, Policies
  <2>2. policy \in [Workspaces -> Policies]
    BY <2>1 DEF Init
  <2>3. objects \subseteq Meetings \X Kinds
    BY <1>2
  <2> QED
    BY <1>1, <2>2, <2>3, RetentionAssumption DEF Init, TypeOK, Idle, Rows, Policies
<1>4. RowsOK
  BY NewForm DEF Init, RowsOK
<1>5. JobOK /\ job \notin Active
  BY Apart DEF Init, JobOK
<1>6. TakesTheOld /\ DeletedIsTaken /\ ClearedIsOff
  BY <1>5 DEF TakesTheOld, DeletedIsTaken, ClearedIsOff
<1>7. SeesTranscripts /\ SeesRecordings /\ StoredIsThere /\ DeletingIsOff
  BY <1>5 DEF SeesTranscripts, SeesRecordings, StoredIsThere, DeletingIsOff, Init
<1>8. ASSUME NEW m \in Meetings, NEW kind \in Kinds
      PROVE  Agree(m, kind)
  <2>1. meeting[m] # Gone
    BY NewForm DEF Init
  <2>2. Names(m, kind) <=> <<m, kind>> \in objects
    BY <1>2, <2>1 DEF Names, Exists
  <2> QED
    BY <2>2 DEF Agree
<1> QED
  BY <1>3, <1>4, <1>5, <1>6, <1>7, <1>8, AgreeForm DEF RetentionInv

(* The parts of the invariant hold together, in every state.               *)
THEOREM RetentionInvariant == Spec => []RetentionInv
<1>1. RetentionInv /\ [Next]_vars => RetentionInv'
  BY JobStep, TypeStep, RowsStep, TakesStep, DeletedStep, ClearedStep, SeesTranscriptsStep,
     SeesRecordingsStep, StoredStep, DeletingStep, AgreeStep DEF RetentionInv
<1> QED
  BY <1>1, InitHolds, PTL DEF Spec

(* Every variable keeps its type: a policy its periods, a run the forms it *)
(* takes on its way through the workspaces.                                *)
THEOREM TypeCorrect == Spec => [](TypeOK /\ JobOK)
BY RetentionInvariant, PTL DEF RetentionInv

(* An object without a name is one S3 refused to delete, a transcribed     *)
(* recording, a transcript that is not or cannot be committed, or that of  *)
(* a meeting which went while it was transcribed; a name without an object *)
(* is of what a transaction deleted that has not committed.                *)
THEOREM ObjectsAgree == Spec => []RefsAndObjectsAgree
BY RetentionInvariant, PTL DEF RetentionInv

(* The commit of a workspace takes only what is older than the policy that *)
(* its transaction has read.                                               *)
LEMMA OldStep ==
  ASSUME RetentionInv, Next, job.step = "flushed", job'.step = "next", NEW m \in Meetings
  PROVE  /\ Exists(m) /\ meeting'[m] = Gone =>
              meeting[m].age > job.policy.transcript /\ meeting[m].age > job.policy.item
         /\ meeting[m].items /\ ~meeting'[m].items => meeting[m].age > job.policy.item
         /\ meeting[m].text /\ ~meeting'[m].text => meeting[m].age > job.policy.transcript
<1> USE DEF RetentionInv
<1>1. CASE meeting' = meeting
  BY <1>1 DEF Exists
<1>2. CASE Commit
  <2>1. job \in Active /\ meeting'[m] = Applied(m)
    BY <1>2, CommitForm
  <2>2. /\ job.policy.transcript \in Int /\ job.policy.item \in Int /\ meeting[m].age \in Int
        /\ meeting[m].text \in BOOLEAN /\ meeting[m].items \in BOOLEAN
    BY <2>1 DEF Active, Policies, TypeOK
  <2>3. ASSUME NEW x \in Int, x > LongerPeriod(job.policy)
        PROVE  x > job.policy.transcript /\ x > job.policy.item
    BY <2>2, <2>3 DEF LongerPeriod
  <2>4. CASE ~Exists(m)
    <3>1. meeting[m].items = FALSE /\ meeting[m].text = FALSE
      BY <2>4 DEF Exists, Gone
    <3> QED
      BY <2>4, <3>1
  <2>5. CASE Exists(m) /\ m \in job.gone
    <3>1. meeting[m].age > LongerPeriod(job.policy)
      BY <2>1, <2>5 DEF TakesTheOld
    <3> QED
      BY <2>2, <2>3, <3>1
  <2>6. CASE Exists(m) /\ m \notin job.gone
    <3>1. /\ meeting'[m] # Gone
          /\ meeting'[m].text = (meeting[m].text /\ m \notin job.cleared)
          /\ meeting'[m].items = (meeting[m].items /\ m \notin job.items)
      BY <2>1, <2>6, AppliedForm
    <3>2. meeting[m].items /\ ~meeting'[m].items => m \in job.items
      BY <3>1, Zenon
    <3>3. meeting[m].text /\ ~meeting'[m].text => m \in job.cleared
      BY <3>1, Zenon
    <3>4. m \in job.items => meeting[m].age > job.policy.item
      BY <2>1, <2>6 DEF TakesTheOld
    <3>5. m \in job.cleared => meeting[m].age > job.policy.transcript
      BY <2>1, <2>6 DEF TakesTheOld
    <3> QED
      BY <3>1, <3>2, <3>3, <3>4, <3>5, Zenon
  <2> QED
    BY <2>4, <2>5, <2>6
<1>3. CASE Others
  BY <1>3, OthersForm
<1> QED
  BY <1>1, <1>2, <1>3, MeetingSteps DEF Next, Others

(* A run takes a meeting, its items or its transcript only when the policy *)
(* it has read allows, whoever edits the policy meanwhile.                 *)
THEOREM OnlyOldGoes == Spec => OnlyTheOldGoes
<1>1. RetentionInv /\ Next =>
        (job.step = "flushed" /\ job'.step = "next" =>
          \A m \in Meetings : LET p == job.policy IN
            /\ Exists(m) /\ meeting'[m] = Gone => meeting[m].age > p.transcript /\ meeting[m].age > p.item
            /\ meeting[m].items /\ ~meeting'[m].items => meeting[m].age > p.item
            /\ meeting[m].text /\ ~meeting'[m].text => meeting[m].age > p.transcript)
  BY OldStep
<1> QED
  BY <1>1, RetentionInvariant, PTL DEF Spec, OnlyTheOldGoes
=============================================================================
