---------------------- MODULE ExtractionPipelineProofs ----------------------
(***************************************************************************)
(* Theorems about ExtractionPipeline, for any sets of meetings, tasks,     *)
(* executors and requests, any retry limits, environment and faults.       *)
(***************************************************************************)
EXTENDS ExtractionPipeline, TLAPS
-----------------------------------------------------------------------------
(* Type correctness *)

(* A message that may be retried has a next try.                           *)
LEMMA NextTryIsMessage ==
  ASSUME NEW w \in Executors, TypeOK, pc[w] # "idle", MayRetry(w)
  PROVE  NextTry(job[w]) \in Messages
<1>1. job[w] \in Messages
  BY DEF TypeOK
<1>2. job[w].tries + 1 \in TryNumbers
  BY <1>1, PipelineAssumption DEF MayRetry, RetryLimit, Messages, Kinds, TryNumbers
<1> QED
  BY <1>1, <1>2 DEF NextTry, Message, Messages

(* A first message about a meeting is a message.                           *)
LEMMA FirstTryIsMessage ==
  ASSUME NEW k \in Kinds, NEW m \in Meetings
  PROVE  Message(k, m, 0) \in Messages
BY PipelineAssumption DEF Message, Messages, TryNumbers

(* Publishing a message keeps the bag of pending messages a bag.           *)
LEMMA PublishType ==
  ASSUME pending \in [Messages -> Nat], NEW msg \in Messages, Publish(msg)
  PROVE  pending' \in [Messages -> Nat]
BY DEF Publish

(* The types of the steps of an API request.                               *)
LEMMA RequestType ==
  ASSUME TypeOK, NEW r \in Requests, RequestStep(r) \/ NewRequest(r)
  PROVE  TypeOK'
<1> USE DEF TypeOK, Step, EndRequest, Advance, NoRequest, RequestSteps, Statuses,
            Sources, Keys, LiveStatuses, Live, rowVars, childVars, execVars
<1>a. request[r].step # "idle" => request[r].meeting \in Meetings
  OBVIOUS
<1>1. CASE CommitAudio(r)
  BY <1>a, <1>1 DEF CommitAudio
<1>2. CASE EnqueueTranscription(r)
  BY <1>a, <1>2, FirstTryIsMessage, PublishType DEF EnqueueTranscription, Kinds
<1>3. CASE TriggerCommit(r)
  BY <1>a, <1>3 DEF TriggerCommit
<1>4. CASE TriggerRowGone(r)
  BY <1>4 DEF TriggerRowGone
<1>5. CASE EnqueueExtraction(r)
  BY <1>a, <1>5, FirstTryIsMessage, PublishType DEF EnqueueExtraction, Kinds
<1>6. CASE DeleteObject(r)
  <2> DEFINE m == request[r].meeting
             k == request[r].key
  <2>1. m \in Meetings /\ k \in Keys \cup {"none"}
    BY <1>6 DEF DeleteObject
  <2>2. objects' \in [Meetings -> SUBSET Keys]
    <3>1. objects \in [Meetings -> SUBSET Keys] /\ objects[m] \ {k} \in SUBSET Keys
      BY <2>1
    <3>2. objects' = [objects EXCEPT ![m] = @ \ {k}] \/ objects' = objects
      BY <1>6 DEF DeleteObject
    <3> QED
      BY <2>1, <3>1, <3>2
  <2>3. request' = [request EXCEPT ![r] = [step |-> "delete_row", meeting |-> m, key |-> k]]
    BY <1>6 DEF DeleteObject
  <2> QED
    BY <1>6, <2>1, <2>2, <2>3 DEF DeleteObject
<1>7. CASE DeleteRow(r)
  BY <1>a, <1>7 DEF DeleteRow, Cascade, NoItems
<1>8. CASE DeleteNothing(r)
  BY <1>8 DEF DeleteNothing
<1>9. ASSUME NEW m \in Meetings, UploadTranscriptFile(r, m)
      PROVE  TypeOK'
  BY <1>9 DEF UploadTranscriptFile
<1>10. ASSUME NEW m \in Meetings, UploadAudio(r, m)
       PROVE  TypeOK'
  BY <1>10 DEF UploadAudio
<1>11. ASSUME NEW m \in Meetings, TriggerLoad(r, m)
       PROVE  TypeOK'
  BY <1>11, PipelineAssumption DEF TriggerLoad
<1>12. ASSUME NEW m \in Meetings, DeleteLoad(r, m)
       PROVE  TypeOK'
  BY <1>12 DEF DeleteLoad
<1> QED
  BY <1>1, <1>2, <1>3, <1>4, <1>5, <1>6, <1>7, <1>8, <1>9, <1>10, <1>11, <1>12
  DEF RequestStep, NewRequest

(* The types of the steps of users.                                        *)
LEMMA UserType ==
  ASSUME TypeOK, UserStep
  PROVE  TypeOK'
<1> USE DEF TypeOK, Statuses, Sources, rowVars, childVars, execVars
<1>1. ASSUME NEW m \in Meetings, NEW hasText \in BOOLEAN, CreateMeeting(m, hasText)
      PROVE  TypeOK'
  BY <1>1 DEF CreateMeeting
<1>2. ASSUME NEW m \in Meetings, NEW t \in Tasks,
             NEW o \in Nat, NEW d \in Nat, EditItems(m, t, o, d)
      PROVE  TypeOK'
  BY <1>2 DEF EditItems
<1>3. ASSUME NEW m \in Meetings, NEW t \in Tasks,
             CompleteItem(m, t) \/ ReopenItem(m, t) \/ DeleteItem(m, t)
      PROVE  TypeOK'
  <2>1. openItems[m][t] \in Nat /\ doneItems[m][t] \in Nat
    OBVIOUS
  <2>2. \E o, d \in Nat : EditItems(m, t, o, d)
    BY <1>3, <2>1 DEF CompleteItem, ReopenItem, DeleteItem
  <2> QED
    BY <1>2, <2>2
<1> QED
  BY <1>1, <1>3 DEF UserStep

(* Whatever a provider answers, there is a transcript or there is none.    *)
LEMMA FormattedType == \A a \in Results : Formatted(a) \in BOOLEAN
BY DEF Results, WhisperResults, DeepgramResults, AssemblyAIResults, TranscriptionResult,
       Formatted

(* The types of the steps of workers and background tasks.                 *)
LEMMA ExecutorType ==
  ASSUME TypeOK, NEW w \in Executors, ExecutorStep(w)
  PROVE  TypeOK'
<1> USE DEF TypeOK, Statuses, Sources, Keys, ExecSteps, Goto, Unlock, Reset, NoJob,
            rowVars, childVars, execVars
<1>a. pc[w] # "idle" => job[w] \in Messages /\ job[w].meeting \in Meetings
  BY DEF Messages
<1>1. ASSUME NEW msg \in Messages, LoadMeeting(w, msg)
      PROVE  TypeOK'
  <2>1. TranscriptInput(msg.meeting) \in {"none", "text"} \cup Keys
    BY DEF TranscriptInput, Messages
  <2>2. pending' \in [Messages -> Nat]
    BY <1>1 DEF LoadMeeting, Receive
  <2> QED
    BY <1>1, <2>1, <2>2 DEF LoadMeeting, Receive
<1>2. ASSUME NEW msg \in Messages, MeetingNotFound(w, msg)
      PROVE  TypeOK'
  <2>1. pending' \in [Messages -> Nat]
    BY <1>2 DEF MeetingNotFound, Receive
  <2> QED
    BY <1>2, <2>1 DEF MeetingNotFound, Receive
<1>3. CASE MarkExtracting(w)
  BY <1>a, <1>3 DEF MarkExtracting
<1>4. CASE FinishEmpty(w)
  BY <1>a, <1>4 DEF FinishEmpty
<1>5. ASSUME NEW found \in SUBSET Tasks, ExtractItems(w, found)
      PROVE  TypeOK'
  BY <1>5 DEF ExtractItems
<1>6. ASSUME NEW entries \in {0, 1}, CommitExtraction(w, entries)
      PROVE  TypeOK'
  BY <1>a, <1>6 DEF CommitExtraction
<1>7. CASE Transcribe(w)
  BY <1>7 DEF Transcribe
<1>8. CASE SaveTranscript(w)
  BY <1>a, <1>8 DEF SaveTranscript
<1>9. ASSUME NEW result \in Results, CommitTranscript(w, result)
      PROVE  TypeOK'
  BY <1>a, <1>9, FormattedType DEF CommitTranscript
<1>10. CASE EnqueueAfterTranscription(w)
  BY <1>a, <1>10, FirstTryIsMessage, PublishType DEF EnqueueAfterTranscription, Kinds
<1>11. CASE Ack(w)
  BY <1>11 DEF Ack
<1>12. CASE RowGone(w) \/ AudioGone(w)
  <2>1. pc[w] # "idle" /\ Raise(w)
    BY <1>12 DEF RowGone, AudioGone
  <2> QED
    BY <2>1 DEF Raise
<1>13. CASE MarkDraft(w)
  <2>1. status' \in [Meetings -> Statuses]
    BY <1>a, <1>13 DEF MarkDraft
  <2>2. runs' \in [Meetings -> SUBSET {"ok", "error"}]
    BY <1>a, <1>13 DEF MarkDraft, FailureRecord
  <2> QED
    BY <1>a, <1>13, <2>1, <2>2 DEF MarkDraft
<1>14. CASE MarkNothing(w)
  BY <1>14 DEF MarkNothing
<1>15. CASE RetryTask(w)
  BY <1>15, NextTryIsMessage, PublishType DEF RetryTask
<1>16. CASE GiveUp(w)
  BY <1>16 DEF GiveUp
<1>17. CASE MarkLoad(w)
  BY <1>17 DEF MarkLoad
<1> QED
  BY <1>1, <1>2, <1>3, <1>4, <1>5, <1>6, <1>7, <1>8, <1>9, <1>10, <1>11, <1>12,
     <1>13, <1>14, <1>15, <1>16, <1>17
  DEF ExecutorStep

(* The types of faults.                                                    *)
LEMMA FaultType ==
  ASSUME TypeOK, FaultStep
  PROVE  TypeOK'
<1> USE DEF TypeOK, ExecSteps, Goto, Unlock, Reset, NoJob, rowVars, childVars, execVars
<1>0. ASSUME Crash
      PROVE  crashes' \in 0..MaxCrashes
  BY <1>0, PipelineAssumption DEF Crash
<1>1. ASSUME NEW w \in Executors, RunRaises(w)
      PROVE  TypeOK'
  <2>1. pc[w] # "idle" /\ Raise(w)
    BY <1>1 DEF RunRaises
  <2> QED
    BY <2>1 DEF Raise
<1>2. ASSUME NEW w \in Executors, WorkerCrash(w)
      PROVE  TypeOK'
  BY <1>0, <1>2, PublishType DEF WorkerCrash
<1>3. ASSUME NEW w \in Executors, CrashAfterRetry(w)
      PROVE  TypeOK'
  <2>1. job[w] \in Messages /\ NextTry(job[w]) \in Messages
    BY <1>3, NextTryIsMessage DEF CrashAfterRetry
  <2>2. pending' \in [Messages -> Nat]
    BY <1>3, <2>1 DEF CrashAfterRetry
  <2> QED
    BY <1>0, <1>3, <2>2 DEF CrashAfterRetry
<1>4. ASSUME NEW w \in Executors, TimeLimit(w)
      PROVE  TypeOK'
  BY <1>4 DEF TimeLimit
<1>5. CASE ApiCrash
  BY <1>0, <1>5 DEF ApiCrash
<1> QED
  BY <1>1, <1>2, <1>3, <1>4, <1>5 DEF FaultStep

(* Every variable keeps its type, whatever the instance.                   *)
LEMMA TypeStep ==
  ASSUME TypeOK, [Next]_vars
  PROVE  TypeOK'
<1>1. CASE Next
  BY <1>1, RequestType, ExecutorType, UserType, FaultType DEF Next
<1>2. CASE UNCHANGED vars
  BY <1>2 DEF vars, rowVars, childVars, execVars, TypeOK
<1> QED
  BY <1>1, <1>2

(* The initial state is well typed.                                        *)
LEMMA TypeInit == Init => TypeOK
BY PipelineAssumption
DEF Init, TypeOK, Statuses, Sources, Keys, ExecSteps, NoItems, NoRequest

(* In every instance each variable keeps its type: tries stay within the   *)
(* retry limits of the two tasks (extract_meeting_task, transcribe_audio_  *)
(* task), and no count of items, entries or messages becomes negative.     *)
THEOREM TypeCorrect == Spec => []TypeOK
BY TypeInit, TypeStep, PTL DEF Spec
-----------------------------------------------------------------------------
(* Who writes what *)

(* The actions that change a row of `meetings`.                            *)
LEMMA RowWriters ==
  ASSUME [Next]_vars
  PROVE  \/ UNCHANGED rowVars
         \/ \E m \in Meetings, hasText \in BOOLEAN : CreateMeeting(m, hasText)
         \/ \E r \in Requests, m \in Meetings : UploadTranscriptFile(r, m)
         \/ \E r \in Requests : CommitAudio(r) \/ TriggerCommit(r) \/ DeleteRow(r)
         \/ \E w \in Executors : FinishEmpty(w) \/ MarkDraft(w)
         \/ \E w \in Executors, entries \in {0, 1} : CommitExtraction(w, entries)
         \/ \E w \in Executors, result \in Results : CommitTranscript(w, result)
<1>1. ASSUME NEW r \in Requests, RequestStep(r)
      PROVE  UNCHANGED rowVars \/ CommitAudio(r) \/ TriggerCommit(r) \/ DeleteRow(r)
  BY <1>1 DEF RequestStep, EnqueueTranscription, TriggerRowGone, EnqueueExtraction,
              DeleteObject, DeleteNothing
<1>2. ASSUME NEW r \in Requests, NewRequest(r)
      PROVE  UNCHANGED rowVars \/ \E m \in Meetings : UploadTranscriptFile(r, m)
  BY <1>2 DEF NewRequest, UploadAudio, TriggerLoad, DeleteLoad
<1>3. ASSUME NEW w \in Executors, ExecutorStep(w)
      PROVE  \/ UNCHANGED rowVars
             \/ FinishEmpty(w) \/ MarkDraft(w)
             \/ \E entries \in {0, 1} : CommitExtraction(w, entries)
             \/ \E result \in Results : CommitTranscript(w, result)
  BY <1>3 DEF ExecutorStep, LoadMeeting, MeetingNotFound, MarkExtracting, ExtractItems,
              Transcribe, SaveTranscript, EnqueueAfterTranscription, Ack, RowGone,
              AudioGone, Raise, MarkLoad, MarkNothing, RetryTask, GiveUp
<1>4. ASSUME UserStep
      PROVE  \/ UNCHANGED rowVars
             \/ \E m \in Meetings, hasText \in BOOLEAN : CreateMeeting(m, hasText)
  BY <1>4 DEF UserStep, CompleteItem, ReopenItem, DeleteItem, EditItems
<1>5. ASSUME FaultStep
      PROVE  UNCHANGED rowVars
  BY <1>5 DEF FaultStep, RunRaises, Raise, WorkerCrash, CrashAfterRetry, TimeLimit, ApiCrash
<1>6. CASE UNCHANGED vars
  BY <1>6 DEF vars
<1> QED
  BY <1>1, <1>2, <1>3, <1>4, <1>5, <1>6 DEF Next

(* The actions that change the rows under a meeting.                       *)
LEMMA ChildWriters ==
  ASSUME [Next]_vars
  PROVE  \/ UNCHANGED childVars
         \/ \E m \in Meetings, t \in Tasks :
              CompleteItem(m, t) \/ ReopenItem(m, t) \/ DeleteItem(m, t)
         \/ \E r \in Requests : DeleteRow(r)
         \/ \E w \in Executors : MarkDraft(w)
         \/ \E w \in Executors, entries \in {0, 1} : CommitExtraction(w, entries)
<1>1. ASSUME NEW r \in Requests, RequestStep(r) \/ NewRequest(r)
      PROVE  UNCHANGED childVars \/ DeleteRow(r)
  BY <1>1 DEF RequestStep, NewRequest, CommitAudio, EnqueueTranscription, TriggerCommit,
              TriggerRowGone, EnqueueExtraction, DeleteObject, DeleteNothing,
              UploadTranscriptFile, UploadAudio, TriggerLoad, DeleteLoad
<1>2. ASSUME NEW w \in Executors, ExecutorStep(w)
      PROVE  \/ UNCHANGED childVars
             \/ MarkDraft(w)
             \/ \E entries \in {0, 1} : CommitExtraction(w, entries)
  BY <1>2 DEF ExecutorStep, LoadMeeting, MeetingNotFound, MarkExtracting, ExtractItems,
              FinishEmpty, Transcribe, SaveTranscript, CommitTranscript,
              EnqueueAfterTranscription, Ack, RowGone, AudioGone, Raise, MarkLoad, MarkNothing,
              RetryTask, GiveUp
<1>3. ASSUME UserStep
      PROVE  \/ UNCHANGED childVars
             \/ \E m \in Meetings, t \in Tasks :
                  CompleteItem(m, t) \/ ReopenItem(m, t) \/ DeleteItem(m, t)
  BY <1>3 DEF UserStep, CreateMeeting
<1>4. ASSUME FaultStep
      PROVE  UNCHANGED childVars
  BY <1>4 DEF FaultStep, RunRaises, Raise, WorkerCrash, CrashAfterRetry, TimeLimit, ApiCrash
<1>5. CASE UNCHANGED vars
  BY <1>5 DEF vars
<1> QED
  BY <1>1, <1>2, <1>3, <1>4, <1>5 DEF Next

(* What a step may do to one row: it is born once, deleted for good and    *)
(* only when nobody holds its lock, and keeps its source while it lives.   *)
LEMMA RowLife ==
  ASSUME TypeOK, NamesAreBorn, [Next]_vars, NEW m \in Meetings
  PROVE  /\ ~Uncreated(m) => ~Uncreated(m)'
         /\ status[m] = "deleted" => status'[m] = "deleted"
         /\ source'[m] = source[m] \/ Uncreated(m) \/ status'[m] = "deleted"
         /\ Live(m) /\ ~Live(m)' => RowUnlocked(m)
<1> USE DEF TypeOK, Live, LiveStatuses, Uncreated
<1>1. ASSUME NEW n \in Meetings, NEW hasText \in BOOLEAN, CreateMeeting(n, hasText)
      PROVE  /\ n = m => Uncreated(m) /\ status'[m] = "draft"
             /\ n # m => status'[m] = status[m] /\ source'[m] = source[m]
  BY <1>1 DEF CreateMeeting, MayCreate
<1>2. ASSUME NEW r \in Requests, NEW n \in Meetings, UploadTranscriptFile(r, n)
      PROVE  /\ n = m => Uncreated(m) /\ status'[m] = "extracting"
             /\ n # m => status'[m] = status[m] /\ source'[m] = source[m]
  BY <1>2 DEF UploadTranscriptFile, MayCreate
<1>3. ASSUME NEW r \in Requests, CommitAudio(r)
      PROVE  /\ request[r].meeting = m => Uncreated(m) /\ status'[m] = "draft"
             /\ request[r].meeting # m => status'[m] = status[m] /\ source'[m] = source[m]
  BY <1>3 DEF CommitAudio, NamesAreBorn, Step
<1>4. ASSUME NEW r \in Requests, TriggerCommit(r)
      PROVE  /\ source'[m] = source[m]
             /\ request[r].meeting = m => Live(m) /\ Live(m)'
             /\ request[r].meeting # m => status'[m] = status[m]
  BY <1>4 DEF TriggerCommit
<1>5. ASSUME NEW r \in Requests, DeleteRow(r)
      PROVE  /\ request[r].meeting = m => status'[m] = "deleted" /\ RowUnlocked(m)
             /\ request[r].meeting # m => status'[m] = status[m] /\ source'[m] = source[m]
  BY <1>5 DEF DeleteRow
<1>6. ASSUME NEW w \in Executors, FinishEmpty(w) \/ MarkDraft(w)
      PROVE  /\ source'[m] = source[m]
             /\ job[w].meeting = m => Live(m) /\ Live(m)'
             /\ job[w].meeting # m => status'[m] = status[m]
  BY <1>6 DEF FinishEmpty, MarkDraft, MayUpdateRow
<1>7. ASSUME NEW w \in Executors, NEW entries \in {0, 1}, CommitExtraction(w, entries)
      PROVE  /\ source'[m] = source[m]
             /\ job[w].meeting = m => Live(m) /\ Live(m)'
             /\ job[w].meeting # m => status'[m] = status[m]
  BY <1>7 DEF CommitExtraction, MayUpdateRow
<1>8. ASSUME NEW w \in Executors, NEW result \in Results, CommitTranscript(w, result)
      PROVE  /\ source'[m] = source[m]
             /\ job[w].meeting = m => Live(m) /\ Live(m)'
             /\ job[w].meeting # m => status'[m] = status[m]
  BY <1>8 DEF CommitTranscript, MayUpdateRow
<1> DEFINE Same == status'[m] = status[m] /\ source'[m] = source[m]
           Born == Uncreated(m) /\ Live(m)'
           Moved == Live(m) /\ Live(m)' /\ source'[m] = source[m]
           Deleted == status'[m] = "deleted" /\ RowUnlocked(m)
<1>9. Same \/ Born \/ Moved \/ Deleted
  <2>1. CASE UNCHANGED rowVars
    BY <2>1 DEF rowVars
  <2>2. CASE \E n \in Meetings, hasText \in BOOLEAN : CreateMeeting(n, hasText)
    BY <1>1, <2>2
  <2>3. CASE \E r \in Requests, n \in Meetings : UploadTranscriptFile(r, n)
    BY <1>2, <2>3
  <2>4. CASE \E r \in Requests : CommitAudio(r) \/ TriggerCommit(r) \/ DeleteRow(r)
    BY <1>3, <1>4, <1>5, <2>4
  <2>5. CASE \E w \in Executors : FinishEmpty(w) \/ MarkDraft(w)
    BY <1>6, <2>5
  <2>6. CASE \E w \in Executors, entries \in {0, 1} : CommitExtraction(w, entries)
    <3>1. PICK w \in Executors, entries \in {0, 1} : CommitExtraction(w, entries)
      BY <2>6
    <3> QED
      BY <1>7, <3>1
  <2>7. CASE \E w \in Executors, result \in Results : CommitTranscript(w, result)
    <3>1. PICK w \in Executors, result \in Results : CommitTranscript(w, result)
      BY <2>7
    <3> QED
      BY <1>8, <3>1
  <2> QED
    BY <2>1, <2>2, <2>3, <2>4, <2>5, <2>6, <2>7, RowWriters
<1> QED
  BY <1>9

(* The steps of one executor, and the faults that befall it.               *)
ActsAlone(w) == \/ ExecutorStep(w) \/ RunRaises(w) \/ WorkerCrash(w)
                \/ CrashAfterRetry(w) \/ TimeLimit(w)

(* A step of an executor, or a fault of it, leaves the others alone; the   *)
(* executor ends it holding a lock only if it held it before or has just   *)
(* been granted it.                                                        *)
LEMMA ExecutorLocks ==
  ASSUME TypeOK, RowLockExclusive, NEW w \in Executors, ActsAlone(w)
  PROVE  /\ \A x \in Executors \ {w} :
              pc'[x] = pc[x] /\ job'[x] = job[x] /\ lock'[x] = lock[x]
         /\ lock'[w] = "held" =>
              /\ pc[w] # "idle" /\ pc'[w] # "idle" /\ job'[w] = job[w]
              /\ \/ lock[w] = "held"
                 \/ /\ Live(job[w].meeting) /\ RowUnlocked(job[w].meeting)
                    /\ UNCHANGED status
<1> DEFINE Others == \A x \in Executors \ {w} :
                       pc'[x] = pc[x] /\ job'[x] = job[x] /\ lock'[x] = lock[x]
           Lets == lock'[w] # "held"
           Keeps == /\ pc[w] # "idle" /\ pc'[w] # "idle" /\ job'[w] = job[w]
                    /\ lock'[w] = lock[w]
           Gains == /\ pc[w] # "idle" /\ pc'[w] # "idle" /\ job'[w] = job[w]
                    /\ Live(job[w].meeting) /\ RowUnlocked(job[w].meeting)
                    /\ UNCHANGED status
<1> USE DEF TypeOK, Goto, Unlock, Reset, rowVars
<1>1. ASSUME NEW msg \in Messages, LoadMeeting(w, msg) \/ MeetingNotFound(w, msg)
      PROVE  Others /\ Lets
  BY <1>1 DEF LoadMeeting, MeetingNotFound, Receive, RowLockExclusive
<1>2. CASE MarkExtracting(w)
  <2>1. pc[w] = "loaded" /\ pc'[w] \in {"transcribe", "empty", "llm"}
    BY <1>2 DEF MarkExtracting
  <2> QED
    BY <1>2, <2>1 DEF MarkExtracting
<1>3. ASSUME \/ FinishEmpty(w) \/ Ack(w) \/ RetryTask(w) \/ GiveUp(w)
             \/ MarkLoad(w) \/ MarkDraft(w) \/ MarkNothing(w)
             \/ \E entries \in {0, 1} : CommitExtraction(w, entries)
             \/ \E result \in Results : CommitTranscript(w, result)
      PROVE  Others /\ Lets
  BY <1>3 DEF FinishEmpty, Ack, RetryTask, GiveUp, MarkLoad, MarkDraft, MarkNothing,
              CommitExtraction, CommitTranscript
<1>4. ASSUME RowGone(w) \/ AudioGone(w) \/ RunRaises(w) \/ WorkerCrash(w)
               \/ CrashAfterRetry(w) \/ TimeLimit(w)
      PROVE  Others /\ Lets
  BY <1>4 DEF RowGone, AudioGone, RunRaises, Raise, WorkerCrash, CrashAfterRetry, TimeLimit
<1>5. ASSUME \/ Transcribe(w) \/ SaveTranscript(w) \/ EnqueueAfterTranscription(w)
             \/ \E found \in SUBSET Tasks : ExtractItems(w, found)
      PROVE  Others /\ Keeps
  BY <1>5 DEF Transcribe, SaveTranscript, EnqueueAfterTranscription, ExtractItems
<1>6. Others /\ (Lets \/ Keeps \/ Gains)
  BY <1>1, <1>2, <1>3, <1>4, <1>5 DEF ActsAlone, ExecutorStep
<1> QED
  BY <1>6

(* A step belongs to one executor, to the API process or to nobody.        *)
LEMMA StepOwner ==
  ASSUME [Next]_vars
  PROVE  \/ UNCHANGED execVars
         \/ \E w \in Executors : ActsAlone(w)
         \/ ApiCrash
<1>1. ASSUME NEW r \in Requests, RequestStep(r) \/ NewRequest(r)
      PROVE  UNCHANGED execVars
  BY <1>1 DEF RequestStep, NewRequest, CommitAudio, EnqueueTranscription, TriggerCommit,
              TriggerRowGone, EnqueueExtraction, DeleteObject, DeleteRow, DeleteNothing,
              UploadTranscriptFile, UploadAudio, TriggerLoad, DeleteLoad
<1>2. ASSUME UserStep
      PROVE  UNCHANGED execVars
  BY <1>2 DEF UserStep, CreateMeeting, CompleteItem, ReopenItem, DeleteItem, EditItems
<1>3. CASE UNCHANGED vars
  BY <1>3 DEF vars
<1> QED
  BY <1>1, <1>2, <1>3 DEF Next, FaultStep, ActsAlone

(* The row lock is exclusive, and its row outlives it.                     *)
LEMMA LockStep ==
  ASSUME TypeOK, RowLockExclusive, NamesAreBorn, [Next]_vars
  PROVE  RowLockExclusive'
<1>1. \A m \in Meetings : Live(m) /\ ~Live(m)' => RowUnlocked(m)
  BY RowLife
<1>a. \A w \in Executors : pc[w] # "idle" => job[w].meeting \in Meetings
  BY DEF TypeOK, Messages
<1>2. ASSUME \A w \in Executors : lock'[w] = "held" =>
                 lock[w] = "held" /\ pc'[w] = pc[w] /\ job'[w] = job[w]
      PROVE  RowLockExclusive'
  BY <1>1, <1>2, <1>a DEF RowLockExclusive, RowUnlocked
<1>3. CASE UNCHANGED execVars
  BY <1>2, <1>3 DEF execVars
<1>4. ASSUME NEW w \in Executors, ActsAlone(w)
      PROVE  RowLockExclusive'
  <2>1. CASE lock'[w] # "held" \/ lock[w] = "held"
    BY <1>1, <1>a, <1>4, <2>1, ExecutorLocks DEF RowLockExclusive, RowUnlocked
  <2>2. CASE lock'[w] = "held" /\ lock[w] # "held"
    <3>1. Live(job[w].meeting) /\ RowUnlocked(job[w].meeting) /\ UNCHANGED status
      BY <1>4, <2>2, ExecutorLocks
    <3> QED
      BY <1>4, <2>2, <3>1, ExecutorLocks DEF RowLockExclusive, RowUnlocked, Live
  <2> QED
    BY <2>1, <2>2
<1>5. CASE ApiCrash
  BY <1>2, <1>5 DEF ApiCrash, TypeOK
<1> QED
  BY <1>3, <1>4, <1>5, StepOwner

(* Where a pending message comes from.                                     *)
LEMMA MessageOrigin ==
  ASSUME TypeOK, [Next]_vars, NEW msg \in Messages, pending'[msg] > 0
  PROVE  \/ pending[msg] > 0
         \/ \E r \in Requests : /\ msg.meeting = request[r].meeting
                                /\ \/ Step(r, "enqueue_audio")
                                   \/ Step(r, "enqueue") /\ msg.kind # "transcribe"
         \/ \E w \in Executors : /\ pc[w] # "idle" /\ msg.meeting = job[w].meeting
                                 /\ msg.kind \in {job[w].kind, "extract"}
<1> DEFINE Grows(n) == pending' = [pending EXCEPT ![n] = @ + 1]
<1> USE DEF TypeOK, rowVars, childVars
<1>1. ASSUME NEW n \in Messages, Grows(n), msg # n
      PROVE  pending[msg] > 0
  BY <1>1
<1>2. ASSUME NEW r \in Requests, RequestStep(r) \/ NewRequest(r), ~(pending[msg] > 0)
      PROVE  /\ msg.meeting = request[r].meeting
             /\ \/ Step(r, "enqueue_audio")
                \/ Step(r, "enqueue") /\ msg.kind # "transcribe"
  <2>1. pending' # pending
    BY <1>2
  <2>2. EnqueueTranscription(r) \/ EnqueueExtraction(r)
    BY <1>2, <2>1 DEF RequestStep, NewRequest, CommitAudio, TriggerCommit,
              TriggerRowGone, DeleteObject, DeleteRow, DeleteNothing,
              UploadTranscriptFile, UploadAudio, TriggerLoad, DeleteLoad
  <2>3. CASE EnqueueTranscription(r)
    <3>1. request[r].meeting \in Meetings
      BY <2>3 DEF EnqueueTranscription, Step, NoRequest
    <3>2. msg = Message("transcribe", request[r].meeting, 0)
      BY <1>1, <2>1, <2>3, <3>1, <1>2, FirstTryIsMessage
      DEF EnqueueTranscription, Publish, Kinds
    <3> QED
      BY <2>3, <3>2 DEF EnqueueTranscription, Message
  <2>4. CASE EnqueueExtraction(r)
    <3>1. request[r].meeting \in Meetings
      BY <2>4 DEF EnqueueExtraction, Step, NoRequest
    <3>2. \E k \in {"extract", "inline"} : msg = Message(k, request[r].meeting, 0)
      BY <1>1, <2>1, <2>4, <3>1, <1>2, FirstTryIsMessage
      DEF EnqueueExtraction, Publish, Kinds
    <3> QED
      BY <2>4, <3>2 DEF EnqueueExtraction, Message
  <2> QED
    BY <2>2, <2>3, <2>4
<1>3. ASSUME NEW w \in Executors, ActsAlone(w), ~(pending[msg] > 0)
      PROVE  /\ pc[w] # "idle" /\ msg.meeting = job[w].meeting
             /\ msg.kind \in {job[w].kind, "extract"}
  <2>1. pending' # pending
    BY <1>3
  <2>2. ASSUME NEW n \in Messages, Receive(w, n)
        PROVE  FALSE
    BY <1>3, <2>2 DEF Receive
  <2>3. \/ EnqueueAfterTranscription(w) \/ RetryTask(w) \/ WorkerCrash(w)
        \/ CrashAfterRetry(w)
    BY <1>3, <2>1, <2>2 DEF ActsAlone, ExecutorStep, LoadMeeting, MeetingNotFound,
       MarkExtracting, FinishEmpty, ExtractItems, CommitExtraction, Transcribe,
       SaveTranscript, CommitTranscript, Ack, RowGone, AudioGone, Raise, MarkLoad, MarkDraft,
       MarkNothing, GiveUp, RunRaises, TimeLimit
  <2>4. pc[w] # "idle" /\ job[w] \in Messages /\ job[w].meeting \in Meetings
    BY <2>3 DEF EnqueueAfterTranscription, RetryTask, WorkerCrash, CrashAfterRetry, Messages
  <2>5. CASE EnqueueAfterTranscription(w)
    <3>1. msg = Message("extract", job[w].meeting, 0)
      BY <1>1, <1>3, <2>4, <2>5, FirstTryIsMessage
      DEF EnqueueAfterTranscription, Publish, Kinds
    <3> QED
      BY <2>4, <3>1 DEF Message
  <2>6. CASE RetryTask(w) \/ WorkerCrash(w) \/ CrashAfterRetry(w)
    <3>1. MayRetry(w) => NextTry(job[w]) \in Messages
      BY <2>4, NextTryIsMessage
    <3>2. msg = job[w] \/ msg = NextTry(job[w])
      BY <1>3, <2>4, <2>6, <3>1 DEF RetryTask, WorkerCrash, CrashAfterRetry, Publish
    <3> QED
      BY <2>4, <3>2 DEF NextTry, Message
  <2> QED
    BY <2>3, <2>5, <2>6
<1>4. CASE UserStep \/ UNCHANGED vars
  BY <1>4 DEF UserStep, CreateMeeting, CompleteItem, ReopenItem, DeleteItem, EditItems, vars
<1>5. CASE ApiCrash
  BY <1>5 DEF ApiCrash
<1> QED
  BY <1>2, <1>3, <1>4, <1>5 DEF Next, FaultStep, ActsAlone

(* Where the job of a busy executor comes from.                            *)
LEMMA JobOrigin ==
  ASSUME TypeOK, RowLockExclusive, [Next]_vars, NEW w \in Executors, pc'[w] # "idle"
  PROVE  \/ pc[w] # "idle" /\ job'[w] = job[w]
         \/ job'[w] \in Messages /\ pending[job'[w]] > 0
<1> USE DEF TypeOK, Goto, Unlock, Reset
<1>1. CASE UNCHANGED execVars
  BY <1>1 DEF execVars
<1>2. CASE ApiCrash
  BY <1>2 DEF ApiCrash
<1>3. ASSUME NEW x \in Executors \ {w}, ActsAlone(x)
      PROVE  pc[w] # "idle" /\ job'[w] = job[w]
  BY <1>3, ExecutorLocks
<1>4. CASE ActsAlone(w)
  <2>1. ASSUME NEW msg \in Messages, LoadMeeting(w, msg) \/ MeetingNotFound(w, msg)
        PROVE  job'[w] = msg /\ pending[msg] > 0
    BY <2>1 DEF LoadMeeting, MeetingNotFound, Receive
  <2>2. ASSUME \A msg \in Messages : ~LoadMeeting(w, msg) /\ ~MeetingNotFound(w, msg)
        PROVE  pc'[w] = "idle" \/ (pc[w] # "idle" /\ job'[w] = job[w])
    BY <1>4, <2>2 DEF ActsAlone, ExecutorStep, MarkExtracting, FinishEmpty, ExtractItems,
       CommitExtraction, Transcribe, SaveTranscript, CommitTranscript,
       EnqueueAfterTranscription, Ack, RowGone, AudioGone, Raise, MarkLoad, MarkDraft, MarkNothing,
       RetryTask, GiveUp, RunRaises, WorkerCrash, CrashAfterRetry, TimeLimit
  <2> QED
    BY <2>1, <2>2
<1> QED
  BY <1>1, <1>2, <1>3, <1>4, StepOwner

(* Where a request in progress comes from.                                 *)
LEMMA RequestOrigin ==
  ASSUME TypeOK, [Next]_vars, NEW r \in Requests, ~Step(r, "idle")'
  PROVE  \/ ~Step(r, "idle") /\ request'[r] = request[r]
         \/ /\ request'[r].step \in {"enqueue", "delete_row"}
            /\ ~Step(r, "idle") /\ ~Step(r, "stored")
            /\ request'[r].meeting = request[r].meeting
         \/ Step(r, "stored") /\ CommitAudio(r) /\ Step(r, "enqueue_audio")'
         \/ \E m \in Meetings : UploadAudio(r, m) \/ UploadTranscriptFile(r, m)
         \/ \E m \in Meetings : /\ Live(m) /\ request'[r].meeting = m
                                /\ request'[r].step \in {"trigger", "delete_object"}
                                /\ UNCHANGED status
<1> USE DEF TypeOK, Step, Advance, EndRequest, NoRequest
<1>1. ASSUME request'[r] = request[r]
      PROVE  ~Step(r, "idle") /\ request'[r] = request[r]
  BY <1>1
<1>2. ASSUME NEW q \in Requests \ {r}, RequestStep(q) \/ NewRequest(q)
      PROVE  request'[r] = request[r]
  BY <1>2 DEF RequestStep, NewRequest, CommitAudio, EnqueueTranscription, TriggerCommit,
              TriggerRowGone, EnqueueExtraction, DeleteObject, DeleteRow, DeleteNothing,
              UploadTranscriptFile, UploadAudio, TriggerLoad, DeleteLoad
<1>3. CASE RequestStep(r)
  <2>1. CASE CommitAudio(r)
    BY <2>1 DEF CommitAudio
  <2>2. CASE TriggerCommit(r) \/ DeleteObject(r)
    BY <2>2 DEF TriggerCommit, DeleteObject
  <2>3. CASE \/ EnqueueTranscription(r) \/ TriggerRowGone(r) \/ EnqueueExtraction(r)
             \/ DeleteRow(r) \/ DeleteNothing(r)
    BY <2>3 DEF EnqueueTranscription, TriggerRowGone, EnqueueExtraction, DeleteRow,
                DeleteNothing
  <2> QED
    BY <1>3, <2>1, <2>2, <2>3 DEF RequestStep
<1>4. CASE NewRequest(r)
  <2>1. ASSUME NEW m \in Meetings, TriggerLoad(r, m) \/ DeleteLoad(r, m)
        PROVE  /\ Live(m) /\ request'[r].meeting = m
               /\ request'[r].step \in {"trigger", "delete_object"}
               /\ UNCHANGED status
    BY <2>1 DEF TriggerLoad, DeleteLoad, Live, LiveStatuses, rowVars
  <2> QED
    BY <1>4, <2>1 DEF NewRequest
<1>5. ASSUME NEW w \in Executors, ActsAlone(w)
      PROVE  UNCHANGED request
  BY <1>5 DEF ActsAlone, ExecutorStep, LoadMeeting, MeetingNotFound, MarkExtracting,
     FinishEmpty, ExtractItems, CommitExtraction, Transcribe, SaveTranscript,
     CommitTranscript, EnqueueAfterTranscription, Ack, RowGone, AudioGone, Raise, MarkLoad, MarkDraft,
     MarkNothing, RetryTask, GiveUp, RunRaises, WorkerCrash, CrashAfterRetry, TimeLimit
<1>6. CASE UserStep \/ UNCHANGED vars
  BY <1>6 DEF UserStep, CreateMeeting, CompleteItem, ReopenItem, DeleteItem, EditItems, vars
<1>7. CASE ApiCrash
  BY <1>7 DEF ApiCrash
<1> QED
  BY <1>1, <1>2, <1>3, <1>4, <1>5, <1>6, <1>7 DEF Next, FaultStep, ActsAlone

(* Nobody takes the id, or the object, of an upload that waits for its row. *)
LEMMA StoredUploadStep ==
  ASSUME TypeOK, NamesAreBorn, [Next]_vars,
         NEW r \in Requests, Step(r, "stored"), ~CommitAudio(r)
  PROVE  LET m == request[r].meeting IN status'[m] = "unborn" /\ "audio" \in objects'[m]
<1> DEFINE m == request[r].meeting
<1> USE DEF TypeOK
<1>1. m \in Meetings /\ Uncreated(m) /\ "audio" \in objects[m]
  BY DEF NamesAreBorn, Step, NoRequest
<1>2. status'[m] = "unborn"
  <2>1. ASSUME NEW n \in Meetings, NEW hasText \in BOOLEAN, CreateMeeting(n, hasText)
        PROVE  n # m /\ status'[m] = status[m]
    BY <1>1, <2>1 DEF CreateMeeting, MayCreate
  <2>2. ASSUME NEW q \in Requests, NEW n \in Meetings, UploadTranscriptFile(q, n)
        PROVE  n # m /\ status'[m] = status[m]
    BY <1>1, <2>2 DEF UploadTranscriptFile, MayCreate
  <2>3. ASSUME NEW q \in Requests, CommitAudio(q)
        PROVE  status'[m] = status[m]
    <3>1. q # r /\ Step(q, "stored")
      BY <2>3 DEF CommitAudio
    <3> QED
      BY <2>3, <3>1, <1>1 DEF CommitAudio, NamesAreBorn
  <2>4. ASSUME NEW q \in Requests, TriggerCommit(q) \/ DeleteRow(q)
        PROVE  status'[m] = status[m]
    BY <1>1, <2>4 DEF TriggerCommit, DeleteRow, Live, LiveStatuses, Uncreated
  <2>5. ASSUME NEW w \in Executors, FinishEmpty(w) \/ MarkDraft(w)
        PROVE  status'[m] = status[m]
    BY <1>1, <2>5 DEF FinishEmpty, MarkDraft, MayUpdateRow, Live, LiveStatuses, Uncreated
  <2>6. ASSUME NEW w \in Executors, NEW entries \in {0, 1}, CommitExtraction(w, entries)
        PROVE  status'[m] = status[m]
    BY <1>1, <2>6 DEF CommitExtraction, MayUpdateRow, Live, LiveStatuses, Uncreated
  <2>7. ASSUME NEW w \in Executors, NEW result \in Results, CommitTranscript(w, result)
        PROVE  status'[m] = status[m]
    BY <1>1, <2>7 DEF CommitTranscript, MayUpdateRow, Live, LiveStatuses, Uncreated
  <2>8. CASE UNCHANGED rowVars
    BY <1>1, <2>8 DEF rowVars, Uncreated
  <2>9. status'[m] = status[m]
    BY <2>1, <2>2, <2>3, <2>4, <2>5, <2>6, <2>7, <2>8, RowWriters DEF rowVars
  <2> QED
    BY <1>1, <2>9 DEF Uncreated
<1>3. "audio" \in objects'[m]
  <2>1. ASSUME NEW q \in Requests, DeleteObject(q)
        PROVE  "audio" \in objects'[m]
    <3>1. request[q].meeting # m
      BY <1>1, <2>1 DEF DeleteObject, NamesAreBorn, Step
    <3> QED
      BY <1>1, <2>1, <3>1 DEF DeleteObject
  <2>2. ASSUME NEW q \in Requests, NEW n \in Meetings, UploadAudio(q, n)
        PROVE  "audio" \in objects'[m]
    BY <1>1, <2>2 DEF UploadAudio
  <2>3. ASSUME NEW w \in Executors, SaveTranscript(w)
        PROVE  "audio" \in objects'[m]
    BY <1>1, <2>3 DEF SaveTranscript
  <2>4. \/ UNCHANGED objects
        \/ \E q \in Requests : DeleteObject(q) \/ \E n \in Meetings : UploadAudio(q, n)
        \/ \E w \in Executors : SaveTranscript(w)
    <3>1. ASSUME NEW q \in Requests, RequestStep(q) \/ NewRequest(q)
          PROVE  \/ UNCHANGED objects
                 \/ DeleteObject(q) \/ \E n \in Meetings : UploadAudio(q, n)
      BY <3>1 DEF RequestStep, NewRequest, CommitAudio, EnqueueTranscription,
         TriggerCommit, TriggerRowGone, EnqueueExtraction, DeleteRow, DeleteNothing,
         UploadTranscriptFile, TriggerLoad, DeleteLoad
    <3>2. ASSUME NEW w \in Executors, ActsAlone(w)
          PROVE  UNCHANGED objects \/ SaveTranscript(w)
      BY <3>2 DEF ActsAlone, ExecutorStep, LoadMeeting, MeetingNotFound, MarkExtracting,
         FinishEmpty, ExtractItems, CommitExtraction, Transcribe, CommitTranscript,
         EnqueueAfterTranscription, Ack, RowGone, AudioGone, Raise, MarkLoad, MarkDraft,
         MarkNothing, RetryTask, GiveUp, RunRaises, WorkerCrash, CrashAfterRetry, TimeLimit
    <3>3. CASE UserStep \/ ApiCrash \/ UNCHANGED vars
      BY <3>3 DEF UserStep, CreateMeeting, CompleteItem, ReopenItem, DeleteItem, EditItems,
         ApiCrash, vars
    <3> QED
      BY <3>1, <3>2, <3>3 DEF Next, FaultStep, ActsAlone
  <2> QED
    BY <1>1, <2>1, <2>2, <2>3, <2>4
<1> QED
  BY <1>2, <1>3

(* Ids stay fresh.                                                         *)
LEMMA NamesStep ==
  ASSUME TypeOK, RowLockExclusive, NamesAreBorn, [Next]_vars
  PROVE  NamesAreBorn'
<1> USE DEF TypeOK
<1>1. \A m \in Meetings : ~Uncreated(m) => ~Uncreated(m)'
  BY RowLife
<1>2. ASSUME NEW msg \in Messages, pending'[msg] > 0
      PROVE  ~Uncreated(msg.meeting)'
  <2>1. msg.meeting \in Meetings
    BY DEF Messages
  <2>2. ~Uncreated(msg.meeting)
    BY <1>2, <2>1, MessageOrigin DEF NamesAreBorn, Step
  <2> QED
    BY <1>1, <2>1, <2>2
<1>3. ASSUME NEW w \in Executors, pc'[w] # "idle"
      PROVE  ~Uncreated(job[w].meeting)'
  <2>1. job'[w] \in Messages /\ ~Uncreated(job'[w].meeting)
    BY <1>3, JobOrigin DEF NamesAreBorn
  <2> QED
    BY <1>1, <2>1 DEF Messages, Uncreated
<1>4. ASSUME NEW r \in Requests, ~Step(r, "idle")', ~Step(r, "stored")'
      PROVE  ~Uncreated(request[r].meeting)'
  <2>1. CASE /\ ~Step(r, "idle") /\ ~Step(r, "stored")
             /\ request'[r].meeting = request[r].meeting
    <3>1. request[r].meeting \in Meetings
      BY <2>1 DEF Step, NoRequest
    <3> QED
      BY <1>1, <2>1, <3>1 DEF NamesAreBorn, Uncreated
  <2>2. CASE CommitAudio(r)
    BY <2>2 DEF CommitAudio, Advance, Step, NoRequest, Uncreated
  <2>3. ASSUME NEW m \in Meetings, UploadTranscriptFile(r, m)
        PROVE  ~Uncreated(request[r].meeting)'
    BY <2>3 DEF UploadTranscriptFile, Advance, Uncreated
  <2>4. ASSUME NEW m \in Meetings, UploadAudio(r, m)
        PROVE  FALSE
    BY <2>4, <1>4 DEF UploadAudio, Advance, Step
  <2>5. CASE \E m \in Meetings : Live(m) /\ request'[r].meeting = m /\ UNCHANGED status
    BY <2>5 DEF Live, LiveStatuses, Uncreated
  <2> QED
    BY <1>4, <2>1, <2>2, <2>3, <2>4, <2>5, RequestOrigin DEF Step
<1>5. ASSUME NEW r \in Requests, Step(r, "stored")'
      PROVE  \/ Step(r, "stored") /\ request'[r] = request[r] /\ ~CommitAudio(r)
             \/ \E m \in Meetings : UploadAudio(r, m)
  <2>1. ASSUME CommitAudio(r)
        PROVE  FALSE
    BY <1>5, <2>1 DEF CommitAudio, Advance, Step
  <2>2. ASSUME NEW m \in Meetings, UploadTranscriptFile(r, m)
        PROVE  FALSE
    BY <1>5, <2>2 DEF UploadTranscriptFile, Advance, Step
  <2> QED
    BY <1>5, <2>1, <2>2, RequestOrigin DEF Step
<1>6. ASSUME NEW r \in Requests, Step(r, "stored")'
      PROVE  Uncreated(request[r].meeting)' /\ "audio" \in objects'[request'[r].meeting]
  <2>1. CASE Step(r, "stored") /\ request'[r] = request[r] /\ ~CommitAudio(r)
    BY <2>1, StoredUploadStep DEF Uncreated
  <2>2. ASSUME NEW m \in Meetings, UploadAudio(r, m)
        PROVE  Uncreated(request[r].meeting)' /\ "audio" \in objects'[request'[r].meeting]
    BY <2>2 DEF UploadAudio, MayCreate, Advance, Uncreated, rowVars
  <2> QED
    BY <1>5, <1>6, <2>1, <2>2
<1>7. ASSUME NEW r \in Requests, NEW q \in Requests \ {r},
             Step(r, "stored")', Step(q, "stored")'
      PROVE  request'[q].meeting # request'[r].meeting
  <2>1. ASSUME NEW x \in Requests, NEW y \in Requests \ {x}, NEW m \in Meetings,
               UploadAudio(x, m), Step(y, "stored")'
        PROVE  request'[y].meeting # m /\ request'[x].meeting = m
    BY <2>1 DEF UploadAudio, MayCreate, Advance, Step, NamesAreBorn
  <2>2. CASE \/ \E m \in Meetings : UploadAudio(r, m)
             \/ \E m \in Meetings : UploadAudio(q, m)
    BY <1>7, <2>1, <2>2
  <2>3. CASE /\ Step(r, "stored") /\ request'[r] = request[r]
             /\ Step(q, "stored") /\ request'[q] = request[q]
    BY <2>3 DEF NamesAreBorn
  <2> QED
    BY <1>5, <1>7, <2>2, <2>3
<1> QED
  BY <1>2, <1>3, <1>4, <1>6, <1>7 DEF NamesAreBorn

(* Only audio uploads are transcribed.                                     *)
LEMMA TranscribesStep ==
  ASSUME TypeOK, RowLockExclusive, NamesAreBorn, TranscribesAudioOnly, [Next]_vars
  PROVE  TranscribesAudioOnly'
<1> USE DEF TypeOK
<1>1. \A m \in Meetings : ~Uncreated(m) /\ AudioOrDeleted(m) => AudioOrDeleted(m)'
  BY RowLife DEF AudioOrDeleted
<1>2. ASSUME NEW msg \in Messages, msg.kind = "transcribe", pending'[msg] > 0
      PROVE  AudioOrDeleted(msg.meeting)'
  <2>1. msg.meeting \in Meetings
    BY DEF Messages
  <2>2. ~Uncreated(msg.meeting) /\ AudioOrDeleted(msg.meeting)
    BY <1>2, <2>1, MessageOrigin DEF NamesAreBorn, TranscribesAudioOnly, Step
  <2> QED
    BY <1>1, <2>1, <2>2
<1>3. ASSUME NEW w \in Executors, pc'[w] # "idle", job'[w].kind = "transcribe"
      PROVE  AudioOrDeleted(job[w].meeting)'
  <2>1. /\ job'[w] \in Messages /\ ~Uncreated(job'[w].meeting)
        /\ AudioOrDeleted(job'[w].meeting)
    BY <1>3, JobOrigin DEF NamesAreBorn, TranscribesAudioOnly
  <2> QED
    BY <1>1, <2>1 DEF Messages, AudioOrDeleted
<1>4. ASSUME NEW r \in Requests, Step(r, "enqueue_audio")'
      PROVE  AudioOrDeleted(request[r].meeting)'
  <2>1. CASE CommitAudio(r)
    BY <2>1 DEF CommitAudio, Advance, Step, NoRequest, AudioOrDeleted
  <2>2. CASE Step(r, "enqueue_audio") /\ request'[r] = request[r]
    <3>1. request[r].meeting \in Meetings
      BY <2>2 DEF Step, NoRequest
    <3> QED
      BY <1>1, <2>2, <3>1 DEF NamesAreBorn, TranscribesAudioOnly, Step, AudioOrDeleted
  <2>3. ASSUME NEW m \in Meetings, UploadTranscriptFile(r, m) \/ UploadAudio(r, m)
        PROVE  FALSE
    BY <1>4, <2>3 DEF UploadTranscriptFile, UploadAudio, Advance, Step
  <2> QED
    BY <1>4, <2>1, <2>2, <2>3, RequestOrigin DEF Step
<1> QED
  BY <1>2, <1>3, <1>4 DEF TranscribesAudioOnly

(* No row is left, or put, under a meeting that is not there.              *)
LEMMA OrphansStep ==
  ASSUME TypeOK, NamesAreBorn, NoOrphanRows, [Next]_vars
  PROVE  NoOrphanRows'
<1> USE DEF TypeOK
<1> DEFINE Bare(m) == /\ openItems[m] = NoItems /\ doneItems[m] = NoItems
                      /\ knowledge[m] = 0 /\ runs[m] = {}
<1> SUFFICES ASSUME NEW m \in Meetings, ~Live(m)'
             PROVE  Bare(m)'
  BY DEF NoOrphanRows
<1>1. CASE Live(m)
  <2>1. ASSUME NEW r \in Requests, DeleteRow(r)
        PROVE  Bare(m)'
    BY <1>1, <2>1 DEF DeleteRow, Cascade, Live, LiveStatuses
  <2>2. ASSUME \A r \in Requests : ~DeleteRow(r)
        PROVE  Live(m)'
    <3>1. ASSUME NEW n \in Meetings, NEW hasText \in BOOLEAN, CreateMeeting(n, hasText)
          PROVE  Live(m)'
      BY <1>1, <3>1 DEF CreateMeeting, Live, LiveStatuses
    <3>2. ASSUME NEW r \in Requests, NEW n \in Meetings, UploadTranscriptFile(r, n)
          PROVE  Live(m)'
      BY <1>1, <3>2 DEF UploadTranscriptFile, Live, LiveStatuses
    <3>3. ASSUME NEW r \in Requests, CommitAudio(r) \/ TriggerCommit(r)
          PROVE  Live(m)'
      BY <1>1, <3>3 DEF CommitAudio, TriggerCommit, Live, LiveStatuses
    <3>4. ASSUME NEW w \in Executors, FinishEmpty(w) \/ MarkDraft(w)
          PROVE  Live(m)'
      BY <1>1, <3>4 DEF FinishEmpty, MarkDraft, Live, LiveStatuses
    <3>5. ASSUME NEW w \in Executors, NEW entries \in {0, 1}, CommitExtraction(w, entries)
          PROVE  Live(m)'
      BY <1>1, <3>5 DEF CommitExtraction, Live, LiveStatuses
    <3>6. ASSUME NEW w \in Executors, NEW result \in Results, CommitTranscript(w, result)
          PROVE  Live(m)'
      BY <1>1, <3>6 DEF CommitTranscript, Live, LiveStatuses
    <3>7. CASE UNCHANGED rowVars
      BY <1>1, <3>7 DEF rowVars, Live
    <3> QED
      BY <2>2, <3>1, <3>2, <3>3, <3>4, <3>5, <3>6, <3>7, RowWriters
  <2> QED
    BY <2>1, <2>2
<1>2. CASE ~Live(m)
  <2>a. Bare(m)
    BY <1>2 DEF NoOrphanRows
  <2>1. ASSUME NEW n \in Meetings, NEW t \in Tasks,
               CompleteItem(n, t) \/ ReopenItem(n, t) \/ DeleteItem(n, t)
        PROVE  Bare(m)'
    <3>1. n # m
      BY <2>a, <2>1 DEF CompleteItem, ReopenItem, DeleteItem, NoItems
    <3> QED
      BY <2>a, <2>1, <3>1 DEF CompleteItem, ReopenItem, DeleteItem, EditItems
  <2>2. ASSUME NEW r \in Requests, DeleteRow(r)
        PROVE  Bare(m)'
    BY <2>a, <2>2 DEF DeleteRow, Cascade
  <2>3. ASSUME NEW w \in Executors, MarkDraft(w)
        PROVE  Bare(m)'
    BY <1>2, <2>a, <2>3 DEF MarkDraft
  <2>4. ASSUME NEW w \in Executors, NEW entries \in {0, 1}, CommitExtraction(w, entries)
        PROVE  Bare(m)'
    BY <1>2, <2>a, <2>4 DEF CommitExtraction, MayUpdateRow
  <2>5. CASE UNCHANGED childVars
    BY <2>a, <2>5 DEF childVars
  <2> QED
    BY <2>1, <2>2, <2>3, <2>4, <2>5, ChildWriters
<1> QED
  BY <1>1, <1>2

(* A file upload falls back to draft only with an error run.               *)
LEMMA FailureStep ==
  ASSUME TypeOK, TranscribesAudioOnly, FileFailureVisible, [Next]_vars
  PROVE  FileFailureVisible'
<1> USE DEF TypeOK
<1> SUFFICES ASSUME NEW m \in Meetings, source'[m] = "file", status'[m] = "draft"
             PROVE  "error" \in runs'[m]
  BY DEF FileFailureVisible
<1>1. ASSUME source[m] = "file", status[m] = "draft"
      PROVE  "error" \in runs'[m]
  <2>1. "error" \in runs[m]
    BY <1>1 DEF FileFailureVisible
  <2>2. ASSUME NEW r \in Requests, DeleteRow(r)
        PROVE  "error" \in runs'[m]
    BY <2>1, <2>2 DEF DeleteRow, Cascade
  <2>3. ASSUME NEW w \in Executors, MarkDraft(w)
        PROVE  "error" \in runs'[m]
    BY <2>1, <2>3 DEF MarkDraft
  <2>4. ASSUME NEW w \in Executors, NEW entries \in {0, 1}, CommitExtraction(w, entries)
        PROVE  "error" \in runs'[m]
    BY <2>1, <2>4 DEF CommitExtraction
  <2>5. ASSUME NEW n \in Meetings, NEW t \in Tasks,
               CompleteItem(n, t) \/ ReopenItem(n, t) \/ DeleteItem(n, t)
        PROVE  "error" \in runs'[m]
    BY <2>1, <2>5 DEF CompleteItem, ReopenItem, DeleteItem, EditItems
  <2> QED
    BY <2>1, <2>2, <2>3, <2>4, <2>5, ChildWriters DEF childVars
<1>2. ASSUME ~(source[m] = "file" /\ status[m] = "draft")
      PROVE  "error" \in runs'[m]
  <2>1. ASSUME NEW n \in Meetings, NEW hasText \in BOOLEAN, CreateMeeting(n, hasText)
        PROVE  FALSE
    BY <1>2, <2>1 DEF CreateMeeting
  <2>2. ASSUME NEW r \in Requests, NEW n \in Meetings, UploadTranscriptFile(r, n)
        PROVE  FALSE
    BY <1>2, <2>2 DEF UploadTranscriptFile
  <2>3. ASSUME NEW r \in Requests, CommitAudio(r) \/ TriggerCommit(r) \/ DeleteRow(r)
        PROVE  FALSE
    BY <1>2, <2>3 DEF CommitAudio, TriggerCommit, DeleteRow
  <2>4. ASSUME NEW w \in Executors, FinishEmpty(w)
        PROVE  FALSE
    BY <1>2, <2>4 DEF FinishEmpty
  <2>5. ASSUME NEW w \in Executors, NEW entries \in {0, 1}, CommitExtraction(w, entries)
        PROVE  FALSE
    BY <1>2, <2>5 DEF CommitExtraction
  <2>6. ASSUME NEW w \in Executors, NEW result \in Results, CommitTranscript(w, result)
        PROVE  FALSE
    BY <1>2, <2>6 DEF CommitTranscript
  <2>7. ASSUME NEW w \in Executors, MarkDraft(w)
        PROVE  "error" \in runs'[m]
    <3>1. job[w].meeting = m /\ Live(m) /\ source[m] = "file"
      BY <1>2, <2>7 DEF MarkDraft
    <3>2. job[w].kind # "transcribe"
      BY <2>7, <3>1 DEF MarkDraft, TranscribesAudioOnly, AudioOrDeleted, Live, LiveStatuses
    <3> QED
      BY <2>7, <3>1, <3>2 DEF MarkDraft, FailureRecord
  <2>8. CASE UNCHANGED rowVars
    BY <1>2, <2>8 DEF rowVars
  <2> QED
    BY <2>1, <2>2, <2>3, <2>4, <2>5, <2>6, <2>7, <2>8, RowWriters
<1> QED
  BY <1>1, <1>2
-----------------------------------------------------------------------------
(* The inductive invariant and what follows from it *)

(* The inductive invariant holds before the first meeting is created.      *)
LEMMA PipelineInit == Init => PipelineInv
BY DEF Init, PipelineInv, RowLockExclusive, NamesAreBorn, TranscribesAudioOnly,
       NoOrphanRows, FileFailureVisible, Live, LiveStatuses, Step, NoRequest

(* Every step of a well-typed pipeline keeps the inductive invariant.      *)
LEMMA PipelineStep ==
  ASSUME TypeOK, PipelineInv, [Next]_vars
  PROVE  PipelineInv'
BY LockStep, NamesStep, TranscribesStep, OrphansStep, FailureStep DEF PipelineInv

(* The inductive invariant holds throughout: locks are exclusive, ids are  *)
(* fresh, only audio is transcribed, and the two results below.            *)
THEOREM PipelineInvariant == Spec => []PipelineInv
BY PipelineInit, PipelineStep, TypeCorrect, PTL DEF Spec

(* Whatever runs, retries and crashes, deleting a meeting leaves no items, *)
(* entries or runs behind, and none appear later (extraction_worker.py,    *)
(* delete_meeting).                                                        *)
THEOREM NoOrphans == Spec => []NoOrphanRows
<1>1. PipelineInv => NoOrphanRows
  BY DEF PipelineInv
<1> QED
  BY <1>1, PipelineInvariant, PTL

(* Whatever fails, an uploaded transcript that is back in draft has an     *)
(* error for the status endpoint to show (upload.py, get_upload_status).   *)
THEOREM FileFailuresShow == Spec => []FileFailureVisible
<1>1. PipelineInv => FileFailureVisible
  BY DEF PipelineInv
<1> QED
  BY <1>1, PipelineInvariant, PTL

-----------------------------------------------------------------------------
(* What a run knows of its meeting at the places it goes through *)

WritingSteps == {"transcribe", "save", "commit", "enqueue"}

(* How a run gets to the places that matter below: it is loaded, branches  *)
(* in MarkExtracting, or goes on with its transcription.                   *)
LEMMA PlaceOrigin ==
  ASSUME TypeOK, RowLockExclusive, [Next]_vars, NEW w \in Executors,
         pc'[w] \in WritingSteps \cup {"loaded", "empty"}
  PROVE  \/ pc'[w] = pc[w] /\ job'[w] = job[w] /\ input'[w] = input[w]
         \/ pc'[w] = "loaded" /\ \E msg \in Messages : LoadMeeting(w, msg)
         \/ MarkExtracting(w)
         \/ \/ pc[w] = "transcribe" /\ Transcribe(w)
            \/ pc[w] = "save" /\ SaveTranscript(w)
            \/ pc[w] = "commit" /\ \E result \in Results : CommitTranscript(w, result)
<1> USE DEF TypeOK, WritingSteps, Goto, Unlock, Reset
<1>1. CASE UNCHANGED execVars
  BY <1>1 DEF execVars
<1>2. CASE ApiCrash
  BY <1>2 DEF ApiCrash
<1>3. ASSUME NEW x \in Executors \ {w}, ActsAlone(x)
      PROVE  pc'[w] = pc[w] /\ job'[w] = job[w] /\ input'[w] = input[w]
  <2>1. pc'[w] = pc[w] /\ job'[w] = job[w]
    BY <1>3, ExecutorLocks
  <2>2. input'[w] = input[w]
    BY <1>3 DEF ActsAlone, ExecutorStep, LoadMeeting, MeetingNotFound, MarkExtracting,
       FinishEmpty, ExtractItems, CommitExtraction, Transcribe, SaveTranscript,
       CommitTranscript, EnqueueAfterTranscription, Ack, RowGone, AudioGone, Raise,
       MarkLoad, MarkDraft, MarkNothing, RetryTask, GiveUp, RunRaises, WorkerCrash,
       CrashAfterRetry, TimeLimit
  <2> QED
    BY <2>1, <2>2
<1>4. CASE ActsAlone(w)
  <2>1. ASSUME NEW msg \in Messages, MeetingNotFound(w, msg)
        PROVE  FALSE
    BY <2>1 DEF MeetingNotFound
  <2>2. ASSUME \/ FinishEmpty(w) \/ EnqueueAfterTranscription(w) \/ Ack(w) \/ RowGone(w)
               \/ AudioGone(w) \/ MarkLoad(w) \/ MarkDraft(w) \/ MarkNothing(w)
               \/ RetryTask(w) \/ GiveUp(w) \/ RunRaises(w) \/ WorkerCrash(w)
               \/ CrashAfterRetry(w) \/ TimeLimit(w)
               \/ \E found \in SUBSET Tasks : ExtractItems(w, found)
               \/ \E entries \in {0, 1} : CommitExtraction(w, entries)
        PROVE  FALSE
    BY <2>2 DEF FinishEmpty, EnqueueAfterTranscription, Ack, RowGone, AudioGone, Raise,
       MarkLoad, MarkDraft, MarkNothing, RetryTask, GiveUp, RunRaises, WorkerCrash,
       CrashAfterRetry, TimeLimit, ExtractItems, CommitExtraction
  <2>3. CASE \E msg \in Messages : LoadMeeting(w, msg)
    BY <2>3 DEF LoadMeeting
  <2>4. CASE Transcribe(w) \/ SaveTranscript(w)
    BY <2>4 DEF Transcribe, SaveTranscript
  <2>5. CASE \E result \in Results : CommitTranscript(w, result)
    BY <2>5 DEF CommitTranscript
  <2> QED
    BY <1>4, <2>1, <2>2, <2>3, <2>4, <2>5 DEF ActsAlone, ExecutorStep
<1> QED
  BY <1>1, <1>2, <1>3, <1>4, StepOwner

(* Only runs of tasks.transcribe_audio get to the steps of transcription.  *)
TranscribersOnly ==
  \A w \in Executors : pc[w] \in WritingSteps => job[w].kind = "transcribe"

(* A run that is, or goes on to be, one with nothing to extract from.      *)
NothingToExtract(w) ==
  \/ pc[w] = "empty"
  \/ pc[w] = "loaded" /\ job[w].kind # "transcribe" /\ input[w] = "none"

(* A meeting pasted without a text, for which none will ever arrive.       *)
Textless(m) == source[m] = "paste" /\ ~transcript[m]

(* The strengthening behind ExtractedHasRun: a row that names neither text *)
(* nor object is a pasted one, so a run that finds nothing to extract from *)
(* is about a meeting that stays without text, and what else says          *)
(* "extracted" has its run.                                                *)
RunInv ==
  /\ TranscribersOnly
  /\ \A m \in Meetings : Live(m) => source[m] = "paste" \/ transcript[m] \/ ref[m] # "none"
  /\ \A w \in Executors : NothingToExtract(w) =>
       status[job[w].meeting] = "deleted" \/ Textless(job[w].meeting)
  /\ \A m \in Meetings : status[m] = "extracted" => "ok" \in runs[m] \/ Textless(m)

(* No run changes its kind, and the kind decides the way it takes.         *)
LEMMA TranscribersStep ==
  ASSUME TypeOK, RowLockExclusive, TranscribersOnly, [Next]_vars
  PROVE  TranscribersOnly'
<1> SUFFICES ASSUME NEW w \in Executors, pc'[w] \in WritingSteps
             PROVE  job'[w].kind = "transcribe"
  BY DEF TranscribersOnly
<1> USE DEF TypeOK, WritingSteps, Goto
<1>1. CASE MarkExtracting(w)
  BY <1>1 DEF MarkExtracting
<1>2. CASE Transcribe(w) \/ SaveTranscript(w)
  BY <1>2 DEF Transcribe, SaveTranscript, TranscribersOnly
<1>3. ASSUME NEW result \in Results, CommitTranscript(w, result)
      PROVE  job'[w].kind = "transcribe"
  BY <1>3 DEF CommitTranscript, TranscribersOnly
<1>4. CASE pc'[w] = pc[w] /\ job'[w] = job[w]
  BY <1>4 DEF TranscribersOnly
<1> QED
  BY <1>1, <1>2, <1>3, <1>4, PlaceOrigin

(* A transcript is committed only to the row of an audio upload.           *)
LEMMA TranscriptOfAudio ==
  ASSUME TypeOK, TranscribesAudioOnly, TranscribersOnly, NEW w \in Executors,
         NEW result \in Results, CommitTranscript(w, result)
  PROVE  source[job[w].meeting] = "audio" /\ Live(job[w].meeting)
BY DEF CommitTranscript, MayUpdateRow, TranscribersOnly, TranscribesAudioOnly, WritingSteps,
       AudioOrDeleted, Live, LiveStatuses

(* A pasted meeting without a text stays one until it is deleted.          *)
LEMMA TextlessStep ==
  ASSUME TypeOK, NamesAreBorn, TranscribesAudioOnly, TranscribersOnly, [Next]_vars,
         NEW m \in Meetings, ~Uncreated(m), Textless(m)
  PROVE  status'[m] = "deleted" \/ Textless(m)'
<1> USE DEF TypeOK, Textless, Uncreated
<1>1. ASSUME NEW n \in Meetings, NEW hasText \in BOOLEAN, CreateMeeting(n, hasText)
      PROVE  Textless(m)'
  BY <1>1 DEF CreateMeeting, MayCreate
<1>2. ASSUME NEW r \in Requests, NEW n \in Meetings, UploadTranscriptFile(r, n)
      PROVE  Textless(m)'
  BY <1>2 DEF UploadTranscriptFile, MayCreate
<1>3. ASSUME NEW r \in Requests, CommitAudio(r)
      PROVE  Textless(m)'
  BY <1>3 DEF CommitAudio, NamesAreBorn, Step
<1>4. ASSUME NEW r \in Requests, TriggerCommit(r)
      PROVE  Textless(m)'
  BY <1>4 DEF TriggerCommit
<1>5. ASSUME NEW r \in Requests, DeleteRow(r)
      PROVE  status'[m] = "deleted" \/ Textless(m)'
  BY <1>5 DEF DeleteRow
<1>6. ASSUME NEW w \in Executors, FinishEmpty(w) \/ MarkDraft(w)
      PROVE  Textless(m)'
  BY <1>6 DEF FinishEmpty, MarkDraft
<1>7. ASSUME NEW w \in Executors, NEW entries \in {0, 1}, CommitExtraction(w, entries)
      PROVE  Textless(m)'
  BY <1>7 DEF CommitExtraction
<1>8. ASSUME NEW w \in Executors, NEW result \in Results, CommitTranscript(w, result)
      PROVE  Textless(m)'
  BY <1>8, TranscriptOfAudio DEF CommitTranscript
<1>9. CASE UNCHANGED rowVars
  BY <1>9 DEF rowVars
<1> QED
  BY <1>1, <1>2, <1>3, <1>4, <1>5, <1>6, <1>7, <1>8, <1>9, RowWriters

(* A live row that was not pasted names a text or an object.               *)
LEMMA RowsNameSomething ==
  ASSUME TypeOK, RunInv, [Next]_vars
  PROVE  \A m \in Meetings :
           Live(m)' => source'[m] = "paste" \/ transcript'[m] \/ ref'[m] # "none"
<1> SUFFICES ASSUME NEW m \in Meetings, Live(m)'
             PROVE  source'[m] = "paste" \/ transcript'[m] \/ ref'[m] # "none"
  OBVIOUS
<1> USE DEF TypeOK, Live, LiveStatuses
<1>a. Live(m) => source[m] = "paste" \/ transcript[m] \/ ref[m] # "none"
  BY DEF RunInv
<1>1. ASSUME NEW n \in Meetings, NEW hasText \in BOOLEAN, CreateMeeting(n, hasText)
      PROVE  source'[m] = "paste" \/ transcript'[m] \/ ref'[m] # "none"
  BY <1>a, <1>1 DEF CreateMeeting
<1>2. ASSUME NEW r \in Requests, NEW n \in Meetings, UploadTranscriptFile(r, n)
      PROVE  source'[m] = "paste" \/ transcript'[m] \/ ref'[m] # "none"
  BY <1>a, <1>2 DEF UploadTranscriptFile
<1>3. ASSUME NEW r \in Requests, CommitAudio(r) \/ TriggerCommit(r) \/ DeleteRow(r)
      PROVE  source'[m] = "paste" \/ transcript'[m] \/ ref'[m] # "none"
  BY <1>a, <1>3 DEF CommitAudio, TriggerCommit, DeleteRow
<1>4. ASSUME NEW w \in Executors, FinishEmpty(w) \/ MarkDraft(w)
      PROVE  source'[m] = "paste" \/ transcript'[m] \/ ref'[m] # "none"
  BY <1>a, <1>4 DEF FinishEmpty, MarkDraft, MayUpdateRow
<1>5. ASSUME NEW w \in Executors, NEW entries \in {0, 1}, CommitExtraction(w, entries)
      PROVE  source'[m] = "paste" \/ transcript'[m] \/ ref'[m] # "none"
  BY <1>a, <1>5 DEF CommitExtraction, MayUpdateRow
<1>6. ASSUME NEW w \in Executors, NEW result \in Results, CommitTranscript(w, result)
      PROVE  source'[m] = "paste" \/ transcript'[m] \/ ref'[m] # "none"
  BY <1>a, <1>6 DEF CommitTranscript, MayUpdateRow
<1>7. CASE UNCHANGED rowVars
  BY <1>a, <1>7 DEF rowVars
<1> QED
  BY <1>1, <1>2, <1>3, <1>4, <1>5, <1>6, <1>7, RowWriters

(* A run finds nothing to extract from only in a pasted meeting without a  *)
(* text, and that is still so when it commits.                             *)
LEMMA NothingStep ==
  ASSUME TypeOK, RowLockExclusive, NamesAreBorn, TranscribesAudioOnly, RunInv, [Next]_vars,
         NEW w \in Executors, NothingToExtract(w)'
  PROVE  status'[job'[w].meeting] = "deleted" \/ Textless(job[w].meeting)'
<1> USE DEF TypeOK, NothingToExtract, Goto
<1>1. ASSUME NothingToExtract(w), job'[w] = job[w]
      PROVE  status'[job'[w].meeting] = "deleted" \/ Textless(job[w].meeting)'
  <2>1. job[w].meeting \in Meetings /\ ~Uncreated(job[w].meeting)
    BY <1>1 DEF NamesAreBorn, Messages
  <2>2. status[job[w].meeting] = "deleted" \/ Textless(job[w].meeting)
    BY <1>1 DEF RunInv
  <2>3. status[job[w].meeting] = "deleted" => status'[job[w].meeting] = "deleted"
    BY <2>1, RowLife
  <2>4. Textless(job[w].meeting) =>
          status'[job[w].meeting] = "deleted"
          \/ (source'[job[w].meeting] = "paste" /\ ~transcript'[job[w].meeting])
    BY <2>1, TextlessStep DEF RunInv, Textless
  <2> QED
    BY <1>1, <2>2, <2>3, <2>4 DEF Textless
<1>2. CASE pc'[w] = pc[w] /\ job'[w] = job[w] /\ input'[w] = input[w]
  BY <1>1, <1>2
<1>3. CASE MarkExtracting(w)
  <2>1. pc[w] = "loaded" /\ job'[w] = job[w] /\ pc'[w] = "empty"
    BY <1>3 DEF MarkExtracting
  <2>2. job[w].kind # "transcribe" /\ input[w] = "none"
    BY <1>3, <2>1 DEF MarkExtracting
  <2> QED
    BY <1>1, <2>1, <2>2
<1>4. ASSUME NEW msg \in Messages, LoadMeeting(w, msg)
      PROVE  Textless(job[w].meeting)'
  <2>1. /\ job'[w] = msg /\ msg.meeting \in Meetings /\ Live(msg.meeting)
        /\ UNCHANGED <<source, transcript>>
    BY <1>4 DEF LoadMeeting, Receive, Messages, rowVars
  <2>2. pc'[w] = "loaded" /\ input'[w] = IF msg.kind = "transcribe" THEN "none"
                                         ELSE TranscriptInput(msg.meeting)
    BY <1>4 DEF LoadMeeting
  <2>3. TranscriptInput(msg.meeting) = "none"
    BY <2>1, <2>2
  <2>4. ~transcript[msg.meeting] /\ ref[msg.meeting] = "none"
    BY <2>3 DEF TranscriptInput
  <2>5. Textless(msg.meeting)
    BY <2>1, <2>4 DEF RunInv, Textless
  <2> QED
    BY <2>1, <2>5 DEF Textless
<1>5. CASE \/ pc[w] = "transcribe" /\ Transcribe(w)
           \/ pc[w] = "save" /\ SaveTranscript(w)
           \/ pc[w] = "commit" /\ \E result \in Results : CommitTranscript(w, result)
  BY <1>5 DEF Transcribe, SaveTranscript, CommitTranscript
<1> QED
  BY <1>2, <1>3, <1>4, <1>5, PlaceOrigin

(* What says "extracted" has a run, or is a pasted meeting without a text. *)
LEMMA ExtractedStep ==
  ASSUME TypeOK, NamesAreBorn, TranscribesAudioOnly, RunInv, [Next]_vars,
         NEW m \in Meetings, status'[m] = "extracted"
  PROVE  "ok" \in runs'[m] \/ Textless(m)'
<1> USE DEF TypeOK
<1>1. ASSUME status[m] = "extracted"
      PROVE  "ok" \in runs'[m] \/ Textless(m)'
  <2>1. "ok" \in runs[m] \/ Textless(m)
    BY <1>1 DEF RunInv
  <2>2. ASSUME NEW r \in Requests, DeleteRow(r)
        PROVE  runs'[m] = runs[m]
    BY <2>2 DEF DeleteRow, Cascade
  <2>3. ASSUME NEW w \in Executors, MarkDraft(w)
        PROVE  "ok" \in runs[m] => "ok" \in runs'[m]
    BY <2>3 DEF MarkDraft
  <2>4. ASSUME NEW w \in Executors, NEW entries \in {0, 1}, CommitExtraction(w, entries)
        PROVE  "ok" \in runs[m] => "ok" \in runs'[m]
    BY <2>4 DEF CommitExtraction
  <2>5. ASSUME NEW n \in Meetings, NEW t \in Tasks,
               CompleteItem(n, t) \/ ReopenItem(n, t) \/ DeleteItem(n, t)
        PROVE  runs'[m] = runs[m]
    BY <2>5 DEF CompleteItem, ReopenItem, DeleteItem, EditItems
  <2>6. "ok" \in runs[m] => "ok" \in runs'[m]
    BY <2>2, <2>3, <2>4, <2>5, ChildWriters DEF childVars
  <2>7. Textless(m) => Textless(m)'
    BY <1>1, TextlessStep DEF RunInv, Uncreated
  <2> QED
    BY <2>1, <2>6, <2>7
<1>2. ASSUME status[m] # "extracted"
      PROVE  "ok" \in runs'[m] \/ Textless(m)'
  <2>1. ASSUME NEW n \in Meetings, NEW hasText \in BOOLEAN, CreateMeeting(n, hasText)
        PROVE  FALSE
    BY <1>2, <2>1 DEF CreateMeeting
  <2>2. ASSUME NEW r \in Requests, NEW n \in Meetings, UploadTranscriptFile(r, n)
        PROVE  FALSE
    BY <1>2, <2>2 DEF UploadTranscriptFile
  <2>3. ASSUME NEW r \in Requests, CommitAudio(r) \/ TriggerCommit(r) \/ DeleteRow(r)
        PROVE  FALSE
    BY <1>2, <2>3 DEF CommitAudio, TriggerCommit, DeleteRow
  <2>4. ASSUME NEW w \in Executors, FinishEmpty(w)
        PROVE  Textless(m)'
    <3>1. pc[w] = "empty" /\ job[w].meeting = m /\ Live(m)
      BY <1>2, <2>4 DEF FinishEmpty, MayUpdateRow
    <3>2. Textless(m)
      BY <3>1 DEF RunInv, NothingToExtract, Live, LiveStatuses
    <3> QED
      BY <2>4, <3>2 DEF FinishEmpty, Textless
  <2>5. ASSUME NEW w \in Executors, NEW entries \in {0, 1}, CommitExtraction(w, entries)
        PROVE  "ok" \in runs'[m]
    BY <1>2, <2>5 DEF CommitExtraction
  <2>6. ASSUME NEW w \in Executors, NEW result \in Results, CommitTranscript(w, result)
        PROVE  FALSE
    BY <1>2, <2>6 DEF CommitTranscript
  <2>7. ASSUME NEW w \in Executors, MarkDraft(w)
        PROVE  FALSE
    BY <1>2, <2>7 DEF MarkDraft
  <2>8. CASE UNCHANGED rowVars
    BY <1>2, <2>8 DEF rowVars
  <2> QED
    BY <2>1, <2>2, <2>3, <2>4, <2>5, <2>6, <2>7, <2>8, RowWriters
<1> QED
  BY <1>1, <1>2

(* RunInv is inductive, relative to the invariants above.                  *)
LEMMA RunStep ==
  ASSUME TypeOK, PipelineInv, RunInv, [Next]_vars
  PROVE  RunInv'
<1>1. TranscribersOnly'
  BY TranscribersStep DEF PipelineInv, RunInv
<1>2. \A w \in Executors : NothingToExtract(w)' =>
        status'[job'[w].meeting] = "deleted" \/ Textless(job[w].meeting)'
  BY NothingStep DEF PipelineInv
<1>3. \A m \in Meetings : status'[m] = "extracted" => "ok" \in runs'[m] \/ Textless(m)'
  BY ExtractedStep DEF PipelineInv
<1>4. \A m \in Meetings :
        Live(m)' => source'[m] = "paste" \/ transcript'[m] \/ ref'[m] # "none"
  BY RowsNameSomething
<1> QED
  BY <1>1, <1>2, <1>3, <1>4 DEF RunInv

(* A meeting with a transcript that says "extracted" has a successful run, *)
(* also when the trigger overtook the transcription and the transcript was *)
(* committed after the extraction (transcription_worker.py, _run_          *)
(* extraction).                                                            *)
THEOREM ExtractedHasItsRun == Spec => []ExtractedHasRun
<1>1. Init => RunInv
  BY DEF Init, RunInv, TranscribersOnly, WritingSteps, NothingToExtract, Live, LiveStatuses
<1>2. RunInv => ExtractedHasRun
  BY DEF RunInv, ExtractedHasRun, Textless
<1>3. TypeOK /\ PipelineInv /\ RunInv /\ [Next]_vars => RunInv'
  BY RunStep
<1> QED
  BY <1>1, <1>2, <1>3, TypeCorrect, PipelineInvariant, PTL DEF Spec
-----------------------------------------------------------------------------
(* What a row names is in S3 *)

NothingCutShort == Faults \cap {"api_crash", "rollback"} = {}

(* An object that is stored, or that a request is about to forget.         *)
Kept(m, k) == k \in objects[m] \/ BeingDeleted(m)

(* The strengthening behind RefIsStored: a run about to commit its         *)
(* transcript has stored it, and a row that is not there names nothing.    *)
StoreInv ==
  NothingCutShort =>
    /\ \A m \in Meetings : ~Live(m) => ref[m] = "none"
    /\ \A m \in Meetings : Live(m) /\ ref[m] # "none" => Kept(m, ref[m])
    /\ \A w \in Executors : pc[w] = "commit" /\ Live(job[w].meeting)
                             => Kept(job[w].meeting, "transcript")

(* Without a restart of the API, a request that has come to the row goes   *)
(* on being there; without a failing commit it ends with the row gone.     *)
LEMMA DeletionGoesOn ==
  ASSUME TypeOK, NothingCutShort, [Next]_vars, NEW m \in Meetings, BeingDeleted(m)
  PROVE  BeingDeleted(m)' \/ ~Live(m)'
<1> PICK r \in Requests : Step(r, "delete_row") /\ request[r].meeting = m
  BY DEF BeingDeleted
<1> USE DEF TypeOK
<1>1. ASSUME request'[r] = request[r]
      PROVE  BeingDeleted(m)'
  BY <1>1 DEF BeingDeleted, Step
<1>2. ASSUME NEW q \in Requests \ {r}, RequestStep(q) \/ NewRequest(q)
      PROVE  request'[r] = request[r]
  BY <1>2 DEF RequestStep, NewRequest, CommitAudio, EnqueueTranscription, TriggerCommit,
              TriggerRowGone, EnqueueExtraction, DeleteObject, DeleteRow, DeleteNothing,
              UploadTranscriptFile, UploadAudio, TriggerLoad, DeleteLoad, Advance, EndRequest
<1>3. CASE DeleteRow(r)
  BY <1>3 DEF DeleteRow, Live, LiveStatuses
<1>4. CASE DeleteNothing(r)
  BY <1>4 DEF DeleteNothing, NothingCutShort, Live, rowVars
<1>5. CASE RequestStep(r) \/ NewRequest(r)
  BY <1>3, <1>4, <1>5 DEF RequestStep, NewRequest, CommitAudio, EnqueueTranscription,
     TriggerCommit, TriggerRowGone, EnqueueExtraction, DeleteObject, UploadTranscriptFile,
     UploadAudio, TriggerLoad, DeleteLoad, Step
<1>6. ASSUME NEW w \in Executors, ActsAlone(w)
      PROVE  request'[r] = request[r]
  BY <1>6 DEF ActsAlone, ExecutorStep, LoadMeeting, MeetingNotFound, MarkExtracting,
     FinishEmpty, ExtractItems, CommitExtraction, Transcribe, SaveTranscript,
     CommitTranscript, EnqueueAfterTranscription, Ack, RowGone, AudioGone, Raise, MarkLoad,
     MarkDraft, MarkNothing, RetryTask, GiveUp, RunRaises, WorkerCrash, CrashAfterRetry,
     TimeLimit
<1>7. CASE UserStep \/ UNCHANGED vars
  BY <1>1, <1>7 DEF UserStep, CreateMeeting, CompleteItem, ReopenItem, DeleteItem, EditItems,
     vars
<1>8. CASE ApiCrash
  BY <1>8 DEF ApiCrash, NothingCutShort
<1> QED
  BY <1>1, <1>2, <1>5, <1>6, <1>7, <1>8 DEF Next, FaultStep, ActsAlone

(* The actions that change what is in S3.                                  *)
LEMMA ObjectWriters ==
  ASSUME [Next]_vars
  PROVE  \/ UNCHANGED objects
         \/ \E r \in Requests, m \in Meetings : UploadAudio(r, m)
         \/ \E r \in Requests : DeleteObject(r)
         \/ \E w \in Executors : SaveTranscript(w)
<1>1. ASSUME NEW r \in Requests, RequestStep(r)
      PROVE  UNCHANGED objects \/ DeleteObject(r)
  BY <1>1 DEF RequestStep, CommitAudio, EnqueueTranscription, TriggerCommit,
              TriggerRowGone, EnqueueExtraction, DeleteRow, DeleteNothing
<1>2. ASSUME NEW r \in Requests, NewRequest(r)
      PROVE  UNCHANGED objects \/ \E m \in Meetings : UploadAudio(r, m)
  BY <1>2 DEF NewRequest, UploadTranscriptFile, TriggerLoad, DeleteLoad
<1>3. ASSUME NEW w \in Executors, ExecutorStep(w)
      PROVE  UNCHANGED objects \/ SaveTranscript(w)
  BY <1>3 DEF ExecutorStep, LoadMeeting, MeetingNotFound, MarkExtracting, FinishEmpty,
              ExtractItems, CommitExtraction, Transcribe, CommitTranscript,
              EnqueueAfterTranscription, Ack, RowGone, AudioGone, Raise, MarkLoad,
              MarkDraft, MarkNothing, RetryTask, GiveUp
<1>4. ASSUME UserStep
      PROVE  UNCHANGED objects
  BY <1>4 DEF UserStep, CreateMeeting, CompleteItem, ReopenItem, DeleteItem, EditItems
<1>5. ASSUME FaultStep
      PROVE  UNCHANGED objects
  BY <1>5 DEF FaultStep, RunRaises, Raise, WorkerCrash, CrashAfterRetry, TimeLimit, ApiCrash
<1>6. CASE UNCHANGED vars
  BY <1>6 DEF vars
<1> QED
  BY <1>1, <1>2, <1>3, <1>4, <1>5, <1>6 DEF Next

(* Only a request that is deleting the meeting takes an object away.       *)
LEMMA ObjectsStay ==
  ASSUME TypeOK, [Next]_vars, NEW m \in Meetings, NEW k \in objects[m]
  PROVE  Kept(m, k)'
<1>a. objects \in [Meetings -> SUBSET Keys]
  BY DEF TypeOK
<1>1. ASSUME NEW r \in Requests, DeleteObject(r)
      PROVE  Kept(m, k)'
  <2>1. request[r].meeting = m => Step(r, "delete_row")' /\ request'[r].meeting = m
    BY <1>1 DEF DeleteObject, Advance, Step, NoRequest, TypeOK
  <2>2. request[r].meeting # m => objects'[m] = objects[m]
    BY <1>a, <1>1 DEF DeleteObject
  <2> QED
    BY <2>1, <2>2 DEF Kept, BeingDeleted
<1>2. ASSUME NEW r \in Requests, NEW n \in Meetings, UploadAudio(r, n)
      PROVE  k \in objects'[m]
  BY <1>a, <1>2 DEF UploadAudio
<1>3. ASSUME NEW w \in Executors, SaveTranscript(w)
      PROVE  k \in objects'[m]
  BY <1>a, <1>3 DEF SaveTranscript
<1> QED
  BY <1>1, <1>2, <1>3, ObjectWriters DEF Kept

(* An object that is kept is kept as long as the row is there.             *)
LEMMA KeptStep ==
  ASSUME TypeOK, NothingCutShort, [Next]_vars, NEW m \in Meetings, NEW k, Kept(m, k), Live(m)'
  PROVE  Kept(m, k)'
BY ObjectsStay, DeletionGoesOn DEF Kept

(* What a row that a step leaves behind names is kept.                     *)
LEMMA RefsStay ==
  ASSUME TypeOK, NamesAreBorn, NothingCutShort, StoreInv, [Next]_vars, NEW m \in Meetings
  PROVE  /\ ~Live(m)' => ref'[m] = "none"
         /\ Live(m)' /\ ref'[m] # "none" => Kept(m, ref[m])'
<1> USE DEF TypeOK
<1>a. /\ ~Live(m) => ref[m] = "none"
      /\ Live(m) /\ ref[m] # "none" => Kept(m, ref[m])
  BY DEF StoreInv
<1>1. ASSUME ref'[m] = ref[m], Live(m) = Live(m)' \/ ref[m] = "none"
      PROVE  /\ ~Live(m)' => ref'[m] = "none"
             /\ Live(m)' /\ ref'[m] # "none" => Kept(m, ref[m])'
  <2>1. ASSUME Live(m)', ref'[m] # "none"
        PROVE  Kept(m, ref[m])'
    <3>1. \A k : Kept(m, k) => Kept(m, k)'
      BY <2>1, KeptStep
    <3>2. Kept(m, ref[m])
      BY <1>a, <1>1, <2>1
    <3> QED
      BY <1>1, <3>1, <3>2 DEF Kept, BeingDeleted
  <2> QED
    BY <1>a, <1>1, <2>1
<1>2. ASSUME NEW n \in Meetings, NEW hasText \in BOOLEAN, CreateMeeting(n, hasText)
      PROVE  ref'[m] = ref[m] /\ (Live(m) = Live(m)' \/ ref[m] = "none")
  BY <1>a, <1>2 DEF CreateMeeting, MayCreate, Live, LiveStatuses
<1>3. ASSUME NEW r \in Requests, NEW n \in Meetings, UploadTranscriptFile(r, n)
      PROVE  ref'[m] = ref[m] /\ (Live(m) = Live(m)' \/ ref[m] = "none")
  BY <1>a, <1>3 DEF UploadTranscriptFile, MayCreate, Live, LiveStatuses
<1>4. ASSUME NEW r \in Requests, CommitAudio(r)
      PROVE  \/ ref'[m] = ref[m] /\ Live(m) = Live(m)'
             \/ Live(m)' /\ Kept(m, ref[m])'
  <2>1. CASE request[r].meeting = m
    BY <1>4, <2>1 DEF CommitAudio, NamesAreBorn, Kept, Live, LiveStatuses
  <2>2. CASE request[r].meeting # m
    BY <1>4, <2>2 DEF CommitAudio, Live
  <2> QED
    BY <2>1, <2>2
<1>5. ASSUME NEW r \in Requests, TriggerCommit(r)
      PROVE  ref'[m] = ref[m] /\ Live(m) = Live(m)'
  BY <1>5 DEF TriggerCommit, Live, LiveStatuses
<1>6. ASSUME NEW r \in Requests, DeleteRow(r)
      PROVE  \/ ref'[m] = ref[m] /\ Live(m) = Live(m)'
             \/ ~Live(m)' /\ ref'[m] = "none"
  BY <1>6 DEF DeleteRow, Live, LiveStatuses
<1>7. ASSUME NEW w \in Executors, FinishEmpty(w) \/ MarkDraft(w)
      PROVE  ref'[m] = ref[m] /\ Live(m) = Live(m)'
  BY <1>7 DEF FinishEmpty, MarkDraft, MayUpdateRow, Live, LiveStatuses
<1>8. ASSUME NEW w \in Executors, NEW entries \in {0, 1}, CommitExtraction(w, entries)
      PROVE  ref'[m] = ref[m] /\ Live(m) = Live(m)'
  BY <1>8 DEF CommitExtraction, MayUpdateRow, Live, LiveStatuses
<1>9. ASSUME NEW w \in Executors, NEW result \in Results, CommitTranscript(w, result)
      PROVE  \/ ref'[m] = ref[m] /\ Live(m) = Live(m)'
             \/ Live(m)' /\ Kept(m, ref[m])'
  <2>1. CASE job[w].meeting = m
    <3>1. Live(m) /\ Live(m)' /\ ref'[m] = "transcript"
      BY <1>9, <2>1 DEF CommitTranscript, MayUpdateRow, Live, LiveStatuses
    <3>2. Kept(m, "transcript")
      BY <1>9, <2>1, <3>1 DEF CommitTranscript, StoreInv
    <3>3. UNCHANGED <<objects, request>>
      BY <1>9 DEF CommitTranscript
    <3> QED
      BY <3>1, <3>2, <3>3 DEF Kept, BeingDeleted, Step
  <2>2. CASE job[w].meeting # m
    BY <1>9, <2>2 DEF CommitTranscript, Live
  <2> QED
    BY <2>1, <2>2
<1>10. CASE UNCHANGED rowVars
  BY <1>1, <1>10 DEF rowVars, Live
<1> QED
  BY <1>1, <1>2, <1>3, <1>4, <1>5, <1>6, <1>7, <1>8, <1>9, <1>10, RowWriters

(* A transcript is stored before the run comes to its commit.              *)
LEMMA TranscriptStored ==
  ASSUME TypeOK, RowLockExclusive, NamesAreBorn, NothingCutShort, StoreInv, [Next]_vars,
         NEW w \in Executors, pc'[w] = "commit", Live(job[w].meeting)'
  PROVE  Kept(job[w].meeting, "transcript")'
<1> USE DEF TypeOK, Goto
<1>1. CASE pc'[w] = pc[w] /\ job'[w] = job[w]
  <2>1. job[w].meeting \in Meetings /\ ~Uncreated(job[w].meeting)
    BY <1>1 DEF NamesAreBorn, Messages
  <2>2. status[job[w].meeting] = "deleted" => status'[job[w].meeting] = "deleted"
    BY <2>1, RowLife
  <2>3. Live(job[w].meeting)
    BY <1>1, <2>1, <2>2 DEF Live, LiveStatuses, Statuses, Uncreated
  <2>4. Kept(job[w].meeting, "transcript")
    BY <1>1, <2>3 DEF StoreInv
  <2>5. \A m \in Meetings : Live(m)' /\ Kept(m, "transcript") => Kept(m, "transcript")'
    BY KeptStep
  <2>6. Live(job[w].meeting)' <=> status'[job[w].meeting] \in LiveStatuses
    BY <1>1 DEF Live
  <2>7. \A m \in Meetings : Kept(m, "transcript")' <=>
          \/ "transcript" \in objects'[m]
          \/ \E r \in Requests : Step(r, "delete_row")' /\ request'[r].meeting = m
    BY DEF Kept, BeingDeleted
  <2>8. Kept(job[w].meeting, "transcript")' <=>
          \/ "transcript" \in objects'[job[w].meeting]
          \/ \E r \in Requests : Step(r, "delete_row")' /\ request'[r].meeting = job[w].meeting
    BY <1>1 DEF Kept, BeingDeleted
  <2>9. \A m \in Meetings : Live(m)' <=> status'[m] \in LiveStatuses
    BY DEF Live
  <2> QED
    BY <2>1, <2>4, <2>5, <2>6, <2>7, <2>8, <2>9
<1>2. CASE SaveTranscript(w)
  <2>1. job[w].meeting \in Meetings /\ job'[w] = job[w]
    BY <1>2 DEF SaveTranscript, Messages
  <2> QED
    BY <1>2, <2>1 DEF SaveTranscript, Kept
<1>3. ASSUME \/ MarkExtracting(w) \/ Transcribe(w)
             \/ \E result \in Results : CommitTranscript(w, result)
      PROVE  FALSE
  BY <1>3 DEF MarkExtracting, Transcribe, CommitTranscript
<1> QED
  BY <1>1, <1>2, <1>3, PlaceOrigin DEF WritingSteps

(* StoreInv is inductive, relative to the invariants above.                *)
LEMMA StoreStep ==
  ASSUME TypeOK, PipelineInv, StoreInv, [Next]_vars
  PROVE  StoreInv'
<1> SUFFICES ASSUME NothingCutShort
             PROVE  StoreInv'
  BY DEF StoreInv, NothingCutShort
<1>1. \A m \in Meetings : /\ ~Live(m)' => ref'[m] = "none"
                          /\ Live(m)' /\ ref'[m] # "none" => Kept(m, ref[m])'
  BY RefsStay DEF PipelineInv
<1>2. \A w \in Executors : pc'[w] = "commit" /\ Live(job[w].meeting)'
                            => Kept(job[w].meeting, "transcript")'
  BY TranscriptStored DEF PipelineInv
<1> QED
  BY <1>1, <1>2 DEF StoreInv

(* Unless the API dies or a DELETE fails to commit, the object a row names *)
(* is in S3, or a request is about to delete the row (storage.py,          *)
(* delete_meeting, _run_transcription).                                    *)
THEOREM RefsAreStored == Spec => []RefIsStored
<1>1. Init => StoreInv
  BY DEF Init, StoreInv, Live, LiveStatuses
<1>2. StoreInv => RefIsStored
  BY DEF StoreInv, RefIsStored, NothingCutShort, Kept
<1>3. TypeOK /\ PipelineInv /\ StoreInv /\ [Next]_vars => StoreInv'
  BY StoreStep
<1> QED
  BY <1>1, <1>2, <1>3, TypeCorrect, PipelineInvariant, PTL DEF Spec
-----------------------------------------------------------------------------
(* A meeting that says "extracting" has someone who will change that *)

NothingLossy == Faults \cap LossyFaults = {}

(* Putting two messages into the bag takes none out.                       *)
LEMMA TwoMore ==
  ASSUME NEW S, NEW bag \in [S -> Nat], NEW a \in S, NEW b \in S, NEW c \in S, bag[c] > 0
  PROVE  [bag EXCEPT ![a] = @ + 1, ![b] = @ + 1][c] > 0
  OBVIOUS

(* Without an API crash a message stays until an executor takes it.        *)
LEMMA MessageKept ==
  ASSUME TypeOK, [Next]_vars, NothingLossy, NEW msg \in Messages, pending[msg] > 0
  PROVE  \/ pending'[msg] > 0
         \/ \E w \in Executors : job'[w] = msg /\ pc'[w] \in {"loaded", "failed"}
<1> USE DEF TypeOK
<1> DEFINE Taken == \E w \in Executors : job'[w] = msg /\ pc'[w] \in {"loaded", "failed"}
           Remains == pending'[msg] > 0
<1>1. ASSUME NEW n \in Messages, Publish(n)
      PROVE  Remains
  BY <1>1 DEF Publish
<1>2. ASSUME pending' = pending
      PROVE  Remains
  BY <1>2
<1>3. ASSUME NEW r \in Requests, RequestStep(r) \/ NewRequest(r)
      PROVE  Remains
  <2>1. CASE EnqueueTranscription(r)
    <3>1. request[r].meeting \in Meetings
      BY <2>1 DEF EnqueueTranscription, Step, NoRequest
    <3> QED
      BY <1>1, <1>2, <2>1, <3>1, FirstTryIsMessage DEF EnqueueTranscription, Kinds
  <2>2. CASE EnqueueExtraction(r)
    <3>1. request[r].meeting \in Meetings
      BY <2>2 DEF EnqueueExtraction, Step, NoRequest
    <3> QED
      BY <1>1, <2>2, <3>1, FirstTryIsMessage DEF EnqueueExtraction, Kinds
  <2> QED
    BY <1>2, <1>3, <2>1, <2>2 DEF RequestStep, NewRequest, CommitAudio, TriggerCommit,
       TriggerRowGone, DeleteObject, DeleteRow, DeleteNothing, UploadTranscriptFile,
       UploadAudio, TriggerLoad, DeleteLoad
<1>4. ASSUME NEW w \in Executors, ActsAlone(w)
      PROVE  Remains \/ Taken
  <2>1. ASSUME NEW n \in Messages, LoadMeeting(w, n) \/ MeetingNotFound(w, n)
        PROVE  Remains \/ Taken
    BY <2>1 DEF LoadMeeting, MeetingNotFound, Receive, Goto
  <2>2. CASE EnqueueAfterTranscription(w)
    <3>1. job[w].meeting \in Meetings
      BY <2>2 DEF EnqueueAfterTranscription, Messages
    <3> QED
      BY <1>1, <2>2, <3>1, FirstTryIsMessage DEF EnqueueAfterTranscription, Kinds
  <2>3. CASE RetryTask(w) \/ WorkerCrash(w) \/ CrashAfterRetry(w)
    <3>1. pc[w] # "idle" /\ job[w] \in Messages
      BY <2>3 DEF RetryTask, WorkerCrash, CrashAfterRetry
    <3>2. MayRetry(w) => NextTry(job[w]) \in Messages
      BY <3>1, NextTryIsMessage
    <3>3. CASE RetryTask(w) \/ WorkerCrash(w)
      BY <1>1, <3>1, <3>2, <3>3 DEF RetryTask, WorkerCrash
    <3>4. CASE CrashAfterRetry(w)
      <4>1. pending' = [pending EXCEPT ![job[w]] = @ + 1, ![NextTry(job[w])] = @ + 1]
        BY <3>4 DEF CrashAfterRetry
      <4>2. NextTry(job[w]) \in Messages
        BY <3>2, <3>4 DEF CrashAfterRetry
      <4> QED
        BY <3>1, <4>1, <4>2, TwoMore
    <3> QED
      BY <2>3, <3>3, <3>4
  <2> QED
    BY <1>2, <1>4, <2>1, <2>2, <2>3 DEF ActsAlone, ExecutorStep, MarkExtracting, FinishEmpty,
       ExtractItems, CommitExtraction, Transcribe, SaveTranscript, CommitTranscript, Ack,
       RowGone, AudioGone, Raise, MarkLoad, MarkDraft, MarkNothing, GiveUp, RunRaises, TimeLimit
<1>5. CASE UserStep \/ UNCHANGED vars
  BY <1>2, <1>5 DEF UserStep, CreateMeeting, CompleteItem, ReopenItem, DeleteItem, EditItems,
     vars
<1>6. ~ApiCrash
  BY DEF ApiCrash, NothingLossy, LossyFaults
<1> QED
  BY <1>3, <1>4, <1>5, <1>6 DEF Next, FaultStep, ActsAlone

(* Such a run goes on, hands over to a message, or takes its meeting out   *)
(* of "extracting".                                                        *)
LEMMA RunKept ==
  ASSUME TypeOK, RowLockExclusive, [Next]_vars, NothingLossy,
         NEW w \in Executors, Working(w),
         status'[job[w].meeting] = "extracting"
  PROVE  \/ Working(w)' /\ job'[w] = job[w]
         \/ \E msg \in Messages : msg.meeting = job[w].meeting /\ pending'[msg] > 0
<1> DEFINE m == job[w].meeting
           Goes == Working(w)' /\ job'[w] = job[w]
           Hands == \E msg \in Messages : msg.meeting = m /\ pending'[msg] > 0
<1> USE DEF TypeOK, Working, Goto
<1>0. job[w] \in Messages /\ m \in Meetings
  BY DEF Messages
<1>1. ASSUME NEW x \in Executors \ {w}, ActsAlone(x)
      PROVE  Goes
  BY <1>1, ExecutorLocks
<1>2. CASE UNCHANGED execVars
  BY <1>2 DEF execVars
<1>3. ~ApiCrash /\ ~TimeLimit(w)
  BY DEF ApiCrash, TimeLimit, NothingLossy, LossyFaults
<1>4. CASE ExecutorStep(w) \/ RunRaises(w)
  <2>1. CASE MarkExtracting(w)
    <3>1. pc'[w] \in {"transcribe", "empty", "llm"}
      BY <2>1 DEF MarkExtracting
    <3> QED
      BY <2>1, <3>1 DEF MarkExtracting
  <2>2. ~FinishEmpty(w) /\ (\A entries \in {0, 1} : ~CommitExtraction(w, entries))
    BY <1>0 DEF FinishEmpty, CommitExtraction
  <2>3. CASE \/ Transcribe(w) \/ SaveTranscript(w)
             \/ \E found \in SUBSET Tasks : ExtractItems(w, found)
             \/ \E result \in Results : CommitTranscript(w, result)
    BY <2>3 DEF Transcribe, SaveTranscript, ExtractItems, CommitTranscript
  <2>4. CASE EnqueueAfterTranscription(w)
    <3>1. Message("extract", m, 0) \in Messages
      BY <1>0, FirstTryIsMessage DEF Kinds
    <3>2. pending'[Message("extract", m, 0)] > 0
      BY <2>4, <3>1 DEF EnqueueAfterTranscription, Publish
    <3>3. Message("extract", m, 0).meeting = m
      BY DEF Message
    <3> QED
      BY <3>1, <3>2, <3>3
  <2>5. CASE RowGone(w) \/ AudioGone(w) \/ RunRaises(w)
    BY <2>5 DEF RowGone, AudioGone, RunRaises, Raise
  <2>6. ~MarkDraft(w)
    BY <1>0 DEF MarkDraft
  <2>7. ~MarkNothing(w)
    BY <1>0 DEF MarkNothing, Live, LiveStatuses, rowVars, NothingLossy, LossyFaults
  <2>8. ~Ack(w) /\ ~RetryTask(w) /\ ~GiveUp(w)
    BY DEF Ack, RetryTask, GiveUp
  <2>10. CASE MarkLoad(w)
    BY <2>10 DEF MarkLoad, rowVars
  <2>9. \A msg \in Messages : ~LoadMeeting(w, msg) /\ ~MeetingNotFound(w, msg)
    BY DEF LoadMeeting, MeetingNotFound, Receive
  <2> QED
    BY <1>4, <2>1, <2>2, <2>3, <2>4, <2>5, <2>6, <2>7, <2>8, <2>9, <2>10
    DEF ExecutorStep
<1>5. CASE WorkerCrash(w)
  BY <1>0, <1>5 DEF WorkerCrash, Publish
<1>6. ~CrashAfterRetry(w)
  BY DEF CrashAfterRetry
<1> QED
  BY <1>1, <1>2, <1>3, <1>4, <1>5, <1>6, StepOwner DEF ActsAlone

(* A request about to enqueue an extraction still is, or has.              *)
LEMMA EnqueueKept ==
  ASSUME TypeOK, [Next]_vars, NothingLossy, NEW r \in Requests, Step(r, "enqueue")
  PROVE  \/ Step(r, "enqueue")' /\ request'[r] = request[r]
         \/ \E msg \in Messages : msg.meeting = request[r].meeting /\ pending'[msg] > 0
<1> USE DEF TypeOK, Step
<1>0. request[r].meeting \in Meetings
  BY DEF NoRequest
<1>1. ASSUME request'[r] = request[r]
      PROVE  Step(r, "enqueue")' /\ request'[r] = request[r]
  BY <1>1
<1>2. ASSUME NEW q \in Requests \ {r}, RequestStep(q) \/ NewRequest(q)
      PROVE  request'[r] = request[r]
  BY <1>2 DEF RequestStep, NewRequest, CommitAudio, EnqueueTranscription, TriggerCommit,
              TriggerRowGone, EnqueueExtraction, DeleteObject, DeleteRow, DeleteNothing,
              UploadTranscriptFile, UploadAudio, TriggerLoad, DeleteLoad, Advance, EndRequest
<1>3. ASSUME RequestStep(r) \/ NewRequest(r)
      PROVE  \E msg \in Messages : msg.meeting = request[r].meeting /\ pending'[msg] > 0
  <2>1. EnqueueExtraction(r)
    BY <1>3 DEF RequestStep, NewRequest, CommitAudio, EnqueueTranscription, TriggerCommit,
                TriggerRowGone, DeleteObject, DeleteRow, DeleteNothing,
                UploadTranscriptFile, UploadAudio, TriggerLoad, DeleteLoad
  <2>2. PICK k \in {"extract", "inline"} : Publish(Message(k, request[r].meeting, 0))
    BY <2>1 DEF EnqueueExtraction
  <2>3. Message(k, request[r].meeting, 0) \in Messages
    BY <1>0, FirstTryIsMessage DEF Kinds
  <2>4. pending'[Message(k, request[r].meeting, 0)] > 0
    BY <2>2, <2>3 DEF Publish
  <2>5. Message(k, request[r].meeting, 0).meeting = request[r].meeting
    BY DEF Message
  <2> QED
    BY <2>3, <2>4, <2>5
<1>4. ASSUME NEW w \in Executors, ActsAlone(w)
      PROVE  UNCHANGED request
  BY <1>4 DEF ActsAlone, ExecutorStep, LoadMeeting, MeetingNotFound, MarkExtracting,
     FinishEmpty, ExtractItems, CommitExtraction, Transcribe, SaveTranscript,
     CommitTranscript, EnqueueAfterTranscription, Ack, RowGone, AudioGone, Raise, MarkLoad, MarkDraft,
     MarkNothing, RetryTask, GiveUp, RunRaises, WorkerCrash, CrashAfterRetry, TimeLimit
<1>5. CASE UserStep \/ UNCHANGED vars
  BY <1>5 DEF UserStep, CreateMeeting, CompleteItem, ReopenItem, DeleteItem, EditItems, vars
<1>6. ~ApiCrash
  BY DEF ApiCrash, NothingLossy, LossyFaults
<1> QED
  BY <1>1, <1>2, <1>3, <1>4, <1>5, <1>6 DEF Next, FaultStep, ActsAlone

(* No step takes the last owner from a meeting in "extracting".            *)
LEMMA OwnedStep ==
  ASSUME TypeOK, RowLockExclusive, ExtractingIsOwned, [Next]_vars
  PROVE  ExtractingIsOwned'
<1> USE DEF TypeOK
<1> SUFFICES ASSUME NothingLossy, NEW m \in Meetings, status'[m] = "extracting"
             PROVE  Owned(m)'
  BY DEF ExtractingIsOwned, NothingLossy, LossyFaults
<1>1. ASSUME NEW w \in Executors, Working(w)', job'[w].meeting = m
      PROVE  Owned(m)'
  BY <1>1 DEF Owned, Working
<1>2. ASSUME NEW msg \in Messages, msg.meeting = m, pending'[msg] > 0
      PROVE  Owned(m)'
  BY <1>2 DEF Owned
<1>3. ASSUME NEW r \in Requests, Step(r, "enqueue")', request'[r].meeting = m
      PROVE  Owned(m)'
  BY <1>3 DEF Owned
<1>4. CASE status[m] = "extracting"
  <2>1. Owned(m)
    BY <1>4 DEF ExtractingIsOwned, NothingLossy
  <2>2. ASSUME NEW msg \in Messages, msg.meeting = m, pending[msg] > 0
        PROVE  Owned(m)'
    BY <1>1, <1>2, <2>2, MessageKept DEF Working
  <2>3. ASSUME NEW w \in Executors, Working(w), job[w].meeting = m
        PROVE  Owned(m)'
    BY <1>1, <1>2, <2>3, RunKept
  <2>4. ASSUME NEW r \in Requests, Step(r, "enqueue"), request[r].meeting = m
        PROVE  Owned(m)'
    BY <1>2, <1>3, <2>4, EnqueueKept
  <2> QED
    BY <2>1, <2>2, <2>3, <2>4 DEF Owned, Working
<1>5. CASE status[m] # "extracting"
  <2>1. ASSUME NEW n \in Meetings, NEW hasText \in BOOLEAN, CreateMeeting(n, hasText)
        PROVE  FALSE
    BY <1>5, <2>1 DEF CreateMeeting
  <2>2. ASSUME NEW r \in Requests, NEW n \in Meetings, UploadTranscriptFile(r, n)
        PROVE  Owned(m)'
    BY <1>3, <1>5, <2>2 DEF UploadTranscriptFile, Advance, Step
  <2>3. ASSUME NEW r \in Requests, TriggerCommit(r)
        PROVE  Owned(m)'
    BY <1>3, <1>5, <2>3 DEF TriggerCommit, Advance, Step
  <2>4. ASSUME NEW r \in Requests, CommitAudio(r) \/ DeleteRow(r)
        PROVE  FALSE
    BY <1>5, <2>4 DEF CommitAudio, DeleteRow
  <2>5. ASSUME NEW w \in Executors, FinishEmpty(w) \/ MarkDraft(w)
        PROVE  FALSE
    BY <1>5, <2>5 DEF FinishEmpty, MarkDraft
  <2>6. ASSUME NEW w \in Executors, NEW entries \in {0, 1}, CommitExtraction(w, entries)
        PROVE  FALSE
    BY <1>5, <2>6 DEF CommitExtraction
  <2>7. ASSUME NEW w \in Executors, NEW result \in Results, CommitTranscript(w, result)
        PROVE  Owned(m)'
    BY <1>1, <1>5, <2>7 DEF CommitTranscript, Goto, Working
  <2>8. CASE UNCHANGED rowVars
    BY <1>5, <2>8 DEF rowVars
  <2> QED
    BY <2>1, <2>2, <2>3, <2>4, <2>5, <2>6, <2>7, <2>8, RowWriters
<1> QED
  BY <1>4, <1>5

(* As long as only exceptions, broker failures and worker crashes occur, a *)
(* meeting never says "extracting" with nobody left to change it: the      *)
(* early return of trigger_extraction locks nobody out for good.           *)
THEOREM ExtractingOwned == Spec => []ExtractingIsOwned
<1>1. Init => ExtractingIsOwned
  BY DEF Init, ExtractingIsOwned
<1>2. PipelineInv => RowLockExclusive
  BY DEF PipelineInv
<1>3. TypeOK /\ RowLockExclusive /\ ExtractingIsOwned /\ [Next]_vars => ExtractingIsOwned'
  BY OwnedStep
<1> QED
  BY <1>1, <1>2, <1>3, TypeCorrect, PipelineInvariant, PTL DEF Spec
-----------------------------------------------------------------------------
(* Refinement of MeetingBoard *)

(* The empty pipeline is the empty board.                                  *)
LEMMA BoardInit == Init => Board!Init
BY DEF Init, Board!Init, NoItems, Board!Nothing

(* Editing an item is an edit of the board.                                *)
LEMMA BoardEdit ==
  ASSUME TypeOK, NEW m \in Meetings, NEW t \in Tasks,
         CompleteItem(m, t) \/ ReopenItem(m, t) \/ DeleteItem(m, t)
  PROVE  Board!Edit(m, t)
<1>1. openItems[m][t] \in Nat /\ doneItems[m][t] \in Nat
  BY DEF TypeOK
<1>2. /\ openItems \in [Meetings -> [Tasks -> Nat]] /\ doneItems \in [Meetings -> [Tasks -> Nat]]
      /\ UNCHANGED <<status, knowledge, runs>>
  BY DEF TypeOK, CompleteItem, ReopenItem, DeleteItem, EditItems, rowVars
<1>3. ASSUME NEW o \in {-1, 0, 1}, NEW d \in {-1, 0, 1}, o + d \in {-1, 0},
             openItems[m][t] + o >= 0, doneItems[m][t] + d >= 0,
             EditItems(m, t, openItems[m][t] + o, doneItems[m][t] + d)
      PROVE  Board!Edit(m, t)
  BY <1>1, <1>2, <1>3 DEF EditItems, Board!Edit
<1>4. CASE CompleteItem(m, t)
  <2>1. EditItems(m, t, openItems[m][t] + (-1), doneItems[m][t] + 1) /\ openItems[m][t] > 0
    BY <1>1, <1>4 DEF CompleteItem
  <2> QED
    BY <1>1, <1>3, <2>1
<1>5. CASE ReopenItem(m, t)
  <2>1. EditItems(m, t, openItems[m][t] + 1, doneItems[m][t] + (-1)) /\ doneItems[m][t] > 0
    BY <1>1, <1>5 DEF ReopenItem
  <2> QED
    BY <1>1, <1>3, <2>1
<1>6. CASE DeleteItem(m, t)
  <2>1. \/ openItems[m][t] > 0 /\ EditItems(m, t, openItems[m][t] + (-1), doneItems[m][t] + 0)
        \/ doneItems[m][t] > 0 /\ EditItems(m, t, openItems[m][t] + 0, doneItems[m][t] + (-1))
    BY <1>1, <1>6 DEF DeleteItem
  <2> QED
    BY <1>1, <1>3, <2>1
<1> QED
  BY <1>4, <1>5, <1>6

(* A step that leaves the rows under meetings alone creates a meeting,     *)
(* moves its status, or does nothing one can see.                          *)
LEMMA BoardStep ==
  ASSUME TypeOK, PipelineInv, [Next]_vars
  PROVE  [Board!Next]_(Board!board)
<1> USE DEF Board!Exists, Live, LiveStatuses
<1>a. status \in [Meetings -> Statuses] /\ runs \in [Meetings -> SUBSET {"ok", "error"}]
  BY DEF TypeOK
<1>b. \A w \in Executors : pc[w] # "idle" => job[w].meeting \in Meetings
  BY DEF TypeOK, Messages
<1>c. \A r \in Requests : ~Step(r, "idle") => request[r].meeting \in Meetings
  BY DEF TypeOK, Step, NoRequest
<1>1. ASSUME NEW m \in Meetings, NEW hasText \in BOOLEAN, CreateMeeting(m, hasText)
      PROVE  Board!Create(m)
  BY <1>1 DEF CreateMeeting, MayCreate, Board!Create, childVars
<1>2. ASSUME NEW r \in Requests, NEW m \in Meetings, UploadTranscriptFile(r, m)
      PROVE  Board!Create(m)
  BY <1>2 DEF UploadTranscriptFile, MayCreate, Board!Create, childVars
<1>3. ASSUME NEW r \in Requests, CommitAudio(r)
      PROVE  Board!Create(request[r].meeting)
  BY <1>3 DEF CommitAudio, PipelineInv, NamesAreBorn, Uncreated, Board!Create, childVars
<1>4. ASSUME NEW r \in Requests, TriggerCommit(r)
      PROVE  Board!Start(request[r].meeting)
  BY <1>4 DEF TriggerCommit, Board!Start, childVars
<1>5. ASSUME NEW r \in Requests, DeleteRow(r)
      PROVE  Board!Delete(request[r].meeting)
  BY <1>5 DEF DeleteRow, Cascade, Board!Delete, Board!Nothing, NoItems
<1>6. ASSUME NEW w \in Executors, FinishEmpty(w)
      PROVE  Board!ExtractNothing(job[w].meeting)
  BY <1>6 DEF FinishEmpty, MayUpdateRow, Board!ExtractNothing, childVars
<1>7. ASSUME NEW w \in Executors, NEW entries \in {0, 1}, CommitExtraction(w, entries)
      PROVE  Board!Extract(job[w].meeting)
  <2>1. fresh[w] \in SUBSET Tasks
    BY DEF TypeOK
  <2> QED
    BY <1>7, <2>1 DEF CommitExtraction, MayUpdateRow, Board!Extract
<1>8. ASSUME NEW w \in Executors, NEW result \in Results, CommitTranscript(w, result)
      PROVE  Board!Start(job[w].meeting) \/ UNCHANGED Board!board
  <2>1. CASE lock[w] = "held"
    BY <1>8, <2>1 DEF CommitTranscript, MayUpdateRow, Board!Start, childVars
  <2>2. CASE lock[w] # "held"
    BY <1>8, <1>a, <2>2 DEF CommitTranscript, Board!board, childVars
  <2> QED
    BY <2>1, <2>2
<1>9. ASSUME NEW w \in Executors, MarkDraft(w)
      PROVE  Board!Fail(job[w].meeting)
  <2>1. FailureRecord(job[w].kind) \in {{}, {"error"}}
    BY DEF FailureRecord
  <2>2. CASE UNCHANGED status
    <3>1. status' = [status EXCEPT ![job[w].meeting] = status[job[w].meeting]]
      BY <2>2 DEF TypeOK
    <3> QED
      BY <1>9, <2>1, <3>1 DEF MarkDraft, Board!Fail
  <2>3. CASE status' = [status EXCEPT ![job[w].meeting] = "draft"]
    BY <1>9, <2>1, <2>3 DEF MarkDraft, Board!Fail
  <2> QED
    BY <1>9, <2>2, <2>3 DEF MarkDraft
<1>10. CASE \E m \in Meetings, t \in Tasks :
              CompleteItem(m, t) \/ ReopenItem(m, t) \/ DeleteItem(m, t)
  BY <1>10, BoardEdit DEF Board!Next
<1>11. CASE UNCHANGED rowVars /\ UNCHANGED childVars
  BY <1>11 DEF rowVars, childVars, Board!board
<1>12. \/ UNCHANGED rowVars /\ UNCHANGED childVars
       \/ \E m \in Meetings, t \in Tasks :
            CompleteItem(m, t) \/ ReopenItem(m, t) \/ DeleteItem(m, t)
       \/ \E m \in Meetings, hasText \in BOOLEAN : CreateMeeting(m, hasText)
       \/ \E r \in Requests, m \in Meetings : UploadTranscriptFile(r, m)
       \/ \E r \in Requests : CommitAudio(r) \/ TriggerCommit(r) \/ DeleteRow(r)
       \/ \E w \in Executors : FinishEmpty(w) \/ MarkDraft(w)
       \/ \E w \in Executors, entries \in {0, 1} : CommitExtraction(w, entries)
       \/ \E w \in Executors, result \in Results : CommitTranscript(w, result)
  BY RowWriters, ChildWriters
<1>13. CASE \/ \E m \in Meetings, hasText \in BOOLEAN : CreateMeeting(m, hasText)
            \/ \E r \in Requests, m \in Meetings : UploadTranscriptFile(r, m)
  BY <1>1, <1>2, <1>13 DEF Board!Next
<1>14. ASSUME NEW r \in Requests, CommitAudio(r) \/ TriggerCommit(r) \/ DeleteRow(r)
       PROVE  Board!Next
  <2>1. request[r].meeting \in Meetings
    BY <1>c, <1>14 DEF CommitAudio, TriggerCommit, DeleteRow, Step
  <2> QED
    BY <1>3, <1>4, <1>5, <1>14, <2>1 DEF Board!Next
<1>15. ASSUME NEW w \in Executors, FinishEmpty(w) \/ MarkDraft(w)
       PROVE  Board!Next
  <2>1. job[w].meeting \in Meetings
    BY <1>b, <1>15 DEF FinishEmpty, MarkDraft
  <2> QED
    BY <1>6, <1>9, <1>15, <2>1 DEF Board!Next
<1>16. ASSUME NEW w \in Executors, NEW entries \in {0, 1}, CommitExtraction(w, entries)
       PROVE  Board!Next
  <2>1. job[w].meeting \in Meetings
    BY <1>b, <1>16 DEF CommitExtraction
  <2> QED
    BY <1>7, <1>16, <2>1 DEF Board!Next
<1>17. ASSUME NEW w \in Executors, NEW result \in Results, CommitTranscript(w, result)
       PROVE  Board!Next \/ UNCHANGED Board!board
  <2>1. job[w].meeting \in Meetings
    BY <1>b, <1>17 DEF CommitTranscript
  <2> QED
    BY <1>8, <1>17, <2>1 DEF Board!Next
<1>18. Board!Next \/ UNCHANGED Board!board
  BY <1>10, <1>11, <1>12, <1>13, <1>14, <1>15, <1>16, <1>17
<1> QED
  BY <1>18

(* To whoever reads the database the pipeline is the board: extractions    *)
(* appear whole, failures leave nothing but their record, and a deleted    *)
(* meeting never comes back, whatever crashes, retries and races occur.    *)
THEOREM PipelineImplementsBoard == Spec => BoardSpec
BY BoardInit, BoardStep, TypeCorrect, PipelineInvariant, PTL DEF Spec, BoardSpec, Board!Spec
=============================================================================
