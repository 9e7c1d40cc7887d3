---------------------------- MODULE BrowserProofs ----------------------------
(***************************************************************************)
(* Theorems about the two modules of the browser: CaptureFlow, for any     *)
(* meetings, any limit of polls and any number of mounts and of polls that *)
(* are out, and ItemPages, for any ids, fields and texts, any number of    *)
(* steps and any number of requests that are not yet heard.                *)
(***************************************************************************)
EXTENDS CaptureFlow, ItemPages, TLAPS

Answers == {"none", "error", "draft", "extracting", "extracted"}
Polls == [no : 1..MaxFlight, mount : Mounts \union {0}, meeting : Meetings \union {NoMeeting},
          answer : Answers]
Phases == {"idle", "creating", "triggering", "polling", "done", "error"}

CaptureTypes ==
  /\ page \in {"capture", "status", "items"} /\ here \in Mounts
  /\ from \in [Meetings -> Mounts \union {0}]
  /\ posting \in [Meetings -> {"none", "create", "trigger", "over"}]
  /\ phase \in [Mounts -> Phases]
  /\ timers \subseteq Meetings
  /\ ref \in [Mounts -> Meetings \union {NoMeeting}]
  /\ polls \in [Mounts -> 0..MaxPolls]
  /\ seen \in [Mounts \union {0} -> BOOLEAN]
  /\ shown \in Meetings \union {NoMeeting}
  /\ enabled \in BOOLEAN /\ over \in BOOLEAN
  /\ signs \subseteq {"error", "timeout", "failed", "done"}
  /\ flight \subseteq Polls /\ late \in BOOLEAN

(* What a mount has under way: a submission or an interval.                *)
Posting(m) == posting[m] \in {"create", "trigger"}
UnderWay(m) == Posting(m) \/ m \in timers

(* A submission has its mount, and is over when its interval begins.       *)
PostedFrom ==
  \A m \in Meetings : /\ posting[m] # "none" => from[m] \in Mounts
                      /\ m \in timers => posting[m] = "over"

(* While no poll is late there is one at a time, ...                       *)
OnePoll == late \/ \A f, g \in flight : f = g

(* ... none is out for a status page that has stopped, ...                 *)
StoppedIsQuiet == page = "status" /\ ~enabled /\ ~late => \A f \in flight : f.mount # 0

(* ... a mount has one thing under way, and its form is not shown then,    *)
OneAtATime ==
  late \/ \A m, n \in Meetings : UnderWay(m) /\ UnderWay(n) /\ from[m] = from[n] => m = n
FormIsFree ==
  late \/ \A m \in Meetings : UnderWay(m) => phase[from[m]] \notin {"idle", "error"}

(* ... and a poll is not out while its mount is submitting something else. *)
PollsFollow ==
  late \/ \A f \in flight, m \in Meetings : f.mount # 0 /\ from[m] = f.mount => ~Posting(m)

(* The inductive invariant.                                                *)
CaptureInv ==
  /\ CaptureTypes /\ PostedFrom /\ OnePoll /\ StoppedIsQuiet
  /\ OneAtATime /\ FormIsFree /\ PollsFollow
  /\ StoppedIsShown /\ TimersCanStop
-----------------------------------------------------------------------------
(* Types *)

(* A tab shows a page.                                                     *)
LEMMA ShowType ==
  ASSUME CaptureTypes, NEW p \in {"capture", "status", "items"},
         NEW m \in Meetings \union {NoMeeting}, Show(p, m)
  PROVE  /\ page' = p /\ timers' \subseteq timers /\ shown' = m /\ enabled' = (p = "status")
         /\ over' = FALSE /\ signs' = {} /\ late' = (late \/ flight # {})
         /\ from' = from /\ posting' = posting
         /\ enabled' \in BOOLEAN /\ late' \in BOOLEAN
BY DEF Show, CaptureTypes

(* A poll that is sent.                                                    *)
LEMMA SendType ==
  ASSUME CaptureTypes, NEW i \in Mounts \union {0}, NEW m \in Meetings \union {NoMeeting}, Send(i, m)
  PROVE  /\ flight' \subseteq Polls /\ late' \in BOOLEAN /\ late' = (late \/ flight # {})
         /\ \E f : f.mount = i /\ flight' = flight \union {f}
<1>1. PICK n \in 1..MaxFlight :
        flight' = flight \union {[no |-> n, mount |-> i, meeting |-> m, answer |-> "none"]}
  BY DEF Send
<1>2. [no |-> n, mount |-> i, meeting |-> m, answer |-> "none"] \in Polls
  BY DEF Polls, Answers
<1>3. late' = (late \/ flight # {})
  BY DEF Send
<1> HIDE DEF Polls
<1> QED
  BY <1>1, <1>2, <1>3 DEF CaptureTypes

(* An answer that comes: it is of the statuses the API knows.              *)
LEMMA AnswerType ==
  ASSUME CaptureTypes, NEW f \in flight, Answer(f)
  PROVE  /\ flight' \subseteq Polls
         /\ \E g : g.mount = f.mount /\ flight' = (flight \ {f}) \union {g}
         /\ UNCHANGED <<page, captureVars, seen, statusVars, late>>
<1>1. PICK a \in {"error"} \union (IF Board!Exists(f.meeting) THEN {state[f.meeting]} ELSE {}) :
        flight' = (flight \ {f}) \union {[f EXCEPT !.answer = a]}
  BY DEF Answer
<1>2. a \in Answers
  BY DEF Board!Exists, Answers
<1>3. f \in Polls
  BY DEF CaptureTypes
<1>4. [f EXCEPT !.answer = a] \in Polls /\ [f EXCEPT !.answer = a].mount = f.mount
  BY <1>2, <1>3 DEF Polls
<1>5. UNCHANGED <<page, captureVars, seen, statusVars, late>>
  BY DEF Answer
<1>6. flight' \subseteq Polls
  BY <1>1, <1>4 DEF CaptureTypes
<1> QED
  BY <1>1, <1>4, <1>5, <1>6

(* An answer that is heard by a status page: what the page makes of it.    *)
LEMMA HearType ==
  ASSUME CaptureTypes, NEW f \in flight, HearOnStatus(f)
  PROVE  /\ flight' = flight \ {f} /\ f.mount = 0 /\ page = "status"
         /\ \/ enabled' = FALSE /\ signs' # {}
            \/ enabled' = enabled
         /\ enabled' \in BOOLEAN /\ signs' \subseteq {"error", "timeout", "failed", "done"}
         /\ seen' \in [Mounts \union {0} -> BOOLEAN]
         /\ UNCHANGED <<page, captureVars, shown, over, late>>
<1>1. /\ flight' = flight \ {f} /\ f.mount = 0 /\ page = "status" /\ f.answer # "none"
      /\ UNCHANGED <<page, captureVars, shown, over, late>>
  BY DEF HearOnStatus
<1>2. f.answer \in {"error", "extracted", "extracting", "draft"}
  BY <1>1 DEF CaptureTypes, Polls, Answers
<1> USE DEF CaptureTypes, TimeoutSign
<1>3. CASE f.answer = "error"
  BY <1>1, <1>3 DEF HearOnStatus
<1>4. CASE f.answer # "error" /\ over
  BY <1>1, <1>4 DEF HearOnStatus
<1>5. CASE ~over /\ f.answer = "extracted"
  BY <1>1, <1>5 DEF HearOnStatus
<1>6. CASE ~over /\ f.answer = "extracting"
  BY <1>1, <1>6 DEF HearOnStatus
<1>7. CASE ~over /\ f.answer = "draft"
  BY <1>1, <1>7 DEF HearOnStatus
<1> QED
  BY <1>2, <1>3, <1>4, <1>5, <1>6, <1>7

(* Mount 0 is the status page, which is none of the capture page.          *)
LEMMA MountTypes == Mounts \subseteq Nat \ {0}
BY CaptureAssumption DEF Mounts

(* The tab moves to another page.                                          *)
LEMMA MoveType ==
  ASSUME CaptureTypes,
         \/ BackToCapture \/ Leave \/ Redirect \/ \E m \in Meetings : Uploaded(m)
  PROVE  CaptureTypes'
<1> USE DEF CaptureTypes
<1>1. CASE BackToCapture
  <2>1. PICK i \in Mounts :
          /\ here' = i
          /\ phase' = [phase EXCEPT ![i] = "idle"] /\ ref' = [ref EXCEPT ![i] = NoMeeting]
          /\ polls' = [polls EXCEPT ![i] = 0]
          /\ seen' = [seen EXCEPT ![0] = FALSE, ![i] = FALSE]
    BY <1>1 DEF BackToCapture
  <2>2. Show("capture", NoMeeting) /\ flight' = flight
    BY <1>1 DEF BackToCapture
  <2>3. 0 \in 0..MaxPolls
    BY CaptureAssumption
  <2>4. phase' \in [Mounts -> Phases] /\ polls' \in [Mounts -> 0..MaxPolls]
    BY <2>1, <2>3 DEF Phases
  <2>5. seen' \in [Mounts \union {0} -> BOOLEAN] /\ ref' \in [Mounts -> Meetings \union {NoMeeting}]
    BY <2>1
  <2> QED
    BY <2>1, <2>2, <2>4, <2>5, ShowType
<1>2. CASE Leave \/ Redirect
  BY <1>2, ShowType DEF Leave, Redirect, Remain
<1>3. ASSUME NEW m \in Meetings, Uploaded(m)
      PROVE  CaptureTypes'
  BY <1>3, ShowType DEF Uploaded, Remain
<1> QED
  BY <1>1, <1>2, <1>3

(* A submission and what its requests make of its mount.                   *)
LEMMA SubmitType ==
  ASSUME CaptureTypes, PostedFrom, NEW m \in Meetings,
         Submit(m) \/ Created(m) \/ StartPolling(m) \/ SubmitFails(m)
  PROVE  CaptureTypes'
<1> USE DEF CaptureTypes, statusVars
<1>1. CASE Submit(m)
  BY <1>1 DEF Submit, Phases
<1>2. posting[m] # "none" => from[m] \in Mounts
  BY DEF PostedFrom
<1>3. CASE Created(m)
  BY <1>2, <1>3 DEF Created, Phases
<1>4. CASE StartPolling(m)
  <2>1. 0 \in 0..MaxPolls
    BY CaptureAssumption
  <2> QED
    BY <1>2, <1>4, <2>1 DEF StartPolling, Phases
<1>5. CASE SubmitFails(m)
  BY <1>2, <1>5 DEF SubmitFails, Phases
<1> QED
  BY <1>1, <1>3, <1>4, <1>5

(* Intervals and polls.                                                    *)
LEMMA PollType ==
  ASSUME CaptureTypes, PostedFrom,
         \/ HandleRetry \/ StatusPolls \/ FiveMinutesPass
         \/ \E m \in Meetings : Tick(m) \/ BoardMoves(m) \/ Upload(m) \/ UploadFails(m)
         \/ \E f \in flight : Answer(f) \/ Hear(f)
  PROVE  CaptureTypes'
<1> USE DEF captureVars, statusVars
<1>1. CASE HandleRetry
  <2>1. 0 \in 0..MaxPolls
    BY CaptureAssumption
  <2> QED
    BY <1>1, <2>1 DEF CaptureTypes, HandleRetry, Clear, Phases
<1>2. CASE StatusPolls
  <2>1. Send(0, shown) /\ UNCHANGED <<page, captureVars, seen, statusVars>>
    BY <1>2 DEF StatusPolls
  <2>2. flight' \subseteq Polls /\ late' \in BOOLEAN
    BY <2>1, SendType DEF CaptureTypes
  <2> QED
    BY <2>1, <2>2 DEF CaptureTypes
<1>3. CASE FiveMinutesPass
  BY <1>3 DEF CaptureTypes, FiveMinutesPass
<1>4. ASSUME NEW m \in Meetings, Tick(m)
      PROVE  CaptureTypes'
  <2> DEFINE i == from[m]
  <2>0. i \in Mounts
    BY <1>4 DEF Tick, PostedFrom
  <2>1. polls' \in [Mounts -> 0..MaxPolls]
    BY <1>4, <2>0, CaptureAssumption DEF CaptureTypes, Tick
  <2>2. CASE TooMany(i) /\ Clear(i) /\ phase' = [phase EXCEPT ![i] = "error"] /\ UNCHANGED <<flight, late>>
    BY <1>4, <2>0, <2>1, <2>2 DEF CaptureTypes, Tick, Clear, Phases
  <2>3. CASE Send(i, m) /\ UNCHANGED <<phase, timers, ref>>
    <3>1. flight' \subseteq Polls /\ late' \in BOOLEAN
      BY <2>0, <2>3, SendType
    <3> QED
      BY <1>4, <2>0, <2>1, <2>3, <3>1 DEF CaptureTypes, Tick
  <2> QED
    BY <1>4, <2>2, <2>3 DEF Tick
<1>5. ASSUME NEW m \in Meetings, BoardMoves(m) \/ Upload(m) \/ UploadFails(m)
      PROVE  CaptureTypes'
  BY <1>5 DEF CaptureTypes, BoardMoves, Upload, UploadFails
<1>6. ASSUME NEW f \in flight, Answer(f)
      PROVE  CaptureTypes'
  BY <1>6, AnswerType DEF CaptureTypes
<1>7. ASSUME NEW f \in flight, HearOnCapture(f)
      PROVE  CaptureTypes'
  <2>1. f.mount \in Mounts
    BY <1>7 DEF CaptureTypes, Polls, HearOnCapture
  <2> QED
    BY <1>7, <2>1 DEF CaptureTypes, HearOnCapture, Clear, Phases
<1>8. ASSUME NEW f \in flight, HearExtracted(f)
      PROVE  CaptureTypes'
  <2>1. f.mount \in Mounts
    BY <1>8 DEF CaptureTypes, Polls, HearExtracted
  <2> QED
    BY <1>8, <2>1 DEF CaptureTypes, HearExtracted, Phases
<1>9. ASSUME NEW f \in flight, HearOnStatus(f)
      PROVE  CaptureTypes'
  BY <1>9, HearType DEF CaptureTypes
<1>10. ASSUME NEW f \in flight, HearAway(f)
       PROVE  CaptureTypes'
  <2>1. CASE Show("items", NoMeeting) /\ Remain
    BY <1>10, <2>1, ShowType DEF CaptureTypes, HearAway, Remain
  <2>2. CASE UNCHANGED <<state, page, captureVars, seen, statusVars, late>>
    BY <1>10, <2>2 DEF CaptureTypes, HearAway
  <2> QED
    BY <1>10, <2>1, <2>2 DEF HearAway
<1> QED
  BY <1>1, <1>2, <1>3, <1>4, <1>5, <1>6, <1>7, <1>8, <1>9, <1>10 DEF Hear

(* Every step keeps the types.                                             *)
LEMMA TypeStep ==
  ASSUME CaptureTypes, PostedFrom, [CaptureNext]_tabVars
  PROVE  CaptureTypes'
<1>1. CASE UNCHANGED tabVars
  BY <1>1 DEF CaptureTypes, tabVars, captureVars, statusVars
<1> QED
  BY <1>1, MoveType, SubmitType, PollType DEF CaptureNext
-----------------------------------------------------------------------------
(* What a page shows when it has stopped *)

PageInv == OnePoll /\ StoppedIsQuiet /\ StoppedIsShown

(* Fewer polls are out, and the page goes on or shows something else.      *)
LEMMA PageGoesOn ==
  ASSUME CaptureTypes, PageInv, flight' \subseteq flight, late => late',
         \/ page' = page /\ enabled' = enabled /\ signs' = signs
         \/ page' = "status" => enabled'
  PROVE  PageInv'
BY DEF PageInv, OnePoll, StoppedIsQuiet, StoppedIsShown

(* A poll is sent: it is late unless it is the only one.                   *)
LEMMA PageSends ==
  ASSUME CaptureTypes, PageInv, NEW i \in Mounts \union {0}, NEW m \in Meetings \union {NoMeeting},
         Send(i, m), i = 0 => enabled, page' = page, enabled' = enabled, signs' = signs
  PROVE  PageInv'
<1>1. PICK f : f.mount = i /\ flight' = flight \union {f} /\ late' = (late \/ flight # {})
  BY SendType
<1> QED
  BY <1>1 DEF PageInv, OnePoll, StoppedIsQuiet, StoppedIsShown, CaptureTypes

(* Every step keeps this.                                                  *)
LEMMA PageStep ==
  ASSUME CaptureTypes, PostedFrom, PageInv, [CaptureNext]_tabVars
  PROVE  PageInv'
<1> USE DEF captureVars, statusVars
<1>1. ASSUME Show("capture", NoMeeting) \/ Show("items", NoMeeting), flight' \subseteq flight
      PROVE  PageInv'
  BY <1>1, ShowType, PageGoesOn
<1>2. CASE BackToCapture \/ Leave \/ Redirect
  BY <1>1, <1>2 DEF BackToCapture, Leave, Redirect
<1>3. ASSUME NEW m \in Meetings, Uploaded(m)
      PROVE  PageInv'
  <2>1. Show("status", m) /\ flight' = flight
    BY <1>3 DEF Uploaded
  <2>2. enabled' /\ late' = (late \/ flight # {})
    BY <2>1, ShowType
  <2> QED
    BY <2>1, <2>2, PageGoesOn
<1>4. ASSUME NEW m \in Meetings,
             \/ Submit(m) \/ Created(m) \/ StartPolling(m) \/ SubmitFails(m)
             \/ BoardMoves(m) \/ Upload(m) \/ UploadFails(m)
      PROVE  PageInv'
  <2>1. flight' = flight /\ (late => late') /\ page' = page /\ enabled' = enabled /\ signs' = signs
    <3>1. CASE Submit(m)
      BY <3>1 DEF Submit
    <3>2. CASE Created(m)
      BY <3>2 DEF Created
    <3>3. CASE StartPolling(m)
      BY <3>3 DEF StartPolling
    <3>4. CASE SubmitFails(m)
      BY <3>4 DEF SubmitFails
    <3>5. CASE BoardMoves(m) \/ Upload(m) \/ UploadFails(m)
      BY <3>5 DEF BoardMoves, Upload, UploadFails
    <3> QED
      BY <1>4, <3>1, <3>2, <3>3, <3>4, <3>5
  <2> QED
    BY <2>1, PageGoesOn
<1>5. CASE HandleRetry \/ FiveMinutesPass
  <2>1. flight' = flight /\ late' = late /\ page' = page /\ enabled' = enabled /\ signs' = signs
    BY <1>5 DEF HandleRetry, FiveMinutesPass
  <2> QED
    BY <2>1, PageGoesOn
<1>6. CASE StatusPolls
  <2>1. Send(0, shown) /\ enabled /\ shown \in Meetings \union {NoMeeting}
    BY <1>6 DEF StatusPolls, CaptureTypes
  <2>2. page' = page /\ enabled' = enabled /\ signs' = signs
    BY <1>6 DEF StatusPolls
  <2> QED
    BY <2>1, <2>2, PageSends
<1>7. ASSUME NEW m \in Meetings, Tick(m)
      PROVE  PageInv'
  <2>0. from[m] \in Mounts /\ from[m] # 0
    BY <1>7, MountTypes DEF Tick, PostedFrom
  <2>1. page' = page /\ enabled' = enabled /\ signs' = signs
    BY <1>7 DEF Tick
  <2>2. Send(from[m], m) \/ UNCHANGED <<flight, late>>
    BY <1>7 DEF Tick
  <2> QED
    BY <2>0, <2>1, <2>2, PageSends, PageGoesOn
<1>8. ASSUME NEW f \in flight, Answer(f)
      PROVE  PageInv'
  <2>1. PICK g : g.mount = f.mount /\ flight' = (flight \ {f}) \union {g}
    BY <1>8, AnswerType
  <2>2. page' = page /\ enabled' = enabled /\ signs' = signs /\ late' = late
    BY <1>8, AnswerType
  <2> QED
    BY <2>1, <2>2 DEF PageInv, OnePoll, StoppedIsQuiet, StoppedIsShown
<1>9. ASSUME NEW f \in flight, HearOnCapture(f)
      PROVE  PageInv'
  <2>1. flight' = flight \ {f} /\ late' = late /\ page' = page /\ enabled' = enabled /\ signs' = signs
    BY <1>9 DEF HearOnCapture
  <2> QED
    BY <2>1, PageGoesOn
<1>10. ASSUME NEW f \in flight, HearExtracted(f)
       PROVE  PageInv'
  <2>1. flight' = flight \ {f} /\ (late => late') /\ page' = "items"
    BY <1>10 DEF HearExtracted
  <2> QED
    BY <2>1, PageGoesOn
<1>11. ASSUME NEW f \in flight, HearOnStatus(f)
       PROVE  PageInv'
  <2>1. flight' = flight \ {f} /\ f.mount = 0 /\ page = "status" /\ page' = page /\ late' = late
    BY <1>11, HearType
  <2>2. (enabled' = FALSE /\ signs' # {}) \/ enabled' = enabled
    BY <1>11, HearType
  <2>3. enabled \/ late
    BY <2>1 DEF PageInv, StoppedIsQuiet
  <2>4. late' \/ flight' = {}
    BY <2>1 DEF PageInv, OnePoll
  <2> QED
    BY <2>1, <2>2, <2>3, <2>4 DEF PageInv, OnePoll, StoppedIsQuiet, StoppedIsShown
<1>12. ASSUME NEW f \in flight, HearAway(f)
       PROVE  PageInv'
  <2>1. flight' = flight \ {f}
    BY <1>12 DEF HearAway
  <2>2. CASE UNCHANGED <<state, page, captureVars, seen, statusVars, late>>
    BY <2>1, <2>2, PageGoesOn
  <2> QED
    BY <1>1, <1>12, <2>1, <2>2 DEF HearAway
<1>13. CASE UNCHANGED tabVars
  <2>1. flight' = flight /\ late' = late /\ page' = page /\ enabled' = enabled /\ signs' = signs
    BY <1>13 DEF tabVars
  <2> QED
    BY <2>1, PageGoesOn
<1> QED
  BY <1>2, <1>3, <1>4, <1>5, <1>6, <1>7, <1>8, <1>9, <1>10, <1>11, <1>12, <1>13 DEF CaptureNext, Hear
-----------------------------------------------------------------------------
(* What a mount has under way *)

Ways == PostedFrom /\ OneAtATime /\ FormIsFree /\ PollsFollow /\ TimersCanStop

(* Polls of the mounts that had polls out before.                          *)
NoNewPolls == \A f \in flight' : f.mount = 0 \/ \E g \in flight : g.mount = f.mount

(* Submissions and mounts stay, and intervals at most stop.                *)
LEMMA WaysStay ==
  ASSUME CaptureTypes, Ways, from' = from, posting' = posting, phase' = phase, ref' = ref,
         timers' \subseteq timers, late => late', NoNewPolls
  PROVE  Ways'
<1> USE DEF Ways, UnderWay, Posting, CaptureTypes
<1>1. PostedFrom'
  BY DEF PostedFrom
<1>2. OneAtATime' /\ FormIsFree'
  BY DEF OneAtATime, FormIsFree
<1>3. PollsFollow'
  BY DEF PollsFollow, NoNewPolls
<1>4. TimersCanStop'
  BY DEF TimersCanStop
<1> QED
  BY <1>1, <1>2, <1>3, <1>4

(* The interval that a mount holds stops, and with it all that the mount   *)
(* has under way, unless a poll is late.                                   *)
LEMMA WaysClear ==
  ASSUME CaptureTypes, Ways, NEW i \in Mounts, from' = from, posting' = posting,
         \A j \in Mounts \ {i} : phase'[j] = phase[j],
         ref' = [ref EXCEPT ![i] = NoMeeting], timers' \subseteq timers \ {ref[i]},
         late => late', NoNewPolls,
         late \/ \A m \in Meetings : from[m] = i => ~Posting(m)
  PROVE  Ways'
<1> USE DEF Ways, UnderWay, Posting, CaptureTypes
<1>1. PostedFrom'
  BY DEF PostedFrom
<1>2. ASSUME ~late', NEW m \in Meetings, posting[m] \in {"create", "trigger"} \/ m \in timers'
      PROVE  from[m] \in Mounts \ {i}
  BY <1>2 DEF PostedFrom, TimersCanStop
<1>3. OneAtATime'
  BY DEF OneAtATime
<1>4. FormIsFree'
  BY <1>2 DEF FormIsFree
<1>5. PollsFollow'
  BY DEF PollsFollow, NoNewPolls
<1>6. TimersCanStop'
  BY <1>2 DEF TimersCanStop
<1> QED
  BY <1>1, <1>3, <1>4, <1>5, <1>6

(* A submission begins where nothing is under way.                         *)
LEMMA SubmitWays ==
  ASSUME CaptureTypes, Ways, NEW m \in Meetings, Submit(m)
  PROVE  Ways'
<1> USE DEF Ways, UnderWay, Posting, CaptureTypes
<1>1. /\ phase[here] \in {"idle", "error"} /\ posting[m] = "none" /\ here \in Mounts
      /\ from' = [from EXCEPT ![m] = here] /\ posting' = [posting EXCEPT ![m] = "create"]
      /\ phase' = [phase EXCEPT ![here] = "creating"] /\ late' = (late \/ flight # {})
      /\ UNCHANGED <<timers, ref, flight>>
  BY DEF Submit, FormIsShown, New
<1>2. PostedFrom'
  BY <1>1 DEF PostedFrom
<1>3. m \notin timers /\ (late' => TRUE) /\ (~late' => ~late /\ flight = {})
  BY <1>1 DEF PostedFrom
<1>4. ASSUME ~late', NEW n \in Meetings, UnderWay(n)
      PROVE  from[n] # here
  BY <1>1, <1>3, <1>4 DEF FormIsFree
<1>5. OneAtATime'
  BY <1>1, <1>3, <1>4 DEF OneAtATime
<1>6. FormIsFree'
  BY <1>1, <1>2, <1>3, <1>4 DEF FormIsFree, PostedFrom
<1>7. PollsFollow' /\ TimersCanStop'
  BY <1>1, <1>3 DEF PollsFollow, TimersCanStop
<1> QED
  BY <1>2, <1>5, <1>6, <1>7

(* Its requests follow each other.                                         *)
LEMMA CreatedWays ==
  ASSUME CaptureTypes, Ways, NEW m \in Meetings, Created(m)
  PROVE  Ways'
<1> USE DEF Ways, UnderWay, Posting, CaptureTypes
<1>1. /\ posting[m] = "create" /\ posting' = [posting EXCEPT ![m] = "trigger"]
      /\ phase' = [phase EXCEPT ![from[m]] = "triggering"]
      /\ UNCHANGED <<from, timers, ref, flight, late>>
  BY DEF Created
<1>2. from[m] \in Mounts /\ m \notin timers
  BY <1>1 DEF PostedFrom
<1>3. PostedFrom'
  BY <1>1, <1>2 DEF PostedFrom
<1>4. OneAtATime'
  BY <1>1 DEF OneAtATime
<1>5. FormIsFree'
  BY <1>1, <1>2, <1>3 DEF FormIsFree, PostedFrom
<1>6. PollsFollow' /\ TimersCanStop'
  BY <1>1 DEF PollsFollow, TimersCanStop
<1> QED
  BY <1>3, <1>4, <1>5, <1>6

(* The interval begins when its mount has no other one.                    *)
LEMMA StartWays ==
  ASSUME CaptureTypes, Ways, NEW m \in Meetings, StartPolling(m)
  PROVE  Ways'
<1> USE DEF Ways, UnderWay, Posting, CaptureTypes
<1>1. /\ posting[m] = "trigger" /\ posting' = [posting EXCEPT ![m] = "over"]
      /\ phase' = [phase EXCEPT ![from[m]] = "polling"]
      /\ timers' = timers \union {m} /\ ref' = [ref EXCEPT ![from[m]] = m]
      /\ UNCHANGED <<from, flight, late>>
  BY DEF StartPolling
<1>2. from[m] \in Mounts /\ m \notin timers
  BY <1>1 DEF PostedFrom
<1>3. PostedFrom'
  BY <1>1, <1>2 DEF PostedFrom
<1>4. OneAtATime'
  BY <1>1 DEF OneAtATime
<1>5. FormIsFree'
  BY <1>1, <1>2, <1>3 DEF FormIsFree, PostedFrom
<1>6. PollsFollow'
  BY <1>1 DEF PollsFollow
<1>7. TimersCanStop'
  BY <1>1, <1>2, <1>3 DEF TimersCanStop, OneAtATime, PostedFrom
<1> QED
  BY <1>3, <1>4, <1>5, <1>6, <1>7

(* A submission that fails was all that its mount had under way.           *)
LEMMA FailsWays ==
  ASSUME CaptureTypes, Ways, NEW m \in Meetings, SubmitFails(m)
  PROVE  Ways'
<1> USE DEF Ways, UnderWay, Posting, CaptureTypes
<1>1. /\ posting[m] \in {"create", "trigger"} /\ posting' = [posting EXCEPT ![m] = "over"]
      /\ phase' = [phase EXCEPT ![from[m]] = "error"]
      /\ UNCHANGED <<from, timers, ref, flight, late>>
  BY DEF SubmitFails
<1>2. from[m] \in Mounts /\ m \notin timers
  BY <1>1 DEF PostedFrom
<1>3. PostedFrom'
  BY <1>1, <1>2 DEF PostedFrom
<1>4. OneAtATime'
  BY <1>1 DEF OneAtATime
<1>5. FormIsFree'
  BY <1>1, <1>2, <1>3 DEF FormIsFree, OneAtATime, PostedFrom
<1>6. PollsFollow' /\ TimersCanStop'
  BY <1>1 DEF PollsFollow, TimersCanStop
<1> QED
  BY <1>3, <1>4, <1>5, <1>6

(* A mount number is used again when nothing of it is under way.           *)
LEMMA BackWays ==
  ASSUME CaptureTypes, Ways, BackToCapture
  PROVE  Ways'
<1> USE DEF Ways, UnderWay, Posting, CaptureTypes
<1>1. /\ timers' \subseteq timers /\ late' = (late \/ flight # {})
      /\ from' = from /\ posting' = posting /\ flight' = flight
  <2>1. Show("capture", NoMeeting) /\ flight' = flight
    BY DEF BackToCapture
  <2> QED
    BY <2>1, ShowType
<1>2. PICK i \in Mounts :
        /\ Free(i)
        /\ phase' = [phase EXCEPT ![i] = "idle"] /\ ref' = [ref EXCEPT ![i] = NoMeeting]
  BY DEF BackToCapture
<1>3. ASSUME NEW m \in Meetings, UnderWay(m)
      PROVE  from[m] \in Mounts \ {i}
  BY <1>2, <1>3 DEF Free, PostedFrom
<1>4. PostedFrom'
  BY <1>1 DEF PostedFrom
<1>5. OneAtATime'
  BY <1>1 DEF OneAtATime
<1>6. FormIsFree'
  BY <1>1, <1>2, <1>3 DEF FormIsFree
<1>7. PollsFollow'
  BY <1>1 DEF PollsFollow
<1>8. TimersCanStop'
  BY <1>1, <1>2, <1>3 DEF TimersCanStop
<1> QED
  BY <1>4, <1>5, <1>6, <1>7, <1>8

(* An interval goes off: its poll follows what its mount has under way.    *)
LEMMA TickWays ==
  ASSUME CaptureTypes, Ways, NEW m \in Meetings, Tick(m)
  PROVE  Ways'
<1> DEFINE i == from[m]
<1>1. m \in timers /\ i \in Mounts /\ from' = from /\ posting' = posting /\ ~Posting(m)
  BY DEF Tick, Ways, PostedFrom, Posting
<1>2. late \/ \A n \in Meetings : from[n] = i => ~Posting(n)
  BY <1>1 DEF Ways, OneAtATime, UnderWay
<1>3. CASE TooMany(i) /\ Clear(i) /\ phase' = [phase EXCEPT ![i] = "error"] /\ UNCHANGED <<flight, late>>
  <2>1. timers' = timers \ {ref[i]} /\ ref' = [ref EXCEPT ![i] = NoMeeting]
    BY <1>3 DEF Clear
  <2>2. \A j \in Mounts \ {i} : phase'[j] = phase[j]
    BY <1>3 DEF CaptureTypes
  <2>3. NoNewPolls
    BY <1>3 DEF NoNewPolls
  <2> QED
    BY <1>1, <1>2, <1>3, <2>1, <2>2, <2>3, WaysClear
<1>4. CASE Send(i, m) /\ UNCHANGED <<phase, timers, ref>>
  <2>1. PICK f : f.mount = i /\ flight' = flight \union {f} /\ late' = (late \/ flight # {})
    BY <1>1, <1>4, SendType
  <2>2. PostedFrom' /\ OneAtATime' /\ FormIsFree' /\ TimersCanStop'
    BY <1>1, <1>4, <2>1
    DEF Ways, PostedFrom, OneAtATime, FormIsFree, TimersCanStop, UnderWay, Posting
  <2>3. PollsFollow'
    BY <1>1, <1>2, <2>1 DEF Ways, PollsFollow, Posting
  <2> QED
    BY <2>2, <2>3 DEF Ways
<1> QED
  BY <1>3, <1>4 DEF Tick

(* Every step keeps this.                                                  *)
LEMMA WaysStep ==
  ASSUME CaptureTypes, Ways, [CaptureNext]_tabVars
  PROVE  Ways'
<1> USE DEF captureVars, statusVars
<1>1. ASSUME NEW p \in {"capture", "status", "items"}, NEW m \in Meetings \union {NoMeeting},
             Show(p, m), Remain, flight' \subseteq flight
      PROVE  Ways'
  <2>1. /\ from' = from /\ posting' = posting /\ timers' \subseteq timers
        /\ late' = (late \/ flight # {}) /\ phase' = phase /\ ref' = ref
    BY <1>1, ShowType DEF Remain
  <2>2. NoNewPolls
    BY <1>1 DEF NoNewPolls
  <2> QED
    BY <2>1, <2>2, WaysStay
<1>2. CASE Leave \/ Redirect \/ \E m \in Meetings : Uploaded(m)
  BY <1>1, <1>2 DEF Leave, Redirect, Uploaded
<1>3. CASE HandleRetry
  <2>1. /\ from' = from /\ posting' = posting /\ phase' = [phase EXCEPT ![here] = "idle"]
        /\ timers' = timers \ {ref[here]} /\ ref' = [ref EXCEPT ![here] = NoMeeting]
        /\ flight' = flight /\ late' = late /\ phase[here] = "error"
    BY <1>3 DEF HandleRetry, Clear
  <2>2. here \in Mounts /\ \A j \in Mounts \ {here} : phase'[j] = phase[j]
    BY <2>1 DEF CaptureTypes
  <2>3. late \/ \A m \in Meetings : from[m] = here => ~Posting(m)
    BY <2>1 DEF Ways, FormIsFree, UnderWay
  <2>4. NoNewPolls
    BY <2>1 DEF NoNewPolls
  <2> QED
    BY <2>1, <2>2, <2>3, <2>4, WaysClear
<1>4. CASE StatusPolls
  <2>1. Send(0, shown) /\ shown \in Meetings \union {NoMeeting}
    BY <1>4 DEF StatusPolls, CaptureTypes
  <2>2. PICK f : f.mount = 0 /\ flight' = flight \union {f} /\ late' = (late \/ flight # {})
    BY <2>1, SendType
  <2>3. NoNewPolls
    BY <2>2 DEF NoNewPolls
  <2>4. from' = from /\ posting' = posting /\ phase' = phase /\ ref' = ref /\ timers' = timers
    BY <1>4 DEF StatusPolls
  <2> QED
    BY <2>2, <2>3, <2>4, WaysStay
<1>5. ASSUME from' = from, posting' = posting, phase' = phase, ref' = ref, timers' = timers,
             late' = late, flight' \subseteq flight
      PROVE  Ways'
  BY <1>5, WaysStay DEF NoNewPolls
<1>6. CASE FiveMinutesPass \/ UNCHANGED tabVars
  BY <1>5, <1>6 DEF FiveMinutesPass, tabVars
<1>7. ASSUME NEW m \in Meetings, BoardMoves(m) \/ Upload(m) \/ UploadFails(m)
      PROVE  Ways'
  BY <1>5, <1>7 DEF BoardMoves, Upload, UploadFails
<1>8. ASSUME NEW f \in flight, Answer(f)
      PROVE  Ways'
  <2>1. PICK g : g.mount = f.mount /\ flight' = (flight \ {f}) \union {g}
    BY <1>8, AnswerType
  <2>2. NoNewPolls
    BY <2>1 DEF NoNewPolls
  <2>3. /\ from' = from /\ posting' = posting /\ phase' = phase /\ ref' = ref /\ timers' = timers
        /\ late' = late
    BY <1>8, AnswerType
  <2> QED
    BY <2>2, <2>3, WaysStay
<1>9. ASSUME NEW f \in flight, f.mount # 0
      PROVE  late \/ \A m \in Meetings : from[m] = f.mount => ~Posting(m)
  BY <1>9 DEF Ways, PollsFollow
<1>10. ASSUME NEW f \in flight, HearOnCapture(f)
       PROVE  Ways'
  <2> DEFINE i == f.mount
  <2>1. /\ i \in Mounts /\ i # 0 /\ flight' = flight \ {f} /\ late' = late
        /\ from' = from /\ posting' = posting
    BY <1>10 DEF HearOnCapture, CaptureTypes, Polls
  <2>2. NoNewPolls
    BY <2>1 DEF NoNewPolls
  <2>3. CASE Clear(i) /\ phase' = [phase EXCEPT ![i] = "error"]
    <3>1. timers' = timers \ {ref[i]} /\ ref' = [ref EXCEPT ![i] = NoMeeting]
      BY <2>3 DEF Clear
    <3>2. \A j \in Mounts \ {i} : phase'[j] = phase[j]
      BY <2>3 DEF CaptureTypes
    <3> QED
      BY <1>9, <2>1, <2>2, <3>1, <3>2, WaysClear
  <2>4. CASE UNCHANGED <<timers, ref, phase>>
    BY <2>1, <2>4, <1>5
  <2> QED
    BY <1>10, <2>3, <2>4 DEF HearOnCapture
<1>11. ASSUME NEW f \in flight, HearExtracted(f)
       PROVE  Ways'
  <2> DEFINE i == f.mount
  <2>1. /\ i \in Mounts /\ i # 0 /\ flight' = flight \ {f} /\ (late => late')
        /\ from' = from /\ posting' = posting
    BY <1>11 DEF HearExtracted, CaptureTypes, Polls
  <2>2. NoNewPolls
    BY <2>1 DEF NoNewPolls
  <2>3. /\ timers' \subseteq timers \ {ref[i]} /\ ref' = [ref EXCEPT ![i] = NoMeeting]
        /\ \A j \in Mounts \ {i} : phase'[j] = phase[j]
    BY <1>11 DEF HearExtracted, CaptureTypes
  <2> QED
    BY <1>9, <2>1, <2>2, <2>3, WaysClear
<1>12. ASSUME NEW f \in flight, HearOnStatus(f)
       PROVE  Ways'
  BY <1>5, <1>12, HearType
<1>13. ASSUME NEW f \in flight, HearAway(f)
       PROVE  Ways'
  <2>1. flight' = flight \ {f}
    BY <1>13 DEF HearAway
  <2>2. CASE Show("items", NoMeeting) /\ Remain
    BY <1>1, <2>1, <2>2
  <2>3. CASE UNCHANGED <<state, page, captureVars, seen, statusVars, late>>
    BY <1>5, <2>1, <2>3
  <2> QED
    BY <1>13, <2>2, <2>3 DEF HearAway
<1> QED
  BY <1>2, <1>3, <1>4, <1>6, <1>7, <1>8, <1>10, <1>11, <1>12, <1>13,
     SubmitWays, CreatedWays, StartWays, FailsWays, BackWays, TickWays
  DEF CaptureNext, Hear
-----------------------------------------------------------------------------
(* Theorems *)

(* The tab starts with nothing under way.                                  *)
LEMMA InitHolds == CaptureInit => CaptureInv
<1> SUFFICES ASSUME CaptureInit PROVE CaptureInv
  OBVIOUS
<1>1. 1 \in Mounts /\ 0 \in 0..MaxPolls
  BY CaptureAssumption DEF Mounts
<1>2. CaptureTypes
  BY <1>1 DEF CaptureInit, CaptureTypes, Phases
<1> QED
  BY <1>2
  DEF CaptureInit, CaptureInv, PostedFrom, OnePoll, StoppedIsQuiet, OneAtATime, FormIsFree, PollsFollow,
      UnderWay, Posting, StoppedIsShown, TimersCanStop

(* The parts of the invariant hold together, in every state.               *)
THEOREM CaptureInvariant == CaptureSpec => []CaptureInv
<1>1. CaptureInv /\ [CaptureNext]_tabVars => CaptureInv'
  BY TypeStep, PageStep, WaysStep DEF CaptureInv, PageInv, Ways
<1> QED
  BY <1>1, InitHolds, PTL DEF CaptureSpec

(* Every variable of the tab keeps its type: the refs of a mount hold a    *)
(* meeting or none, and an answer is a status the API knows or an error.   *)
THEOREM TypeCorrect == CaptureSpec => []CaptureTypes
BY CaptureInvariant, PTL DEF CaptureInv

(* A status page that has stopped polling says why, unless an answer came  *)
(* late: whatever the API answers and wherever the tab goes meanwhile.     *)
THEOREM StoppedPagesTell == CaptureSpec => []StoppedIsShown
BY CaptureInvariant, PTL DEF CaptureInv

(* Every interval of the capture page is held by the ref of its mount,     *)
(* unless a poll was late: a mount never has two things under way.         *)
THEOREM IntervalsCanStop == CaptureSpec => []TimersCanStop
BY CaptureInvariant, PTL DEF CaptureInv
-----------------------------------------------------------------------------
(* Items: the inductive invariant *)

(* A field holds a text, nothing yet, or what the draft began with.        *)
Forms == [Fields -> Texts \union {None} \union {Draft.text[f] : f \in Fields}]
(* What a card has saved is no cleared date.                               *)
Marks == {m \in Forms : \A f \in Fields : ~Unset(f, m[f])}
ItemRows == [origin : Ids \union {0, Draft.origin}, text : Forms, review : BOOLEAN]
Tables == [Ids -> ItemRows]
Listings == Tables \union {Nothing}
CardStates == [form : Forms, typed : SUBSET Fields, editing : BOOLEAN]
Fetches == [phase : {"idle", "sent", "answered"}, rows : Listings]
CallKinds == {"patch", "review", "delete", "bulk"}
Requests == [kind : CallKinds, id : Ids \union {0}, data : Listings, page : Views,
             answer : {"sent", "ok", "error", "early", "heard"}]

ItemTypes ==
  /\ rows \in Tables /\ view \in Views \union {"none"}
  /\ cache \in [Views -> Listings] /\ query \in [Views -> Fetches]
  /\ invalid \in [Views -> BOOLEAN] /\ failed \in [Views -> BOOLEAN]
  /\ cards \in [Ids -> CardStates] /\ calls \subseteq Requests
  /\ own \in [Ids -> Marks] /\ hasty \in BOOLEAN

(* An answer brings a table, and every request that needs one has its row  *)
(* and its data.                                                           *)
AnswersAreTables == \A v \in Views : query[v].phase = "answered" => query[v].rows \in Tables
CallsAreWhole ==
  \A c \in calls : /\ c.kind # "bulk" => c.id \in Ids
                   /\ c.kind # "delete" => c.data \in Tables

(* A card, and what it remembers, is that of an item that the page lists.  *)
CardsAreListed ==
  \A i \in Ids : cards[i] # NoCard \/ own[i] # Untouched =>
    view # "none" /\ cache[view] # Nothing /\ cache[view][i] # NoRow

(* What the user has saved in a card is in its form until it is typed over, *)
FormKeeps == ~hasty =>
  \A i \in Ids, f \in Fields :
    cards[i] # NoCard /\ own[i][f] # None /\ f \notin cards[i].typed => cards[i].form[f] = own[i][f]

(* ... in every save of that card that is yet to be committed, ...         *)
SavesKeep == ~hasty =>
  \A c \in calls : c.kind = "patch" /\ c.answer \in {"sent", "early", "heard"} =>
    \A f \in Fields : own[c.id][f] \in {None, c.data[c.id].text[f]}

(* ... in the table, unless a save of the page is under way, ...           *)
SaveOf(c, i) == c \in calls /\ c.kind = "patch" /\ c.id = i /\ c.page = view
Saving(i) == \E c \in calls : SaveOf(c, i) /\ c.answer \in {"sent", "early"}
Stored == ~hasty =>
  \A i \in Ids, f \in Fields : own[i][f] # None =>
    rows[i] = NoRow \/ rows[i].text[f] = own[i][f] \/ Saving(i)

(* ... and in what the page shows, unless a save is not yet heard or a     *)
(* fetch is to come that finds it.                                         *)
Coming(i) == \E c \in calls : SaveOf(c, i) /\ c.answer \in {"sent", "early", "ok"}
ShownSoon == ~hasty =>
  \A i \in Ids, f \in Fields : own[i][f] # None =>
    \/ Coming(i) \/ query[view] = Sent
    \/ query[view].phase = "answered"
       /\ (query[view].rows[i] = NoRow \/ query[view].rows[i].text[f] = own[i][f])
    \/ query[view] = Idle /\ cache[view][i].text[f] = own[i][f]

(* The inductive invariant of the pages of items.                          *)
EditsKept == FormKeeps /\ SavesKeep /\ Stored /\ ShownSoon
Mountable == ItemTypes /\ AnswersAreTables /\ CallsAreWhole /\ CardsAreListed
ItemsInv == Mountable /\ EditsKept
-----------------------------------------------------------------------------
(* Items: types *)

(* What stands for nothing has its type.                                   *)
LEMMA EmptyTypes ==
  /\ Untouched \in Forms /\ NoRow \in ItemRows /\ NoCard \in CardStates
  /\ Idle \in Fetches /\ Sent \in Fetches /\ Nothing \in Listings
  /\ Untouched \in Marks
<1>1. Untouched \in Forms /\ \A f \in Fields : ~Unset(f, Untouched[f])
  BY ItemPagesAssumption DEF Untouched, Forms, Unset, None
<1> QED
  BY <1>1 DEF Marks, Untouched, Forms, NoRow, ItemRows, NoCard, CardStates, Idle, Sent, Fetches, Listings

(* A table of one row or more is not the empty one.                        *)
LEMMA TablesHoldRows ==
  ASSUME NEW t \in Tables, NEW i \in Ids PROVE t # Nothing
<1>1. DOMAIN t = Ids
  BY DEF Tables
<1>2. DOMAIN Nothing = {}
  BY DEF Nothing
<1> QED
  BY <1>1, <1>2

(* The draft is a row, and a table of one row is a table.                  *)
LEMMA OnlyType ==
  ASSUME NEW i, NEW r \in ItemRows PROVE Only(i, r) \in Tables
BY EmptyTypes DEF Only, Tables

LEMMA DraftType == Draft \in ItemRows
<1>1. Draft.text \in Forms
  BY DEF Draft, Forms
<1> QED
  BY <1>1 DEF Draft, ItemRows

(* What a card is mounted with, and the cards of a listing.                *)
LEMMA MountedType == ASSUME NEW r \in ItemRows PROVE Mounted(r) \in CardStates
BY DEF Mounted, ItemRows, CardStates

LEMMA CardsOfType ==
  ASSUME ItemTypes, NEW listed \in Listings, NEW before
  PROVE  /\ CardsOf(listed, before) \in [Ids -> CardStates]
         /\ \A i \in Ids : /\ CardsOf(listed, before)[i] # NoCard => listed # Nothing /\ listed[i] # NoRow
                           /\ Stays(i, listed, before) /\ listed # Nothing =>
                                CardsOf(listed, before)[i] = cards[i]
<1>1. ASSUME NEW i \in Ids, listed # Nothing PROVE listed[i] \in ItemRows
  BY <1>1 DEF Listings, Tables
<1>2. ASSUME NEW i \in Ids PROVE cards[i] \in CardStates
  BY DEF ItemTypes
<1>3. ASSUME NEW i \in Ids, listed # Nothing PROVE Mounted(listed[i]) \in CardStates
  BY <1>1, <1>3, MountedType
<1>4. CardsOf(listed, before) \in [Ids -> CardStates]
  BY <1>2, <1>3, EmptyTypes DEF CardsOf
<1>5. ASSUME NEW i \in Ids
      PROVE  /\ CardsOf(listed, before)[i] # NoCard => listed # Nothing /\ listed[i] # NoRow
             /\ Stays(i, listed, before) /\ listed # Nothing => CardsOf(listed, before)[i] = cards[i]
  BY DEF CardsOf, Stays
<1> QED
  BY <1>4, <1>5

LEMMA FirstCardsType ==
  ASSUME ItemTypes, NEW v \in Views
  PROVE  /\ FirstCards(v) \in [Ids -> CardStates]
         /\ \A i \in Ids : FirstCards(v)[i] # NoCard => cache[v] # Nothing /\ cache[v][i] # NoRow
<1>1. cache[v] \in Listings
  BY DEF ItemTypes
<1>2. CASE failed[v]
  BY <1>2, EmptyTypes DEF FirstCards
<1>3. CASE ~failed[v]
  <2>1. FirstCards(v) = CardsOf(cache[v], Nothing)
    BY <1>3 DEF FirstCards
  <2> QED
    BY <1>1, <2>1, CardsOfType
<1> QED
  BY <1>2, <1>3

(* A request that is sent, and one that is answered.                       *)
LEMMA MutateType ==
  ASSUME ItemTypes, CallsAreWhole, NEW kind \in CallKinds, NEW i \in Ids \union {0},
         NEW data \in Listings, view \in Views,
         kind # "bulk" => i \in Ids, kind # "delete" => data \in Tables,
         Mutate(Call(kind, i, data))
  PROVE  /\ calls' \subseteq Requests /\ CallsAreWhole'
         /\ calls' = calls \union {Call(kind, i, data)}
<1> DEFINE call == Call(kind, i, data)
<1>1. call \in Requests /\ call.kind = kind /\ call.id = i /\ call.data = data
  BY DEF Call, Requests
<1>2. calls' = calls \union {call}
  BY DEF Mutate
<1>3. calls' \subseteq Requests
  BY <1>1, <1>2 DEF ItemTypes
<1> HIDE DEF call
<1>4. CallsAreWhole'
  BY <1>1, <1>2 DEF CallsAreWhole
<1> QED
  BY <1>2, <1>3, <1>4 DEF call

LEMMA AppliedType ==
  ASSUME ItemTypes, CallsAreWhole, NEW c \in calls, NEW a \in {"ok", "error", "early", "heard"},
         Applied(c, a)
  PROVE  /\ calls' \subseteq Requests /\ CallsAreWhole'
         /\ \E d : /\ calls' = (calls \ {c}) \union {d} /\ d.answer = a
                   /\ d.kind = c.kind /\ d.id = c.id /\ d.data = c.data /\ d.page = c.page
<1> DEFINE d == [c EXCEPT !.answer = a]
<1>1. c \in Requests
  BY DEF ItemTypes
<1>2. d \in Requests /\ d.answer = a /\ d.kind = c.kind /\ d.id = c.id /\ d.data = c.data /\ d.page = c.page
  BY <1>1 DEF Requests
<1>3. calls' = (calls \ {c}) \union {d}
  BY DEF Applied
<1> HIDE DEF d
<1>4. calls' \subseteq Requests
  BY <1>2, <1>3 DEF ItemTypes
<1>5. CallsAreWhole'
  BY <1>2, <1>3 DEF CallsAreWhole
<1> QED
  BY <1>2, <1>3, <1>4, <1>5

(* What invalidating does to the fetches.                                  *)
LEMMA InvalidateType ==
  ASSUME ItemTypes, AnswersAreTables, NEW vs \in SUBSET Views, Invalidate(vs)
  PROVE  /\ query' \in [Views -> Fetches] /\ invalid' \in [Views -> BOOLEAN] /\ AnswersAreTables'
         /\ view \in vs => query'[view] = Sent
         /\ view \notin vs => query'[view] = query[view] \/ view \notin Views
<1>1. invalid' \in [Views -> BOOLEAN]
  BY DEF Invalidate, ItemTypes
<1>2. query' = [v \in Views |-> IF v \in vs /\ v = view THEN Sent ELSE query[v]]
  BY DEF Invalidate
<1>3. query' \in [Views -> Fetches]
  BY <1>2, EmptyTypes DEF ItemTypes
<1>4. Sent.phase # "answered"
  BY DEF Sent
<1>5. AnswersAreTables'
  BY <1>2, <1>4 DEF AnswersAreTables
<1> QED
  BY <1>1, <1>2, <1>3, <1>5

LEMMA InvalidatesType == \A c : Invalidates(c) \in SUBSET Views
BY DEF Invalidates, Views

(* Fetches: one that is answered, heard, given up or sent.                 *)
LEMMA ListItemsTypes == ASSUME Mountable, NEW v \in Views, ListItems(v) PROVE Mountable'
<1> USE DEF Mountable
<1>1. query' = [query EXCEPT ![v] = Fetched(rows)]
      /\ UNCHANGED <<rows, view, cache, invalid, failed, cards, own, hasty, calls>>
  BY DEF ListItems, cardVars
<1>2. Fetched(rows) \in Fetches /\ Fetched(rows).rows \in Tables
  BY DEF Fetched, Fetches, Listings, ItemTypes
<1>3. ItemTypes'
  BY <1>1, <1>2 DEF ItemTypes
<1>4. AnswersAreTables'
  BY <1>1, <1>2 DEF AnswersAreTables, ItemTypes
<1>5. CallsAreWhole' /\ CardsAreListed'
  BY <1>1 DEF CallsAreWhole, CardsAreListed
<1> QED
  BY <1>3, <1>4, <1>5

LEMMA QueryHeardTypes ==
  ASSUME Mountable, NEW v \in Views, QueryHeard(v) PROVE Mountable'
<1> DEFINE listed == query[v].rows
<1> USE DEF Mountable
<1>1. /\ query[v].phase = "answered" /\ cache' = [cache EXCEPT ![v] = listed]
      /\ query' = [query EXCEPT ![v] = Idle] /\ invalid' = [invalid EXCEPT ![v] = FALSE]
      /\ failed' = [failed EXCEPT ![v] = FALSE]
      /\ UNCHANGED <<rows, view, calls, hasty>>
  BY DEF QueryHeard
<1>2. v = view => /\ cards' = CardsOf(listed, cache[v])
                  /\ own' = [i \in Ids |-> IF Stays(i, listed, cache[v]) THEN own[i] ELSE Untouched]
  BY DEF QueryHeard
<1>3. v # view => UNCHANGED <<cards, own>>
  BY DEF QueryHeard
<1>4. listed \in Tables /\ listed \in Listings
  BY <1>1 DEF AnswersAreTables, Listings
<1> HIDE DEF listed
<1>5. \A i \in Ids : Stays(i, listed, cache[v]) => listed[i] # NoRow
  BY DEF Stays
<1>6. cards' \in [Ids -> CardStates] /\ own' \in [Ids -> Marks]
  BY <1>2, <1>3, <1>4, CardsOfType, EmptyTypes DEF ItemTypes
<1>7. ItemTypes'
  BY <1>1, <1>4, <1>6, EmptyTypes DEF ItemTypes
<1>8. Idle.phase # "answered"
  BY DEF Idle
<1>9. AnswersAreTables' /\ CallsAreWhole'
  BY <1>1, <1>8 DEF AnswersAreTables, CallsAreWhole, ItemTypes
<1>10. ASSUME NEW i \in Ids, cards'[i] # NoCard \/ own'[i] # Untouched
       PROVE  view' # "none" /\ cache'[view'] # Nothing /\ cache'[view'][i] # NoRow
  <2>1. CASE v # view
    <3>1. view # "none" /\ cache[view] # Nothing /\ cache[view][i] # NoRow
      BY <1>3, <1>10, <2>1 DEF CardsAreListed
    <3> QED
      BY <1>1, <2>1, <3>1 DEF ItemTypes
  <2>2. CASE v = view
    <3>1. listed # Nothing /\ listed[i] # NoRow
      BY <1>2, <1>4, <1>5, <1>10, <2>2, CardsOfType, TablesHoldRows
    <3>2. cache'[view'] = listed
      BY <1>1, <2>2 DEF ItemTypes
    <3> QED
      BY <1>1, <2>2, <3>1, <3>2 DEF Views
  <2> QED
    BY <2>1, <2>2
<1> QED
  BY <1>7, <1>9, <1>10 DEF CardsAreListed

LEMMA QueryFailsTypes ==
  ASSUME Mountable, NEW v \in Views, QueryFails(v) PROVE Mountable'
<1> USE DEF Mountable
<1>1. /\ query' = [query EXCEPT ![v] = Idle] /\ invalid' = [invalid EXCEPT ![v] = TRUE]
      /\ failed' = [failed EXCEPT ![v] = TRUE] /\ UNCHANGED <<rows, view, cache, calls, hasty>>
      /\ \/ cards' = [i \in Ids |-> NoCard] /\ own' = [i \in Ids |-> Untouched]
         \/ UNCHANGED <<cards, own>>
  BY DEF QueryFails
<1>2. ItemTypes'
  BY <1>1, EmptyTypes DEF ItemTypes
<1>3. Idle.phase # "answered"
  BY DEF Idle
<1>4. AnswersAreTables' /\ CallsAreWhole' /\ CardsAreListed'
  BY <1>1, <1>3 DEF AnswersAreTables, CallsAreWhole, CardsAreListed, ItemTypes
<1> QED
  BY <1>2, <1>4

LEMMA FocusTypes == ASSUME Mountable, Focus PROVE Mountable'
<1> USE DEF Mountable
<1>1. view \in Views /\ query' = [query EXCEPT ![view] = Sent]
      /\ UNCHANGED <<rows, view, cache, invalid, failed, cards, own, hasty, calls>>
  BY DEF Focus, cardVars, ItemTypes
<1>2. ItemTypes'
  BY <1>1, EmptyTypes DEF ItemTypes
<1>3. Sent.phase # "answered"
  BY DEF Sent
<1>4. AnswersAreTables' /\ CallsAreWhole' /\ CardsAreListed'
  BY <1>1, <1>3 DEF AnswersAreTables, CallsAreWhole, CardsAreListed, ItemTypes
<1> QED
  BY <1>2, <1>4

(* A request of which the tab has heard.                                   *)
LEMMA HeardType ==
  ASSUME Mountable, NEW c \in calls, Heard(c)
  PROVE  /\ calls' \subseteq Requests /\ CallsAreWhole'
         /\ c.answer # "early" => calls' = calls \ {c}
<1>1. CASE c.answer = "early"
  BY <1>1, AppliedType DEF Heard, Mountable
<1>2. CASE c.answer # "early"
  BY <1>2 DEF Heard, Mountable, ItemTypes, CallsAreWhole
<1> QED
  BY <1>1, <1>2

(* A page that is opened, by the user or by Confirm All.                   *)
LEMMA OpenViewTypes ==
  ASSUME Mountable, NEW v \in Views, OpenView(v)
  PROVE  Mountable' /\ own' = [i \in Ids |-> Untouched]
<1> USE DEF Mountable
<1>1. /\ view' = v /\ cards' = FirstCards(v) /\ own' = [i \in Ids |-> Untouched] /\ hasty' = FALSE
      /\ query' \in {query, [query EXCEPT ![v] = Sent]}
      /\ UNCHANGED <<rows, cache, invalid, failed, calls>>
  BY DEF OpenView, MountView
<1>2. ItemTypes'
  BY <1>1, EmptyTypes, FirstCardsType DEF ItemTypes
<1>3. Sent.phase # "answered"
  BY DEF Sent
<1>4. AnswersAreTables' /\ CallsAreWhole'
  BY <1>1, <1>3 DEF AnswersAreTables, CallsAreWhole, ItemTypes
<1>5. CardsAreListed'
  BY <1>1, FirstCardsType DEF CardsAreListed, Views
<1> QED
  BY <1>1, <1>2, <1>4, <1>5

LEMMA ConfirmedAllTypes ==
  ASSUME Mountable, NEW c \in calls, ConfirmedAll(c)
  PROVE  Mountable' /\ own' = [i \in Ids |-> Untouched]
<1> USE DEF Mountable
<1>1. /\ view' = "tracker" /\ cards' = FirstCards("tracker") /\ own' = [i \in Ids |-> Untouched]
      /\ hasty' = FALSE /\ invalid' = [v \in Views |-> TRUE] /\ Heard(c)
      /\ query' = [v \in Views |-> IF v = view \/ (v = "tracker" /\ query[v] = Idle)
                                   THEN Sent ELSE query[v]]
      /\ UNCHANGED <<rows, cache, failed>>
  BY DEF ConfirmedAll
<1>2. "tracker" \in Views /\ calls' \subseteq Requests /\ CallsAreWhole'
  BY <1>1, HeardType DEF Views
<1>3. ItemTypes'
  BY <1>1, <1>2, EmptyTypes, FirstCardsType DEF ItemTypes
<1>4. Sent.phase # "answered"
  BY DEF Sent
<1>5. AnswersAreTables' /\ CallsAreWhole'
  BY <1>1, <1>2, <1>4 DEF AnswersAreTables, ItemTypes
<1>6. CardsAreListed'
  BY <1>1, <1>2, FirstCardsType DEF CardsAreListed
<1> QED
  BY <1>1, <1>3, <1>5, <1>6

(* A mounted card is on a page, with its row in the cache.                 *)
LEMMA MountedCard ==
  ASSUME Mountable, NEW i \in Ids, cards[i] # NoCard
  PROVE  view \in Views /\ cache[view] \in Tables /\ cache[view][i] \in ItemRows
         /\ cache[view][i] # NoRow /\ cards[i] \in CardStates
<1>1. view \in Views /\ cache[view] # Nothing /\ cache[view][i] # NoRow
  BY DEF Mountable, CardsAreListed, ItemTypes
<1>2. cache[view] \in Listings /\ cards[i] \in CardStates
  BY <1>1 DEF Mountable, ItemTypes
<1> QED
  BY <1>1, <1>2 DEF Listings, Tables

(* A step of a card that asks for nothing.                                 *)
LEMMA CardStepTypes ==
  ASSUME Mountable, NEW i \in Ids, cards[i] # NoCard, NEW card \in CardStates,
         cards' = [cards EXCEPT ![i] = card],
         UNCHANGED <<rows, view, queryVars, calls, own>>, hasty' \in BOOLEAN
  PROVE  Mountable'
<1> USE DEF Mountable, queryVars
<1>1. ItemTypes'
  BY DEF ItemTypes
<1>2. AnswersAreTables' /\ CallsAreWhole' /\ CardsAreListed'
  BY DEF AnswersAreTables, CallsAreWhole, CardsAreListed, ItemTypes
<1> QED
  BY <1>1, <1>2

LEMMA EditTypes == ASSUME Mountable, NEW i \in Ids, Edit(i) PROVE Mountable'
<1> DEFINE card == [cards[i] EXCEPT !.editing = TRUE]
<1>1. cards[i] # NoCard /\ UNCHANGED <<rows, view, queryVars, calls, own, hasty>>
      /\ cards' = [cards EXCEPT ![i].editing = TRUE]
  BY DEF Edit
<1>2. card \in CardStates
  BY <1>1, MountedCard DEF CardStates
<1>3. cards' = [cards EXCEPT ![i] = card]
  BY <1>1
<1>4. hasty' \in BOOLEAN
  BY <1>1 DEF Mountable, ItemTypes
<1> HIDE DEF card
<1> QED
  BY <1>1, <1>2, <1>3, <1>4, CardStepTypes

LEMMA TypeForm ==
  ASSUME Mountable, NEW i \in Ids, NEW f \in Fields, NEW x \in Texts, Type(i, f, x)
  PROVE  /\ cards[i] # NoCard /\ UNCHANGED <<rows, view, queryVars, calls, own, hasty>>
         /\ \E card \in CardStates :
              /\ cards' = [cards EXCEPT ![i] = card] /\ card.typed = cards[i].typed \union {f}
              /\ card.form = [cards[i].form EXCEPT ![f] = x]
<1> DEFINE card == [cards[i] EXCEPT !.form[f] = x, !.typed = @ \union {f}]
<1>1. cards[i] # NoCard /\ UNCHANGED <<rows, view, queryVars, calls, own, hasty>>
      /\ cards' = [cards EXCEPT ![i].form[f] = x, ![i].typed = @ \union {f}]
  BY DEF Type
<1>2. cards \in [Ids -> CardStates] /\ cards[i] \in CardStates
  BY <1>1, MountedCard DEF Mountable, ItemTypes
<1>3. cards' = [cards EXCEPT ![i] = card]
  BY <1>1, <1>2
<1>4. [cards[i].form EXCEPT ![f] = x] \in Forms
  BY <1>2 DEF CardStates, Forms
<1>5. /\ card.typed = cards[i].typed \union {f} /\ card.form = [cards[i].form EXCEPT ![f] = x]
      /\ card \in CardStates
  BY <1>2, <1>4 DEF CardStates
<1> HIDE DEF card
<1> QED
  BY <1>1, <1>3, <1>5

LEMMA CancelForm ==
  ASSUME Mountable, NEW i \in Ids, HandleCancelEdit(i)
  PROVE  /\ cards[i] # NoCard /\ UNCHANGED <<rows, view, queryVars, calls, own>>
         /\ Mounted(cache[view][i]) \in CardStates
         /\ cards' = [cards EXCEPT ![i] = Mounted(cache[view][i])]
         /\ hasty' = (hasty \/ ~CaughtUp) /\ hasty' \in BOOLEAN
BY MountedCard, MountedType DEF HandleCancelEdit

(* What a save leaves to be remembered of a card.                          *)
Remembers(i) == [f \in Fields |-> IF f \notin cards[i].typed THEN own[i][f]
                                  ELSE IF Unset(f, cards[i].form[f]) THEN None
                                  ELSE cards[i].form[f]]

LEMMA SaveForm ==
  ASSUME Mountable, NEW i \in Ids, HandleSaveEdit(i)
  PROVE  /\ cards[i] # NoCard /\ UNCHANGED <<rows, view, queryVars>>
         /\ cards' = [cards EXCEPT ![i] = Saved(i)] /\ Saved(i) \in CardStates
         /\ Saved(i).typed = {} /\ Saved(i).form = cards[i].form
         /\ own' = [own EXCEPT ![i] = Remembers(i)] /\ own' \in [Ids -> Marks]
         /\ \A f \in Fields : Remembers(i)[f] \in {None, cards[i].form[f]}
                              \/ (f \notin cards[i].typed /\ Remembers(i)[f] = own[i][f])
         /\ hasty' = (hasty \/ ~CaughtUp) /\ hasty' \in BOOLEAN
         /\ calls' \subseteq Requests /\ CallsAreWhole'
         /\ \E d : /\ calls' = calls \union {d} /\ d.kind = "patch" /\ d.id = i /\ d.page = view
                   /\ d.answer = "sent" /\ d.data[i].text = cards[i].form
<1> DEFINE row == [NoRow EXCEPT !.text = cards[i].form]
           data == Only(i, row)
<1>1. cards[i] # NoCard /\ UNCHANGED <<rows, view, queryVars>>
      /\ cards' = [cards EXCEPT ![i] = Saved(i)] /\ hasty' = (hasty \/ ~CaughtUp)
      /\ Mutate(Call("patch", i, data))
  BY DEF HandleSaveEdit
<1>2. own' = [own EXCEPT ![i] = Remembers(i)]
  BY DEF HandleSaveEdit, Remembers
<1>3. cards[i] \in CardStates /\ view \in Views
  BY <1>1, MountedCard
<1>4. row \in ItemRows /\ row.text = cards[i].form
  BY <1>3, EmptyTypes DEF ItemRows, CardStates
<1>5. Saved(i) \in CardStates /\ Saved(i).typed = {} /\ Saved(i).form = cards[i].form
  BY <1>3 DEF Saved, CardStates
<1>6. /\ Remembers(i) \in Marks
      /\ \A f \in Fields : Remembers(i)[f] \in {None, cards[i].form[f]}
                           \/ (f \notin cards[i].typed /\ Remembers(i)[f] = own[i][f])
  <2>1. own[i] \in Marks /\ cards[i].form \in Forms
    BY <1>3 DEF Mountable, ItemTypes, CardStates
  <2>2. \A f \in Fields : ~Unset(f, None)
    BY ItemPagesAssumption DEF Unset, None
  <2>3. Remembers(i) \in Forms
    BY <2>1 DEF Remembers, Forms, Marks
  <2>4. \A f \in Fields : ~Unset(f, Remembers(i)[f])
    BY <2>1, <2>2 DEF Remembers, Marks
  <2>5. \A f \in Fields : Remembers(i)[f] \in {None, cards[i].form[f]}
                          \/ (f \notin cards[i].typed /\ Remembers(i)[f] = own[i][f])
    BY DEF Remembers
  <2> QED
    BY <2>3, <2>4, <2>5 DEF Marks
<1>7. own' \in [Ids -> Marks]
  BY <1>2, <1>6 DEF Mountable, ItemTypes
<1> HIDE DEF row
<1>8. data \in Tables /\ data \in Listings /\ data[i].text = cards[i].form
  BY <1>4, OnlyType DEF Only, Listings
<1> HIDE DEF data
<1>9. calls' \subseteq Requests /\ CallsAreWhole' /\ calls' = calls \union {Call("patch", i, data)}
  <2>1. "patch" \in CallKinds /\ i \in Ids \union {0}
    BY DEF CallKinds
  <2>2. ItemTypes /\ CallsAreWhole
    BY DEF Mountable
  <2> QED
    BY <1>1, <1>3, <1>8, <2>1, <2>2, MutateType
<1>10. /\ Call("patch", i, data).kind = "patch" /\ Call("patch", i, data).id = i
       /\ Call("patch", i, data).page = view /\ Call("patch", i, data).answer = "sent"
       /\ Call("patch", i, data).data[i].text = cards[i].form
  BY <1>8 DEF Call
<1> QED
  BY <1>1, <1>2, <1>5, <1>6, <1>7, <1>9, <1>10

LEMMA SaveTypes == ASSUME Mountable, NEW i \in Ids, HandleSaveEdit(i) PROVE Mountable'
<1>1. /\ cards[i] # NoCard /\ UNCHANGED <<rows, view, queryVars>>
      /\ cards' = [cards EXCEPT ![i] = Saved(i)] /\ Saved(i) \in CardStates
      /\ own' = [own EXCEPT ![i] = Remembers(i)]
      /\ own' \in [Ids -> Marks] /\ hasty' \in BOOLEAN
      /\ calls' \subseteq Requests /\ CallsAreWhole'
  BY SaveForm
<1> USE DEF Mountable, queryVars
<1>2. ItemTypes'
  BY <1>1 DEF ItemTypes
<1>3. AnswersAreTables' /\ CardsAreListed'
  BY <1>1 DEF AnswersAreTables, CardsAreListed, ItemTypes
<1> QED
  BY <1>1, <1>2, <1>3

(* The requests of a page that carry no form.                              *)
LEMMA AsksForm ==
  ASSUME Mountable,
         HandleConfirmAll \/ \E i \in Ids : ToggleReviewed(i) \/ HandleDelete(i)
  PROVE  /\ UNCHANGED <<rows, view, queryVars, cardVars>>
         /\ calls' \subseteq Requests /\ CallsAreWhole'
         /\ \E d : calls' = calls \union {d} /\ d.kind # "patch"
<1> USE DEF Mountable
<1>1. CallKinds = {"patch", "review", "delete", "bulk"} /\ 0 \in Ids \union {0} /\ Ids \subseteq Ids \union {0}
  BY DEF CallKinds
<1>2. \A kind, i, data : Call(kind, i, data).kind = kind
  BY DEF Call
<1>3. CASE HandleConfirmAll
  <2>1. /\ view = "review" /\ cache[view] # Nothing /\ Mutate(Call("bulk", 0, cache[view]))
        /\ UNCHANGED <<rows, view, queryVars, cardVars>>
    BY <1>3 DEF HandleConfirmAll
  <2>2. view \in Views /\ cache[view] \in Listings /\ cache[view] \in Tables
    BY <2>1 DEF ItemTypes, Views, Listings
  <2>3. calls' \subseteq Requests /\ CallsAreWhole' /\ calls' = calls \union {Call("bulk", 0, cache[view])}
    BY <1>1, <2>1, <2>2, MutateType
  <2> QED
    BY <1>2, <2>1, <2>3
<1>4. ASSUME NEW i \in Ids, ToggleReviewed(i)
      PROVE  /\ UNCHANGED <<rows, view, queryVars, cardVars>>
             /\ calls' \subseteq Requests /\ CallsAreWhole'
             /\ \E d : calls' = calls \union {d} /\ d.kind # "patch"
  <2> DEFINE row == [NoRow EXCEPT !.review = ~cache[view][i].review]
             data == Only(i, row)
  <2>1. /\ cards[i] # NoCard /\ Mutate(Call("review", i, data))
        /\ UNCHANGED <<rows, view, queryVars, cardVars>>
    BY <1>4 DEF ToggleReviewed
  <2>2. row \in ItemRows
    BY EmptyTypes DEF ItemRows
  <2> HIDE DEF row
  <2>3. view \in Views /\ data \in Tables /\ data \in Listings
    BY <2>1, <2>2, MountedCard, OnlyType DEF Listings
  <2> HIDE DEF data
  <2>4. calls' \subseteq Requests /\ CallsAreWhole' /\ calls' = calls \union {Call("review", i, data)}
    BY <1>1, <2>1, <2>3, MutateType
  <2> QED
    BY <1>2, <2>1, <2>4
<1>5. ASSUME NEW i \in Ids, HandleDelete(i)
      PROVE  /\ UNCHANGED <<rows, view, queryVars, cardVars>>
             /\ calls' \subseteq Requests /\ CallsAreWhole'
             /\ \E d : calls' = calls \union {d} /\ d.kind # "patch"
  <2>1. /\ cards[i] # NoCard /\ Mutate(Call("delete", i, Nothing))
        /\ UNCHANGED <<rows, view, queryVars, cardVars>>
    BY <1>5 DEF HandleDelete
  <2>2. view \in Views /\ Nothing \in Listings
    BY <2>1, MountedCard, EmptyTypes
  <2>3. calls' \subseteq Requests /\ CallsAreWhole' /\ calls' = calls \union {Call("delete", i, Nothing)}
    BY <1>1, <2>1, <2>2, MutateType
  <2> QED
    BY <1>2, <2>1, <2>3
<1> QED
  BY <1>3, <1>4, <1>5

(* What a commit does to the table: a row it touches is saved, gone, of the *)
(* same text, or new, and a new one is in no cache.                        *)
LEMMA CommitForm ==
  ASSUME Mountable, NEW c \in calls, Writes(c)
  PROVE  /\ rows' \in Tables
         /\ \A i \in Ids :
              \/ rows'[i] = rows[i] \/ rows'[i] = NoRow
              \/ rows[i] # NoRow /\ rows'[i].text = rows[i].text
              \/ c.kind = "patch" /\ c.id = i /\ rows'[i].text = Merged(rows[i].text, c.data[i].text)
              \/ \A v \in Views : cache[v] # Nothing => cache[v][i] = NoRow
         /\ c.kind = "patch" => rows'[c.id].text = Merged(rows[c.id].text, c.data[c.id].text)
<1>1. /\ c.kind # "bulk" => c.id \in Ids
      /\ c.kind # "delete" => c.data \in Tables
      /\ rows \in Tables
  BY DEF Mountable, CallsAreWhole, ItemTypes
<1>2. CASE UpdateItem(c) /\ c.kind = "patch"
  <2> DEFINE text == Merged(rows[c.id].text, c.data[c.id].text)
             row == [rows[c.id] EXCEPT !.text = text]
  <2>1. rows' = [rows EXCEPT ![c.id].text = text] /\ c.id \in Ids /\ c.data \in Tables
    BY <1>1, <1>2 DEF UpdateItem
  <2>2. rows[c.id] \in ItemRows /\ rows[c.id].text \in Forms /\ c.data[c.id].text \in Forms
    BY <1>1, <2>1 DEF Tables, ItemRows
  <2>3. text \in Forms
    BY <2>2 DEF Merged, Forms
  <2> HIDE DEF text
  <2>4. row \in ItemRows /\ row.text = text
    BY <2>2, <2>3 DEF ItemRows
  <2>5. rows' = [rows EXCEPT ![c.id] = row]
    BY <1>1, <2>1 DEF Tables
  <2> HIDE DEF row
  <2>6. rows' \in Tables /\ rows'[c.id].text = text /\ \A i \in Ids : i # c.id => rows'[i] = rows[i]
    BY <1>1, <2>1, <2>4, <2>5 DEF Tables
  <2> USE DEF text
  <2> QED
    BY <1>2, <2>6
<1>3. CASE UpdateItem(c) /\ c.kind = "review"
  <2>1. /\ rows' = [rows EXCEPT ![c.id].review = c.data[c.id].review] /\ c.id \in Ids
        /\ c.data \in Tables /\ rows[c.id] # NoRow
    BY <1>1, <1>3 DEF UpdateItem
  <2>2. rows[c.id] \in ItemRows /\ c.data[c.id].review \in BOOLEAN
    BY <1>1, <2>1 DEF Tables, ItemRows
  <2> DEFINE row == [rows[c.id] EXCEPT !.review = c.data[c.id].review]
  <2>3. row \in ItemRows /\ row.text = rows[c.id].text
    BY <2>2 DEF ItemRows
  <2>4. rows' = [rows EXCEPT ![c.id] = row]
    BY <1>1, <2>1 DEF Tables
  <2> HIDE DEF row
  <2> QED
    BY <1>1, <1>3, <2>1, <2>3, <2>4 DEF Tables
<1>4. CASE DeleteItem(c)
  BY <1>1, <1>4, EmptyTypes DEF DeleteItem, Tables
<1>5. CASE BulkSaveItems(c)
  <2> DEFINE drafts == {i \in Ids : c.data[i] # NoRow}
             free == {i \in Ids : rows[i] = NoRow /\ \A v \in Views :
                        cache[v] # Nothing => cache[v][i] = NoRow}
  <2>1. c.kind = "bulk"
    BY <1>5 DEF BulkSaveItems
  <2>2. PICK id \in [drafts -> free] :
          rows' = [k \in Ids |-> IF \E i \in drafts : id[i] = k
                                 THEN c.data[CHOOSE i \in drafts : id[i] = k] ELSE rows[k]]
    BY <1>5 DEF BulkSaveItems
  <2>3. ASSUME NEW k \in Ids, \E i \in drafts : id[i] = k
        PROVE  k \in free /\ rows'[k] \in ItemRows
    <3>1. (CHOOSE i \in drafts : id[i] = k) \in Ids
      BY <2>3
    <3>2. rows'[k] = c.data[CHOOSE i \in drafts : id[i] = k]
      BY <2>2, <2>3
    <3>3. k \in free
      BY <2>3
    <3> QED
      BY <1>1, <2>1, <3>1, <3>2, <3>3 DEF Tables
  <2>4. ASSUME NEW k \in Ids, ~\E i \in drafts : id[i] = k
        PROVE  rows'[k] = rows[k] /\ rows'[k] \in ItemRows
    BY <1>1, <2>2, <2>4 DEF Tables
  <2>5. \A k \in free : \A v \in Views : cache[v] # Nothing => cache[v][k] = NoRow
    OBVIOUS
  <2> HIDE DEF drafts, free
  <2>6. rows' \in Tables
    BY <2>2, <2>3, <2>4 DEF Tables
  <2> QED
    BY <2>1, <2>3, <2>4, <2>5, <2>6
<1> QED
  BY <1>2, <1>3, <1>4, <1>5 DEF Writes, UpdateItem

(* A step of a request at the API, with what it has done to the table.     *)
LEMMA ServedTypes ==
  ASSUME Mountable, UNCHANGED <<view, queryVars, cards, own>>, rows' \in Tables,
         hasty' \in BOOLEAN, calls' \subseteq Requests, CallsAreWhole'
  PROVE  Mountable'
<1>1. ItemTypes'
  BY DEF Mountable, ItemTypes, queryVars
<1>2. AnswersAreTables' /\ CardsAreListed'
  BY DEF Mountable, AnswersAreTables, CardsAreListed, queryVars
<1> QED
  BY <1>1, <1>2 DEF Mountable

LEMMA AnsweredTypes ==
  ASSUME Mountable, NEW c \in calls, Commits(c) \/ Refused(c)
  PROVE  /\ Mountable' /\ UNCHANGED <<view, queryVars, cards, own>>
         /\ \/ hasty'
            \/ /\ hasty' = hasty /\ Writes(c)
               /\ \E d : /\ calls' = (calls \ {c}) \union {d} /\ d.answer = "ok" /\ c.answer = "sent"
                         /\ d.kind = c.kind /\ d.id = c.id /\ d.data = c.data /\ d.page = c.page
<1>1. UNCHANGED <<view, queryVars, cards, own>>
  BY DEF Commits, Refused
<1>2. PICK a \in {"ok", "error"} : Applied(c, a) /\ (a = "error" => hasty' = TRUE)
        /\ (a = "ok" => Commits(c) /\ hasty' = hasty)
  BY DEF Commits, Refused
<1>3. rows' \in Tables
  <2>1. CASE Commits(c)
    BY <2>1, CommitForm DEF Commits
  <2>2. CASE Refused(c)
    BY <2>2 DEF Refused, Mountable, ItemTypes
  <2> QED
    BY <2>1, <2>2
<1>4. /\ calls' \subseteq Requests /\ CallsAreWhole'
      /\ \E d : /\ calls' = (calls \ {c}) \union {d} /\ d.answer = a
                /\ d.kind = c.kind /\ d.id = c.id /\ d.data = c.data /\ d.page = c.page
  BY <1>2, AppliedType DEF Mountable
<1>5. hasty' \in BOOLEAN
  BY <1>2 DEF Mountable, ItemTypes
<1>6. Mountable'
  BY <1>1, <1>3, <1>4, <1>5, ServedTypes
<1>7. c.answer = "sent" /\ (Commits(c) => Writes(c))
  BY DEF Commits, Refused
<1> QED
  BY <1>1, <1>2, <1>4, <1>6, <1>7

LEMMA AnswersFirstTypes ==
  ASSUME Mountable, NEW c \in calls, AnswersFirst(c)
  PROVE  /\ Mountable' /\ UNCHANGED <<rows, view, queryVars, cardVars>>
         /\ \E d : /\ calls' = (calls \ {c}) \union {d} /\ d.answer = "early" /\ c.answer = "sent"
                   /\ d.kind = c.kind /\ d.id = c.id /\ d.data = c.data /\ d.page = c.page
<1>1. Applied(c, "early") /\ c.answer = "sent" /\ UNCHANGED <<rows, view, queryVars, cardVars>>
  BY DEF AnswersFirst
<1>2. /\ calls' \subseteq Requests /\ CallsAreWhole'
      /\ \E d : /\ calls' = (calls \ {c}) \union {d} /\ d.answer = "early"
                /\ d.kind = c.kind /\ d.id = c.id /\ d.data = c.data /\ d.page = c.page
  BY <1>1, AppliedType DEF Mountable
<1>3. rows' \in Tables /\ hasty' \in BOOLEAN
  BY <1>1 DEF cardVars, Mountable, ItemTypes
<1>4. Mountable'
  BY <1>1, <1>2, <1>3, ServedTypes DEF cardVars
<1> QED
  BY <1>1, <1>2, <1>4

LEMMA CommitsLateTypes ==
  ASSUME Mountable, NEW c \in calls, CommitsLate(c)
  PROVE  /\ Mountable' /\ UNCHANGED <<view, queryVars, cards, own>>
         /\ c.answer \in {"early", "heard"}
         /\ hasty' \/ (hasty' = hasty /\ Writes(c))
         /\ \/ c.answer = "heard" /\ calls' = calls \ {c}
            \/ \E d : /\ calls' = (calls \ {c}) \union {d} /\ d.answer = "ok" /\ c.answer = "early"
                      /\ d.kind = c.kind /\ d.id = c.id /\ d.data = c.data /\ d.page = c.page
<1>1. /\ UNCHANGED <<view, queryVars, cards, own>> /\ c.answer \in {"early", "heard"}
      /\ hasty' = TRUE \/ (hasty' = hasty /\ Writes(c))
      /\ Writes(c) \/ rows' = rows
      /\ IF c.answer = "heard" THEN calls' = calls \ {c} ELSE Applied(c, "ok")
  BY DEF CommitsLate, Uncommitted
<1>2. rows' \in Tables /\ hasty' \in BOOLEAN
  <2>1. rows' \in Tables
    BY <1>1, CommitForm DEF Mountable, ItemTypes
  <2> QED
    BY <1>1, <2>1 DEF Mountable, ItemTypes
<1>3. /\ calls' \subseteq Requests /\ CallsAreWhole'
      /\ \/ c.answer = "heard" /\ calls' = calls \ {c}
         \/ \E d : /\ calls' = (calls \ {c}) \union {d} /\ d.answer = "ok" /\ c.answer = "early"
                   /\ d.kind = c.kind /\ d.id = c.id /\ d.data = c.data /\ d.page = c.page
  <2>1. CASE c.answer = "heard"
    BY <1>1, <2>1 DEF Mountable, ItemTypes, CallsAreWhole
  <2>2. CASE c.answer = "early"
    BY <1>1, <2>2, AppliedType DEF Mountable
  <2> QED
    BY <1>1, <2>1, <2>2
<1>4. Mountable'
  BY <1>1, <1>2, <1>3, ServedTypes
<1> QED
  BY <1>1, <1>3, <1>4

(* An answer that is heard: one that is ok leaves its page a new fetch.    *)
LEMMA CallHeardTypes ==
  ASSUME Mountable, NEW c \in calls, CallHeard(c)
  PROVE  /\ Mountable' /\ UNCHANGED <<rows, view, cache, cards, own>>
         /\ \/ hasty'
            \/ /\ hasty' = hasty /\ c.answer \in {"ok", "error"} /\ calls' = calls \ {c}
         /\ c.answer = "ok" /\ c.kind = "patch" /\ c.page = view => query'[view] = Sent
         /\ view \in Views => query'[view] \in {Sent, query[view]}
<1>1. /\ c.answer \notin {"sent", "heard"} /\ Heard(c) /\ UNCHANGED <<rows, view, cache, failed, cards, own>>
      /\ hasty' = (hasty \/ c.answer = "early")
      /\ IF Succeeds(c) /\ (c.kind # "bulk" \/ view = "tracker")
         THEN Invalidate(Invalidates(c)) ELSE UNCHANGED <<invalid, query>>
  BY DEF CallHeard
<1>8. /\ calls' \subseteq Requests /\ CallsAreWhole' /\ hasty' \in BOOLEAN
      /\ \/ hasty'
         \/ hasty' = hasty /\ c.answer \in {"ok", "error"} /\ calls' = calls \ {c}
  <2>1. c \in Requests /\ hasty \in BOOLEAN
    BY DEF Mountable, ItemTypes
  <2>2. c.answer \in {"ok", "error", "early"}
    BY <1>1, <2>1 DEF Requests
  <2> QED
    BY <1>1, <2>1, <2>2, HeardType
<1>2. ItemTypes /\ AnswersAreTables /\ Invalidates(c) \in SUBSET Views
  BY InvalidatesType DEF Mountable
<1>3. Invalidate(Invalidates(c)) =>
        /\ query' \in [Views -> Fetches] /\ invalid' \in [Views -> BOOLEAN] /\ AnswersAreTables'
        /\ view \in Invalidates(c) => query'[view] = Sent
        /\ view \notin Invalidates(c) => query'[view] = query[view] \/ view \notin Views
  BY <1>2, InvalidateType
<1>4. query' \in [Views -> Fetches] /\ invalid' \in [Views -> BOOLEAN] /\ AnswersAreTables'
  BY <1>1, <1>2, <1>3 DEF ItemTypes, AnswersAreTables
<1>5. ItemTypes'
  BY <1>1, <1>2, <1>4, <1>8 DEF ItemTypes
<1>6. CallsAreWhole' /\ CardsAreListed'
  BY <1>1, <1>8 DEF Mountable, CardsAreListed
<1>7. c.kind = "patch" /\ c.page = view => view \in Invalidates(c)
  <2>1. c \in Requests
    BY DEF Mountable, ItemTypes
  <2> QED
    BY <2>1 DEF Requests, Invalidates, Views
<1> QED
  BY <1>1, <1>3, <1>4, <1>5, <1>6, <1>7, <1>8 DEF Mountable, Succeeds

(* Somebody else's edit.                                                   *)
LEMMA OthersForm ==
  ASSUME Mountable, NEW i \in Ids, NEW f \in Fields, NEW x \in Texts, OthersEdit(i, f, x)
  PROVE  /\ Mountable' /\ UNCHANGED <<view, queryVars, cards, calls, hasty>>
         /\ own' = [own EXCEPT ![i] = [own[i] EXCEPT ![f] = None]]
         /\ \A k \in Ids : k # i => rows'[k] = rows[k]
         /\ \A g \in Fields : g # f => rows'[i].text[g] = rows[i].text[g]
         /\ rows[i] # NoRow
<1> USE DEF Mountable
<1>1. /\ rows[i] # NoRow /\ rows' = [rows EXCEPT ![i].text[f] = x] /\ own' = [own EXCEPT ![i][f] = None]
      /\ UNCHANGED <<view, queryVars, cards, calls, hasty>>
  BY DEF OthersEdit
<1>2. rows \in [Ids -> ItemRows] /\ rows[i] \in ItemRows /\ own \in [Ids -> Marks] /\ own[i] \in Marks
  BY DEF ItemTypes, Tables
<1> DEFINE row == [rows[i] EXCEPT !.text[f] = x]
           kept == [own[i] EXCEPT ![f] = None]
<1>3. rows' = [rows EXCEPT ![i] = row] /\ own' = [own EXCEPT ![i] = kept]
  BY <1>1, <1>2
<1>4. [rows[i].text EXCEPT ![f] = x] \in Forms /\ kept \in Forms /\ kept \in Marks
  <2>1. ~Unset(f, None)
    BY ItemPagesAssumption DEF Unset, None
  <2>2. [rows[i].text EXCEPT ![f] = x] \in Forms /\ kept \in Forms
    BY <1>2 DEF ItemRows, Forms, Marks
  <2>3. \A g \in Fields : ~Unset(g, kept[g])
    BY <1>2, <2>1 DEF Marks, Forms
  <2> QED
    BY <2>2, <2>3 DEF Marks
<1>5. row \in ItemRows /\ row.text = [rows[i].text EXCEPT ![f] = x]
  BY <1>2, <1>4 DEF ItemRows
<1>6. \A g \in Fields : g # f => row.text[g] = rows[i].text[g]
  BY <1>2, <1>5 DEF ItemRows, Forms
<1> HIDE DEF row
<1>7. rows' \in Tables /\ \A k \in Ids : rows'[k] = IF k = i THEN row ELSE rows[k]
  BY <1>2, <1>3, <1>5 DEF Tables
<1>8. kept # Untouched => own[i] # Untouched
  <2>1. own[i] = Untouched => kept = Untouched
    BY <1>4 DEF Untouched, Forms
  <2> QED
    BY <2>1
<1>9. own' = [own EXCEPT ![i] = [own[i] EXCEPT ![f] = None]]
  BY <1>3
<1> HIDE DEF kept
<1>10. own' \in [Ids -> Marks] /\ \A k \in Ids : own'[k] = IF k = i THEN kept ELSE own[k]
  BY <1>2, <1>3, <1>4
<1>11. ItemTypes' /\ AnswersAreTables' /\ CallsAreWhole'
  BY <1>1, <1>7, <1>10 DEF ItemTypes, AnswersAreTables, CallsAreWhole, queryVars
<1>12. CardsAreListed'
  BY <1>1, <1>8, <1>10 DEF CardsAreListed, queryVars
<1> QED
  BY <1>1, <1>6, <1>7, <1>9, <1>11, <1>12

(* Every step of the pages keeps the types and the cards that are listed.  *)
LEMMA MountableStep == ASSUME Mountable, [ItemsNext]_itemVars PROVE Mountable'
<1>1. CASE UNCHANGED itemVars
  BY <1>1
  DEF itemVars, Mountable, ItemTypes, AnswersAreTables, CallsAreWhole, CardsAreListed
<1>2. ASSUME NEW v \in Views, OpenView(v) PROVE Mountable'
  BY <1>2, OpenViewTypes
<1>3. ASSUME NEW c \in calls, ConfirmedAll(c) PROVE Mountable'
  BY <1>3, ConfirmedAllTypes
<1>4. CASE OnPage
  <2>1. CASE HandleConfirmAll \/ \E i \in Ids : ToggleReviewed(i) \/ HandleDelete(i)
    <3>1. /\ UNCHANGED <<rows, view, queryVars, cardVars>>
          /\ calls' \subseteq Requests /\ CallsAreWhole'
      BY <2>1, AsksForm
    <3> QED
      BY <3>1 DEF queryVars, cardVars, Mountable, ItemTypes, AnswersAreTables, CardsAreListed
  <2>2. CASE Focus
    BY <2>2, FocusTypes
  <2>3. ASSUME NEW v \in Views, ListItems(v) \/ QueryHeard(v) \/ QueryFails(v) PROVE Mountable'
    BY <2>3, ListItemsTypes, QueryHeardTypes, QueryFailsTypes
  <2>4. ASSUME NEW i \in Ids, Edit(i) \/ HandleSaveEdit(i) PROVE Mountable'
    BY <2>4, EditTypes, SaveTypes
  <2>5. ASSUME NEW i \in Ids, HandleCancelEdit(i) PROVE Mountable'
    BY <2>5, CancelForm, CardStepTypes
  <2>6. ASSUME NEW i \in Ids, NEW f \in Fields, NEW x \in Texts, Type(i, f, x) PROVE Mountable'
    <3>1. hasty' \in BOOLEAN
      BY <2>6, TypeForm DEF Mountable, ItemTypes
    <3> QED
      BY <2>6, <3>1, TypeForm, CardStepTypes
  <2>7. ASSUME NEW i \in Ids, NEW f \in Fields, NEW x \in Texts, OthersEdit(i, f, x) PROVE Mountable'
    BY <2>7, OthersForm
  <2>8. ASSUME NEW c \in calls, Commits(c) \/ Refused(c) \/ CallHeard(c) PROVE Mountable'
    BY <2>8, AnsweredTypes, CallHeardTypes
  <2>9. ASSUME NEW c \in calls, AnswersFirst(c) \/ CommitsLate(c) PROVE Mountable'
    BY <2>9, AnswersFirstTypes, CommitsLateTypes
  <2> QED
    BY <1>4, <2>1, <2>2, <2>3, <2>4, <2>5, <2>6, <2>7, <2>8, <2>9 DEF OnPage
<1> QED
  BY <1>1, <1>2, <1>3, <1>4 DEF ItemsNext
-----------------------------------------------------------------------------
(* Items: edits *)

(* A page whose cards have saved nothing yet has nothing to keep.          *)
LEMMA NothingSaved ==
  ASSUME CallsAreWhole', own' = [i \in Ids |-> Untouched] PROVE EditsKept'
<1>1. \A i \in Ids, f \in Fields : own'[i][f] = None
  BY DEF Untouched
<1>2. \A c \in calls' : c.kind = "patch" => c.id \in Ids
  BY DEF CallsAreWhole
<1>3. FormKeeps' /\ SavesKeep' /\ Stored' /\ ShownSoon'
  BY <1>1, <1>2 DEF FormKeeps, SavesKeep, Stored, ShownSoon
<1> QED
  BY <1>3 DEF EditsKept

(* A step of one card that asks for nothing, and keeps what is saved.      *)
LEMMA CardStepKeeps ==
  ASSUME Mountable, EditsKept, NEW i \in Ids, NEW card, cards[i] # NoCard,
         cards' = [cards EXCEPT ![i] = card],
         UNCHANGED <<rows, view, queryVars, calls, own>>, hasty => hasty',
         ~hasty' => \A f \in Fields :
           card # NoCard /\ own[i][f] # None /\ f \notin card.typed => card.form[f] = own[i][f]
  PROVE  EditsKept'
<1> USE DEF EditsKept, queryVars
<1>1. SavesKeep' /\ Stored' /\ ShownSoon'
  BY DEF SavesKeep, Stored, ShownSoon, Saving, Coming, SaveOf
<1>2. FormKeeps'
  BY DEF FormKeeps, Mountable, ItemTypes
<1> QED
  BY <1>1, <1>2

LEMMA EditKeeps == ASSUME Mountable, EditsKept, NEW i \in Ids, Edit(i) PROVE EditsKept'
<1> DEFINE card == [cards[i] EXCEPT !.editing = TRUE]
<1>1. cards[i] # NoCard /\ UNCHANGED <<rows, view, queryVars, calls, own, hasty>>
      /\ cards' = [cards EXCEPT ![i].editing = TRUE]
  BY DEF Edit
<1>2. card.form = cards[i].form /\ card.typed = cards[i].typed
  BY <1>1, MountedCard DEF CardStates
<1>3. cards' = [cards EXCEPT ![i] = card]
  BY <1>1
<1> HIDE DEF card
<1>4. ~hasty' => \A f \in Fields :
        card # NoCard /\ own[i][f] # None /\ f \notin card.typed => card.form[f] = own[i][f]
  BY <1>1, <1>2 DEF EditsKept, FormKeeps
<1> QED
  BY <1>1, <1>3, <1>4, CardStepKeeps

LEMMA TypeKeeps ==
  ASSUME Mountable, EditsKept, NEW i \in Ids, NEW f \in Fields, NEW x \in Texts, Type(i, f, x)
  PROVE  EditsKept'
<1>1. cards[i] # NoCard /\ UNCHANGED <<rows, view, queryVars, calls, own, hasty>>
  BY TypeForm
<1>2. PICK card \in CardStates :
        /\ cards' = [cards EXCEPT ![i] = card] /\ card.typed = cards[i].typed \union {f}
        /\ card.form = [cards[i].form EXCEPT ![f] = x]
  BY TypeForm
<1>3. cards[i].form \in Forms
  BY <1>1, MountedCard DEF CardStates
<1>4. ~hasty' => \A g \in Fields :
        card # NoCard /\ own[i][g] # None /\ g \notin card.typed => card.form[g] = own[i][g]
  BY <1>1, <1>2, <1>3 DEF EditsKept, FormKeeps, Forms
<1> QED
  BY <1>1, <1>2, <1>4, CardStepKeeps

(* Cancel takes the item as the cache has it: in a tab that has caught up, *)
(* that is what was saved last.                                            *)
LEMMA CaughtUpShows ==
  ASSUME EditsKept, CaughtUp, ~hasty, NEW i \in Ids, NEW f \in Fields, own[i][f] # None
  PROVE  cache[view][i].text[f] = own[i][f]
<1>1. calls = {} /\ query[view] = Idle
  BY DEF CaughtUp
<1>2. Idle # Sent /\ Idle.phase # "answered"
  BY DEF Idle, Sent
<1> QED
  BY <1>1, <1>2 DEF EditsKept, ShownSoon, Coming, SaveOf

LEMMA CancelKeeps == ASSUME Mountable, EditsKept, NEW i \in Ids, HandleCancelEdit(i) PROVE EditsKept'
<1> DEFINE card == Mounted(cache[view][i])
<1>1. /\ cards[i] # NoCard /\ UNCHANGED <<rows, view, queryVars, calls, own>>
      /\ cards' = [cards EXCEPT ![i] = card]
      /\ hasty' = (hasty \/ ~CaughtUp) /\ hasty' \in BOOLEAN
  BY CancelForm
<1>2. card.form = cache[view][i].text
  BY DEF Mounted
<1> HIDE DEF card
<1>3. ~hasty' => \A f \in Fields :
        card # NoCard /\ own[i][f] # None /\ f \notin card.typed => card.form[f] = own[i][f]
  BY <1>1, <1>2, CaughtUpShows
<1> QED
  BY <1>1, <1>3, CardStepKeeps

(* A save, in a tab that has caught up, is the only one of its page.       *)
LEMMA SaveKeeps == ASSUME Mountable, EditsKept, NEW i \in Ids, HandleSaveEdit(i) PROVE EditsKept'
<1>1. /\ cards[i] # NoCard /\ UNCHANGED <<rows, view, queryVars>>
      /\ cards' = [cards EXCEPT ![i] = Saved(i)] /\ Saved(i).form = cards[i].form
      /\ own' = [own EXCEPT ![i] = Remembers(i)]
      /\ \A f \in Fields : Remembers(i)[f] \in {None, cards[i].form[f]}
                           \/ (f \notin cards[i].typed /\ Remembers(i)[f] = own[i][f])
      /\ hasty' = (hasty \/ ~CaughtUp)
  BY SaveForm
<1>2. PICK d : /\ calls' = calls \union {d} /\ d.kind = "patch" /\ d.id = i /\ d.page = view
               /\ d.answer = "sent" /\ d.data[i].text = cards[i].form
  BY SaveForm
<1> SUFFICES ASSUME ~hasty' PROVE EditsKept'
  BY DEF EditsKept, FormKeeps, SavesKeep, Stored, ShownSoon
<1>3. ~hasty /\ CaughtUp /\ calls = {}
  BY <1>1 DEF CaughtUp
<1>4. \A f \in Fields : own'[i][f] \in {None, cards[i].form[f]}
  BY <1>1, <1>3 DEF EditsKept, FormKeeps, Mountable, ItemTypes
<1>5. \A k \in Ids : k # i => own'[k] = own[k] /\ cards'[k] = cards[k]
  BY <1>1 DEF Mountable, ItemTypes
<1>6. cards'[i].form = cards[i].form
  BY <1>1 DEF Mountable, ItemTypes
<1>7. FormKeeps'
  BY <1>3, <1>4, <1>5, <1>6 DEF EditsKept, FormKeeps
<1>8. SavesKeep'
  BY <1>2, <1>3, <1>4 DEF SavesKeep
<1>9. Saving(i)' /\ Coming(i)'
  BY <1>1, <1>2 DEF Saving, Coming, SaveOf
<1>10. \A k \in Ids : (Saving(k) => Saving(k)') /\ (Coming(k) => Coming(k)')
  BY <1>1, <1>2 DEF Saving, Coming, SaveOf
<1>11. Stored'
  BY <1>1, <1>3, <1>5, <1>9, <1>10 DEF EditsKept, Stored
<1>12. ShownSoon'
  BY <1>1, <1>3, <1>5, <1>9, <1>10 DEF EditsKept, ShownSoon, queryVars
<1> QED
  BY <1>7, <1>8, <1>11, <1>12 DEF EditsKept

(* A fetch that is answered finds what is saved, unless a save is to come. *)
LEMMA ListItemsKeeps == ASSUME Mountable, EditsKept, NEW v \in Views, ListItems(v) PROVE EditsKept'
<1>1. /\ query' = [query EXCEPT ![v] = Fetched(rows)]
      /\ UNCHANGED <<rows, view, cache, cards, own, hasty, calls>>
  BY DEF ListItems, cardVars
<1> USE DEF EditsKept
<1>2. FormKeeps' /\ SavesKeep' /\ Stored'
  BY <1>1 DEF FormKeeps, SavesKeep, Stored, Saving, SaveOf
<1>3. \A i \in Ids : (Saving(i) => Coming(i)) /\ (Coming(i) => Coming(i)')
  BY <1>1 DEF Saving, Coming, SaveOf
<1>4. ShownSoon'
  <2>1. CASE v = view
    <3>1. query'[view'] = Fetched(rows')
      BY <1>1, <2>1 DEF Mountable, ItemTypes
    <3>2. query'[view'].phase = "answered" /\ query'[view'].rows = rows'
      BY <3>1 DEF Fetched
    <3> QED
      BY <1>2, <1>3, <3>2 DEF ShownSoon, Stored, Saving, Coming, SaveOf
  <2>2. CASE v # view
    <3>1. query'[view'] = query[view] /\ cache' = cache
      BY <1>1, <2>2 DEF Mountable, ItemTypes
    <3> QED
      BY <1>1, <1>3, <3>1 DEF ShownSoon
  <2> QED
    BY <2>1, <2>2
<1> QED
  BY <1>2, <1>4

(* An answer that is heard shows what it has found; the cards that stay    *)
(* keep their forms, and the others have saved nothing.                    *)
LEMMA QueryHeardKeeps ==
  ASSUME Mountable, EditsKept, NEW v \in Views, QueryHeard(v) PROVE EditsKept'
<1> DEFINE listed == query[v].rows
<1>1. /\ query[v].phase = "answered" /\ cache' = [cache EXCEPT ![v] = listed]
      /\ query' = [query EXCEPT ![v] = Idle] /\ UNCHANGED <<rows, view, calls, hasty>>
  BY DEF QueryHeard
<1>2. CASE v # view
  <2>1. UNCHANGED <<cards, own>>
    BY <1>2 DEF QueryHeard
  <2>2. query'[view'] = query[view] /\ cache'[view'] = cache[view]
    BY <1>1, <1>2 DEF Mountable, ItemTypes
  <2>3. FormKeeps' /\ SavesKeep' /\ Stored'
    BY <1>1, <2>1 DEF EditsKept, FormKeeps, SavesKeep, Stored, Saving, SaveOf
  <2>4. \A i \in Ids : Coming(i) => Coming(i)'
    BY <1>1 DEF Coming, SaveOf
  <2>5. ShownSoon'
    BY <1>1, <2>1, <2>2, <2>4 DEF EditsKept, ShownSoon
  <2> QED
    BY <2>3, <2>5 DEF EditsKept
<1>3. CASE v = view
  <2>1. /\ cards' = CardsOf(listed, cache[v])
        /\ own' = [i \in Ids |-> IF Stays(i, listed, cache[v]) THEN own[i] ELSE Untouched]
    BY <1>3 DEF QueryHeard
  <2>2. query'[view'] = Idle /\ cache'[view'] = listed
    BY <1>1, <1>3 DEF Mountable, ItemTypes
  <2>3. query[view].phase = "answered" /\ query[view].rows = listed /\ query[view] # Sent /\ query[view] # Idle
    BY <1>1, <1>3 DEF Sent, Idle
  <2>4. listed \in Tables /\ listed \in Listings
    BY <1>1 DEF Mountable, AnswersAreTables, Listings
  <2> HIDE DEF listed
  <2>5. ASSUME NEW i \in Ids, NEW f \in Fields, own'[i][f] # None
        PROVE  /\ own'[i] = own[i] /\ cards'[i] = cards[i] /\ listed[i] # NoRow
               /\ cards[i] # NoCard
    <3>1. Stays(i, listed, cache[v])
      BY <2>1, <2>5 DEF Untouched
    <3>2. listed # Nothing
      BY <2>4, TablesHoldRows
    <3> QED
      BY <2>1, <2>4, <3>1, <3>2, CardsOfType DEF Mountable, Stays
  <2>6. \A i \in Ids : (Coming(i) => Coming(i)') /\ (Saving(i) => Saving(i)')
    BY <1>1 DEF Coming, Saving, SaveOf
  <2>7. \A c \in calls' : c.kind = "patch" => c.id \in Ids
    BY <1>1 DEF Mountable, CallsAreWhole
  <2>8. FormKeeps' /\ SavesKeep'
    BY <1>1, <2>5, <2>7 DEF EditsKept, FormKeeps, SavesKeep
  <2>9. Stored'
    BY <1>1, <2>5, <2>6 DEF EditsKept, Stored
  <2>10. ShownSoon'
    BY <1>1, <2>2, <2>3, <2>5, <2>6 DEF EditsKept, ShownSoon
  <2> QED
    BY <2>8, <2>9, <2>10 DEF EditsKept
<1> QED
  BY <1>2, <1>3

LEMMA QueryFailsKeeps ==
  ASSUME Mountable, EditsKept, NEW v \in Views, QueryFails(v) PROVE EditsKept'
<1>1. query' = [query EXCEPT ![v] = Idle] /\ UNCHANGED <<rows, view, cache, calls, hasty>>
  BY DEF QueryFails
<1>2. CASE v = view
  <2>1. own' = [i \in Ids |-> Untouched] /\ CallsAreWhole'
    BY <1>2, QueryFailsTypes DEF QueryFails, Mountable
  <2> QED
    BY <2>1, NothingSaved
<1>3. CASE v # view
  <2>1. UNCHANGED <<cards, own>>
    BY <1>3 DEF QueryFails
  <2>2. query'[view'] = query[view]
    BY <1>1, <1>3 DEF Mountable, ItemTypes
  <2>3. FormKeeps' /\ SavesKeep' /\ Stored'
    BY <1>1, <2>1 DEF EditsKept, FormKeeps, SavesKeep, Stored, Saving, SaveOf
  <2>4. ShownSoon'
    BY <1>1, <2>1, <2>2 DEF EditsKept, ShownSoon, Coming, SaveOf
  <2> QED
    BY <2>3, <2>4 DEF EditsKept
<1> QED
  BY <1>2, <1>3

(* A page that fetches anew waits for what the fetch will find.            *)
LEMMA FocusKeeps == ASSUME Mountable, EditsKept, Focus PROVE EditsKept'
<1>1. query' = [query EXCEPT ![view] = Sent] /\ view \in Views
      /\ UNCHANGED <<rows, view, cache, cards, own, hasty, calls>>
  BY DEF Focus, cardVars, Mountable, ItemTypes
<1>2. query'[view'] = Sent
  BY <1>1 DEF Mountable, ItemTypes
<1>3. FormKeeps' /\ SavesKeep' /\ Stored' /\ ShownSoon'
  BY <1>1, <1>2 DEF EditsKept, FormKeeps, SavesKeep, Stored, ShownSoon, Saving, SaveOf
<1> QED
  BY <1>3 DEF EditsKept

(* A request without a form disturbs none.                                 *)
LEMMA AsksKeeps ==
  ASSUME Mountable, EditsKept,
         HandleConfirmAll \/ \E i \in Ids : ToggleReviewed(i) \/ HandleDelete(i)
  PROVE  EditsKept'
<1>1. UNCHANGED <<rows, view, query, cache, cards, own, hasty>>
  BY AsksForm DEF queryVars, cardVars
<1>2. PICK d : calls' = calls \union {d} /\ d.kind # "patch"
  BY AsksForm
<1>3. \A i \in Ids : (Coming(i) => Coming(i)') /\ (Saving(i) => Saving(i)')
  BY <1>1, <1>2 DEF Coming, Saving, SaveOf
<1>4. FormKeeps' /\ SavesKeep'
  BY <1>1, <1>2 DEF EditsKept, FormKeeps, SavesKeep
<1>5. Stored' /\ ShownSoon'
  BY <1>1, <1>3 DEF EditsKept, Stored, ShownSoon
<1> QED
  BY <1>4, <1>5 DEF EditsKept

(* A commit: a save puts in the table what the card has saved.             *)
LEMMA WritesKeep ==
  ASSUME Mountable, EditsKept, NEW c \in calls, Writes(c), ~hasty, NEW i \in Ids, NEW f \in Fields,
         c.answer \in {"sent", "early", "heard"}, own[i][f] # None
  PROVE  \/ rows'[i] = NoRow \/ rows'[i].text[f] = own[i][f]
         \/ (Saving(i) /\ ~(c.kind = "patch" /\ c.id = i))
<1>1. CASE c.kind = "patch" /\ c.id = i
  <2>1. rows'[i].text = Merged(rows[i].text, c.data[i].text)
    BY <1>1, CommitForm
  <2>2. own[i][f] = c.data[i].text[f]
    BY <1>1 DEF EditsKept, SavesKeep
  <2>3. ~Unset(f, own[i][f])
    BY DEF Mountable, ItemTypes, Marks
  <2> QED
    BY <2>1, <2>2, <2>3 DEF Merged
<1>2. CASE ~(c.kind = "patch" /\ c.id = i)
  <2>1. own[i] # Untouched
    BY DEF Untouched
  <2>2. view \in Views /\ cache[view] # Nothing /\ cache[view][i] # NoRow
    BY <2>1 DEF Mountable, CardsAreListed, ItemTypes
  <2>3. \/ rows'[i] = rows[i] \/ rows'[i] = NoRow
        \/ rows[i] # NoRow /\ rows'[i].text = rows[i].text
    BY <1>2, <2>2, CommitForm
  <2>4. rows[i] = NoRow \/ rows[i].text[f] = own[i][f] \/ Saving(i)
    BY DEF EditsKept, Stored
  <2> QED
    BY <1>2, <2>3, <2>4
<1> QED
  BY <1>1, <1>2

LEMMA ServedKeeps ==
  ASSUME Mountable, EditsKept, NEW c \in calls, NEW d, NEW answered \in SUBSET {d},
         UNCHANGED <<view, query, cache, cards, own, hasty>>,
         calls' = (calls \ {c}) \union answered, answered = {} => c.answer = "heard",
         d.answer = "ok" \/ (d.answer = "early" /\ c.answer = "sent" /\ rows' = rows),
         c.answer \in {"sent", "early", "heard"},
         d.kind = c.kind, d.id = c.id, d.data = c.data, d.page = c.page,
         Writes(c) \/ (rows' = rows /\ d.answer = "early")
  PROVE  EditsKept'
<1> SUFFICES ASSUME ~hasty' PROVE EditsKept'
  BY DEF EditsKept, FormKeeps, SavesKeep, Stored, ShownSoon
<1>1. ~hasty
  OBVIOUS
<1>2. \A i \in Ids : Coming(i) => Coming(i)'
  BY DEF Coming, SaveOf
<1>3. FormKeeps' /\ ShownSoon'
  BY <1>1, <1>2 DEF EditsKept, FormKeeps, ShownSoon
<1>4. SavesKeep'
  BY <1>1 DEF EditsKept, SavesKeep
<1>5. \A i \in Ids : Saving(i) /\ (~(c.kind = "patch" /\ c.id = i) \/ (d.answer = "early" /\ d \in answered)) => Saving(i)'
  BY DEF Saving, SaveOf
<1>6. ASSUME NEW i \in Ids, NEW f \in Fields, own[i][f] # None
      PROVE  rows'[i] = NoRow \/ rows'[i].text[f] = own[i][f] \/ Saving(i)'
  <2>1. CASE Writes(c)
    BY <1>1, <1>5, <1>6, <2>1, WritesKeep
  <2>2. CASE rows' = rows /\ d.answer = "early"
    <3>1. d \in answered
      BY <2>2
    <3> QED
      BY <1>1, <1>5, <1>6, <2>2, <3>1 DEF EditsKept, Stored
  <2> QED
    BY <2>1, <2>2
<1>7. Stored'
  BY <1>6 DEF Stored
<1> QED
  BY <1>3, <1>4, <1>7 DEF EditsKept

LEMMA AnsweredKeeps ==
  ASSUME Mountable, EditsKept, NEW c \in calls,
         Commits(c) \/ Refused(c) \/ AnswersFirst(c) \/ CommitsLate(c)
  PROVE  EditsKept'
<1> SUFFICES ASSUME ~hasty' PROVE EditsKept'
  BY DEF EditsKept, FormKeeps, SavesKeep, Stored, ShownSoon
<1>1. UNCHANGED <<view, query, cache, cards, own, hasty>>
  BY AnsweredTypes, AnswersFirstTypes, CommitsLateTypes DEF queryVars, cardVars
<1>2. CASE Commits(c) \/ Refused(c)
  <2>1. PICK d : /\ calls' = (calls \ {c}) \union {d} /\ d.answer = "ok" /\ c.answer = "sent"
                 /\ d.kind = c.kind /\ d.id = c.id /\ d.data = c.data /\ d.page = c.page
    BY <1>2, AnsweredTypes
  <2>2. Writes(c)
    BY <1>2, AnsweredTypes
  <2> QED
    BY <1>1, <2>1, <2>2, ServedKeeps
<1>3. CASE AnswersFirst(c)
  <2>1. PICK d : /\ calls' = (calls \ {c}) \union {d} /\ d.answer = "early" /\ c.answer = "sent"
                 /\ d.kind = c.kind /\ d.id = c.id /\ d.data = c.data /\ d.page = c.page
    BY <1>3, AnswersFirstTypes
  <2>2. rows' = rows
    BY <1>3, AnswersFirstTypes
  <2> QED
    BY <1>1, <2>1, <2>2, ServedKeeps
<1>4. CASE CommitsLate(c)
  <2>1. Writes(c)
    BY <1>4, CommitsLateTypes
  <2>2. CASE c.answer = "heard" /\ calls' = calls \ {c}
    <3> DEFINE d == [c EXCEPT !.answer = "ok"]
               answered == {} \ {d}
    <3>1. c \in Requests
      BY DEF Mountable, ItemTypes
    <3>2. d.answer = "ok" /\ d.kind = c.kind /\ d.id = c.id /\ d.data = c.data /\ d.page = c.page
      BY <3>1 DEF Requests
    <3>3. calls' = (calls \ {c}) \union answered /\ answered \in SUBSET {d}
      BY <2>2
    <3> HIDE DEF d, answered
    <3> QED
      BY <1>1, <2>1, <2>2, <3>2, <3>3, ServedKeeps
  <2>3. CASE ~(c.answer = "heard" /\ calls' = calls \ {c})
    <3>1. PICK d : /\ calls' = (calls \ {c}) \union {d} /\ d.answer = "ok" /\ c.answer = "early"
                   /\ d.kind = c.kind /\ d.id = c.id /\ d.data = c.data /\ d.page = c.page
      BY <1>4, <2>3, CommitsLateTypes
    <3> QED
      BY <1>1, <2>1, <3>1, ServedKeeps
  <2> QED
    BY <2>2, <2>3
<1> QED
  BY <1>2, <1>3, <1>4

(* An answer that is heard: the page of a save fetches anew.               *)
LEMMA CallHeardKeeps ==
  ASSUME Mountable, EditsKept, NEW c \in calls, CallHeard(c) PROVE EditsKept'
<1> SUFFICES ASSUME ~hasty' PROVE EditsKept'
  BY DEF EditsKept, FormKeeps, SavesKeep, Stored, ShownSoon
<1>1. /\ UNCHANGED <<rows, view, cache, cards, own, hasty>>
      /\ c.answer \in {"ok", "error"} /\ calls' = calls \ {c}
      /\ c.answer = "ok" /\ c.kind = "patch" /\ c.page = view => query'[view] = Sent
      /\ view \in Views => query'[view] \in {Sent, query[view]}
  BY CallHeardTypes
<1>2. FormKeeps' /\ SavesKeep'
  BY <1>1 DEF EditsKept, FormKeeps, SavesKeep
<1>3. \A i \in Ids : /\ Saving(i) => Saving(i)'
                     /\ Coming(i) => Coming(i)' \/ query'[view'] = Sent
  BY <1>1 DEF Saving, Coming, SaveOf
<1>4. Stored'
  BY <1>1, <1>3 DEF EditsKept, Stored
<1>5. ASSUME NEW i \in Ids, NEW f \in Fields, own[i][f] # None PROVE view \in Views
  <2>1. own[i] # Untouched
    BY <1>5 DEF Untouched
  <2> QED
    BY <2>1 DEF Mountable, CardsAreListed, ItemTypes
<1>6. ShownSoon'
  BY <1>1, <1>3, <1>5 DEF EditsKept, ShownSoon
<1> QED
  BY <1>2, <1>4, <1>6 DEF EditsKept

(* Somebody else's edit is what stands in its field from then on.          *)
LEMMA OthersKeep ==
  ASSUME Mountable, EditsKept, NEW i \in Ids, NEW f \in Fields, NEW x \in Texts, OthersEdit(i, f, x)
  PROVE  EditsKept'
<1>1. /\ UNCHANGED <<view, query, cache, cards, calls, hasty>>
      /\ own' = [own EXCEPT ![i] = [own[i] EXCEPT ![f] = None]]
      /\ \A k \in Ids : k # i => rows'[k] = rows[k]
      /\ \A g \in Fields : g # f => rows'[i].text[g] = rows[i].text[g]
      /\ rows[i] # NoRow
  BY OthersForm DEF queryVars
<1>2. own \in [Ids -> Marks] /\ own[i] \in [Fields -> Texts \union {None} \union {Draft.text[g] : g \in Fields}]
  BY DEF Mountable, ItemTypes, Marks, Forms
<1>3. own'[i] = [own[i] EXCEPT ![f] = None] /\ \A k \in Ids : k # i => own'[k] = own[k]
  BY <1>1, <1>2
<1>4. \A k \in Ids, g \in Fields : own'[k][g] = own[k][g] \/ own'[k][g] = None
  BY <1>2, <1>3
<1>5. own'[i][f] = None
  BY <1>2, <1>3
<1>6. \A c \in calls : c.kind = "patch" => c.id \in Ids
  BY DEF Mountable, CallsAreWhole
<1>7. FormKeeps' /\ SavesKeep'
  BY <1>1, <1>4, <1>6 DEF EditsKept, FormKeeps, SavesKeep
<1>8. \A k \in Ids : (Saving(k) => Saving(k)') /\ (Coming(k) => Coming(k)')
  BY <1>1 DEF Saving, Coming, SaveOf
<1>9. Stored'
  BY <1>1, <1>4, <1>5, <1>8 DEF EditsKept, Stored
<1>10. ShownSoon'
  BY <1>1, <1>4, <1>8 DEF EditsKept, ShownSoon
<1> QED
  BY <1>7, <1>9, <1>10 DEF EditsKept

(* Every step of the pages keeps what the user has saved.                  *)
LEMMA EditsStep == ASSUME Mountable, EditsKept, [ItemsNext]_itemVars PROVE EditsKept'
<1>1. CASE UNCHANGED itemVars
  BY <1>1
  DEF itemVars, EditsKept, FormKeeps, SavesKeep, Stored, ShownSoon, Saving, Coming, SaveOf
<1>2. ASSUME NEW v \in Views, OpenView(v) PROVE EditsKept'
  BY <1>2, OpenViewTypes, NothingSaved DEF Mountable
<1>3. ASSUME NEW c \in calls, ConfirmedAll(c) PROVE EditsKept'
  BY <1>3, ConfirmedAllTypes, NothingSaved DEF Mountable
<1>4. CASE OnPage
  <2>1. CASE HandleConfirmAll \/ \E i \in Ids : ToggleReviewed(i) \/ HandleDelete(i)
    BY <2>1, AsksKeeps
  <2>2. CASE Focus
    BY <2>2, FocusKeeps
  <2>3. ASSUME NEW v \in Views, ListItems(v) \/ QueryHeard(v) \/ QueryFails(v) PROVE EditsKept'
    BY <2>3, ListItemsKeeps, QueryHeardKeeps, QueryFailsKeeps
  <2>4. ASSUME NEW i \in Ids, Edit(i) \/ HandleSaveEdit(i) \/ HandleCancelEdit(i) PROVE EditsKept'
    BY <2>4, EditKeeps, SaveKeeps, CancelKeeps
  <2>5. ASSUME NEW i \in Ids, NEW f \in Fields, NEW x \in Texts, Type(i, f, x) \/ OthersEdit(i, f, x)
        PROVE  EditsKept'
    BY <2>5, TypeKeeps, OthersKeep
  <2>6. ASSUME NEW c \in calls, Commits(c) \/ Refused(c) \/ AnswersFirst(c) \/ CommitsLate(c) \/ CallHeard(c)
        PROVE  EditsKept'
    BY <2>6, AnsweredKeeps, CallHeardKeeps
  <2> QED
    BY <1>4, <2>1, <2>2, <2>3, <2>4, <2>5, <2>6 DEF OnPage
<1> QED
  BY <1>1, <1>2, <1>3, <1>4 DEF ItemsNext
-----------------------------------------------------------------------------
(* Items: theorems *)

LEMMA ItemsInitHolds == ItemsInit(OneItem) => ItemsInv
<1> SUFFICES ASSUME ItemsInit(OneItem) PROVE ItemsInv
  OBVIOUS
<1>1. OneItem \in Tables
  BY DraftType, OnlyType DEF OneItem
<1>2. /\ own = [i \in Ids |-> Untouched] /\ cards = [i \in Ids |-> NoCard] /\ calls = {}
      /\ query = [v \in Views |-> Idle] /\ cache = [v \in Views |-> Nothing] /\ view = "none"
      /\ rows = OneItem /\ hasty = FALSE /\ invalid = [v \in Views |-> FALSE]
      /\ failed = [v \in Views |-> FALSE]
  BY DEF ItemsInit
<1>3. ItemTypes
  BY <1>1, <1>2, EmptyTypes DEF ItemTypes
<1>4. AnswersAreTables /\ CallsAreWhole /\ CardsAreListed
  BY <1>2 DEF AnswersAreTables, CallsAreWhole, CardsAreListed, Idle
<1>5. FormKeeps /\ SavesKeep /\ Stored /\ ShownSoon
  BY <1>2 DEF FormKeeps, SavesKeep, Stored, ShownSoon, Untouched
<1> QED
  BY <1>3, <1>4, <1>5 DEF ItemsInv, Mountable, EditsKept

(* The parts of the invariant hold together, in every state of the pages.  *)
THEOREM ItemsInvariant == ItemsSpec => []ItemsInv
<1>1. ItemsInv /\ [ItemsNext]_itemVars => ItemsInv'
  BY MountableStep, EditsStep DEF ItemsInv
<1> QED
  BY <1>1, ItemsInitHolds, PTL DEF ItemsSpec

(* The table, the caches, the fetches and the requests of the pages keep   *)
(* their types, and no card is mounted without a row that the page lists.  *)
THEOREM ItemsTypeCorrect == ItemsSpec => [](ItemTypes /\ CardsAreListed)
<1>1. ItemsInv => ItemTypes /\ CardsAreListed
  BY DEF ItemsInv, Mountable
<1> QED
  BY <1>1, ItemsInvariant, PTL

(* What the user has typed and saved in a card, other than a date that is  *)
(* cleared, stands in the table once its requests are committed, while the *)
(* page is shown, until the user types something else there or somebody    *)
(* else edits the field, for any saves of any forms in between. It takes a *)
(* tab that has caught up at each closing of a form, and answers that come *)
(* after their commits; and it says nothing of the cards of a page that is *)
(* opened anew, which may be older than the edit and undo it.              *)
THEOREM EditsStand == ItemsSpec => []OwnEditsStand
<1>1. ItemsInv => OwnEditsStand
  BY DEF ItemsInv, EditsKept, Stored, OwnEditsStand, Saving, SaveOf
<1> QED
  BY <1>1, ItemsInvariant, PTL

(* A tab that has caught up shows it: no fetch from before an edit was     *)
(* committed passes for the items of now. The exceptions are the same.     *)
THEOREM EditsShow == ItemsSpec => []OwnEditsShow
<1>1. EditsKept => OwnEditsShow
  BY CaughtUpShows DEF OwnEditsShow
<1> QED
  BY <1>1, ItemsInvariant, PTL DEF ItemsInv
=============================================================================
