----------------------------- MODULE CaptureFlow -----------------------------
(***************************************************************************)
(* How a browser tab submits meetings and follows their extraction: the    *)
(* capture page (CapturePage.tsx), which polls by itself, and the status   *)
(* page of an upload (MeetingStatusPage.tsx), which polls with usePolling. *)
(*                                                                         *)
(* A poll is sent, answered by the API and heard by the page in three      *)
(* steps, and neither page waits for one before it sends the next.         *)
(* Leaving a page takes back neither the polls it has sent nor a           *)
(* submission that is under way: what the page has started goes on in an   *)
(* instance of it that is no longer shown, with its own refs.              *)
(*                                                                         *)
(* The meetings are those of MeetingBoard, as far as a poll shows them:    *)
(* ExtractionPipelineProofs shows that the workers and the API implement   *)
(* it. Requests of the tab and everybody else take steps of the board.     *)
(***************************************************************************)
EXTENDS Naturals, FiniteSets

CONSTANTS
  Meetings,   \* meetings, one for each submission
  MaxPolls,   \* MAX_POLL_COUNT
  MaxMounts,  \* bound: mounts of the capture page with something under way
  MaxFlight   \* bound: polls of the tab that are not yet heard

ASSUME CaptureAssumption ==
  MaxPolls \in Nat /\ MaxMounts \in Nat \ {0} /\ MaxFlight \in Nat

Mounts == 1..MaxMounts

VARIABLES
  state,      \* of the meetings: the status the API answers
  page,       \* "capture", "status", or "items" for the pages of items
  here,       \* the latest mount of the capture page
  from,       \* [Meetings -> the mount that submitted it, 0 when none]
  posting,    \* [Meetings -> what its submission waits for]
  uploading,  \* the meeting whose file the upload tab sends
  phase,      \* [Mounts -> ExtractionPhase]
  timers,     \* meetings whose interval runs
  ref,        \* [Mounts -> the meeting of the interval in pollIntervalRef]
  polls,      \* [Mounts -> pollCountRef]
  seen,       \* [Mounts \cup {0} -> hasSeenExtractingRef]; 0 is the status page
  shown,      \* the meeting of the status page
  enabled,    \* status: pollingEnabled
  over,       \* status: the five minutes are over
  signs,      \* status: what the user sees of "error", "timeout", "failed", "done"
  flight,     \* polls that are not yet heard
  late        \* history: a poll was still out when the tab went on to the next thing

NoMeeting == "none"
captureVars == <<here, from, posting, uploading, phase, timers, ref, polls>>
statusVars == <<shown, enabled, over, signs>>
tabVars == <<state, page, captureVars, seen, statusVars, flight, late>>

-----------------------------------------------------------------------------
(* The meetings. *)

\* Polls show neither items nor runs, so the board is taken without tasks.
Board == INSTANCE MeetingBoard WITH
  Tasks <- {}, status <- state,
  openItems <- [m \in Meetings |-> <<>>], doneItems <- [m \in Meetings |-> <<>>],
  knowledge <- [m \in Meetings |-> 0], runs <- [m \in Meetings |-> {}]

\* The steps of the workers and of other users. A meeting that is deleted is
\* not one of them: it answers with an error, which any poll may do.
BoardMoves(m) ==
  /\ Board!Start(m) \/ Board!ExtractNothing(m) \/ Board!Fail(m)
  /\ state' # state
  /\ UNCHANGED <<page, captureVars, seen, statusVars, flight, late>>

-----------------------------------------------------------------------------
(* Pages come and go. *)

\* The tab leaves what it shows for page p, the status page being that of m.
\* Unmounting the capture page clears the interval in its pollIntervalRef.
Show(p, m) ==
  /\ page' = p
  /\ timers' = IF page = "capture" THEN timers \ {ref[here]} ELSE timers
  /\ shown' = m /\ enabled' = (p = "status") /\ over' = FALSE /\ signs' = {}
  /\ late' = (late \/ flight # {})
  /\ UNCHANGED <<from, posting>>

\* What the mounts of the capture page hold, and a new status page does not.
Remain == /\ seen' = [seen EXCEPT ![0] = FALSE]
          /\ UNCHANGED <<here, phase, ref, polls>>

\* Nothing that mount i has started is under way.
Free(i) ==
  /\ \A m \in Meetings : from[m] = i => posting[m] = "over" /\ m \notin timers
  /\ \A f \in flight : f.mount # i

\* Mount numbers are used again when they are free.
BackToCapture ==
  /\ page # "capture" /\ Show("capture", NoMeeting)
  /\ \E i \in Mounts :
       /\ Free(i) /\ here' = i
       /\ phase' = [phase EXCEPT ![i] = "idle"] /\ ref' = [ref EXCEPT ![i] = NoMeeting]
       /\ polls' = [polls EXCEPT ![i] = 0]
       /\ seen' = [seen EXCEPT ![0] = FALSE, ![i] = FALSE]
  /\ UNCHANGED <<state, uploading, flight>>

Leave ==
  /\ page # "items" /\ Show("items", NoMeeting) /\ Remain
  /\ UNCHANGED <<state, uploading, flight>>

-----------------------------------------------------------------------------
(* Capture: submitting. *)

FormIsShown == page = "capture" /\ phase[here] \in {"idle", "error"}

\* A meeting that the tab has not yet submitted; any one will do.
New(m) ==
  LET Unused == {n \in Meetings : state[n] = "unborn" /\ posting[n] = "none" /\ uploading # n}
  IN  m \in Unused /\ m = CHOOSE n \in Unused : TRUE

Submit(m) ==
  /\ FormIsShown /\ New(m)
  /\ from' = [from EXCEPT ![m] = here]
  /\ posting' = [posting EXCEPT ![m] = "create"]
  /\ phase' = [phase EXCEPT ![here] = "creating"]
  /\ late' = (late \/ flight # {})
  /\ UNCHANGED <<state, page, here, uploading, timers, ref, polls, seen, statusVars, flight>>

Created(m) ==
  /\ posting[m] = "create"
  /\ Board!Create(m) /\ state'[m] = "draft"
  /\ posting' = [posting EXCEPT ![m] = "trigger"]
  /\ phase' = [phase EXCEPT ![from[m]] = "triggering"]
  /\ UNCHANGED <<page, here, from, uploading, timers, ref, polls, seen, statusVars, flight, late>>

\* The extraction is accepted and the page starts to poll, whether or not it
\* is still shown, and whatever pollIntervalRef holds.
StartPolling(m) ==
  LET i == from[m] IN
  /\ posting[m] = "trigger"
  /\ Board!Start(m)
  /\ posting' = [posting EXCEPT ![m] = "over"]
  /\ phase' = [phase EXCEPT ![i] = "polling"]
  /\ timers' = timers \union {m} /\ ref' = [ref EXCEPT ![i] = m]
  /\ polls' = [polls EXCEPT ![i] = 0] /\ seen' = [seen EXCEPT ![i] = FALSE]
  /\ UNCHANGED <<page, here, from, uploading, statusVars, flight, late>>

\* A request fails, or its answer is lost; the draft of the form is kept.
SubmitFails(m) ==
  /\ posting[m] \in {"create", "trigger"}
  /\ \/ UNCHANGED state
     \/ posting[m] = "create" /\ Board!Create(m) /\ state'[m] = "draft"
     \/ posting[m] = "trigger" /\ Board!Start(m)
  /\ posting' = [posting EXCEPT ![m] = "over"]
  /\ phase' = [phase EXCEPT ![from[m]] = "error"]
  /\ UNCHANGED <<page, here, from, uploading, timers, ref, polls, seen, statusVars, flight, late>>

\* The upload tab sends a file. The user may meanwhile turn to the form, or to
\* another page. Bound: the tab has one file under way at a time.
Upload(m) ==
  /\ FormIsShown /\ New(m)
  /\ uploading = NoMeeting /\ uploading' = m
  /\ UNCHANGED <<state, page, here, from, posting, phase, timers, ref, polls, seen, statusVars, flight, late>>

\* It is stored, and the tab moves on to its status page, from whatever page it
\* shows by then.
Uploaded(m) ==
  /\ uploading = m /\ uploading' = NoMeeting
  /\ Board!Create(m) /\ state'[m] = "extracting"
  /\ Show("status", m) /\ Remain
  /\ UNCHANGED flight

\* The request fails, or its answer is lost: the tab never asks for a meeting
\* that is stored all the same.
UploadFails(m) ==
  /\ uploading = m /\ uploading' = NoMeeting
  /\ UNCHANGED <<state, page, here, from, posting, phase, timers, ref, polls, seen, statusVars, flight, late>>

\* Bug: the ref is reset and the interval goes on.
Forget(i) ==
  /\ timers' = timers
  /\ ref' = [ref EXCEPT ![i] = NoMeeting]

\* clearInterval(pollIntervalRef.current), in mount i.
Clear(i) ==
  /\ timers' = timers \ {ref[i]}
  /\ ref' = [ref EXCEPT ![i] = NoMeeting]

HandleRetry ==
  /\ page = "capture" /\ phase[here] = "error"
  /\ phase' = [phase EXCEPT ![here] = "idle"]
  /\ seen' = [seen EXCEPT ![here] = FALSE] /\ polls' = [polls EXCEPT ![here] = 0]
  /\ Clear(here)
  /\ UNCHANGED <<state, page, here, from, posting, uploading, statusVars, flight, late>>

-----------------------------------------------------------------------------
(* Polls. *)

\* Bound: MaxFlight. Polls with one answer cannot be told apart, so a poll has
\* the least number that is free.
Send(i, m) ==
  /\ Cardinality(flight) < MaxFlight
  /\ \E n \in 1..MaxFlight :
       /\ \A f \in flight : f.no # n
       /\ \A k \in 1..(n - 1) : \E f \in flight : f.no = k
       /\ flight' = flight \union {[no |-> n, mount |-> i, meeting |-> m, answer |-> "none"]}
  /\ late' = (late \/ flight # {})

\* Bug: the count of a mount never ends its polling.
NeverTooMany(i) == FALSE

TooMany(i) == polls[i] + 1 >= MaxPolls

\* An interval of the capture page goes off, also when it has outlived it.
Tick(m) ==
  LET i == from[m] IN
  /\ m \in timers
  /\ polls' = [polls EXCEPT ![i] = IF @ < MaxPolls THEN @ + 1 ELSE @]
  /\ \/ /\ TooMany(i) /\ Clear(i) /\ phase' = [phase EXCEPT ![i] = "error"]
        /\ UNCHANGED <<flight, late>>
     \/ /\ ~TooMany(i) /\ Send(i, m)
        /\ UNCHANGED <<phase, timers, ref>>
  /\ UNCHANGED <<state, page, here, from, posting, uploading, seen, statusVars>>

\* usePolling fetches at once and then at every interval.
StatusPolls ==
  /\ page = "status" /\ enabled /\ Send(0, shown)
  /\ UNCHANGED <<state, page, captureVars, seen, statusVars>>

\* The API answers with the status of a meeting that is there, or fails.
Answer(f) ==
  /\ f.answer = "none"
  /\ \E a \in {"error"} \union (IF Board!Exists(f.meeting) THEN {state[f.meeting]} ELSE {}) :
       flight' = (flight \ {f}) \union {[f EXCEPT !.answer = a]}
  /\ UNCHANGED <<state, page, captureVars, seen, statusVars, late>>

\* What an answer makes of a mount of the capture page, shown or not: only
\* "extracted" moves the tab, and then from whatever page it shows.
HearOnCapture(f) ==
  LET i == f.mount
      ends == f.answer = "error" \/ (f.answer = "draft" /\ seen[i])
  IN
  /\ i # 0 /\ f.answer \notin {"none", "extracted"}
  /\ flight' = flight \ {f}
  /\ seen' = IF f.answer = "extracting" THEN [seen EXCEPT ![i] = TRUE] ELSE seen
  /\ IF ends THEN Clear(i) /\ phase' = [phase EXCEPT ![i] = "error"]
     ELSE UNCHANGED <<timers, ref, phase>>
  /\ UNCHANGED <<state, page, here, from, posting, uploading, polls, statusVars, late>>

HearExtracted(f) ==
  LET i == f.mount IN
  /\ i # 0 /\ f.answer = "extracted"
  /\ flight' = flight \ {f}
  /\ page' = "items"
  /\ timers' = timers \ {ref[i], IF page = "capture" THEN ref[here] ELSE NoMeeting}
  /\ ref' = [ref EXCEPT ![i] = NoMeeting] /\ phase' = [phase EXCEPT ![i] = "done"]
  /\ shown' = NoMeeting /\ enabled' = FALSE /\ over' = FALSE /\ signs' = {}
  /\ seen' = [seen EXCEPT ![0] = FALSE]
  /\ late' = (late \/ flight' # {})
  /\ UNCHANGED <<state, here, from, posting, uploading, polls>>

\* Bug: the page stops without a word.
Silent == {}

TimeoutSign == {"timeout"}

\* An answer clears the error of an earlier poll, a failed one sets it, and an
\* effect then stops the polling.
HearOnStatus(f) ==
  LET Signs(s) == signs' = (signs \ {"error"}) \union s
      Stops(s) == enabled' = FALSE /\ Signs(s) /\ UNCHANGED seen
  IN
  /\ f.mount = 0 /\ f.answer # "none" /\ page = "status" /\ f.meeting = shown
  /\ flight' = flight \ {f}
  /\ CASE f.answer = "error" -> Stops({"error"})
       [] f.answer # "error" /\ over -> Stops(TimeoutSign)
       [] ~over /\ f.answer = "extracted" -> Stops({"done"})
       [] ~over /\ f.answer = "extracting" ->
            seen' = [seen EXCEPT ![0] = TRUE] /\ Signs({}) /\ UNCHANGED enabled
       [] ~over /\ f.answer = "draft" ->
            IF seen[0] THEN Stops({"failed"}) ELSE Signs({}) /\ UNCHANGED <<enabled, seen>>
  /\ UNCHANGED <<state, page, captureVars, shown, over, late>>

\* An answer for a status page that has been left still moves the tab when it
\* is "extracted" and its five minutes are not over.
HearAway(f) ==
  /\ f.mount = 0 /\ f.answer # "none" /\ ~(page = "status" /\ f.meeting = shown)
  /\ flight' = flight \ {f}
  /\ \/ /\ f.answer = "extracted" /\ Show("items", NoMeeting) /\ Remain
        /\ UNCHANGED <<state, uploading>>
     \/ UNCHANGED <<state, page, captureVars, seen, statusVars, late>>

\* A second and a half after "extracted" has been seen.
Redirect ==
  /\ page = "status" /\ "done" \in signs
  /\ Show("items", NoMeeting) /\ Remain
  /\ UNCHANGED <<state, uploading, flight>>

FiveMinutesPass ==
  /\ page = "status" /\ ~over /\ over' = TRUE
  /\ UNCHANGED <<state, page, captureVars, seen, shown, enabled, signs, flight, late>>

-----------------------------------------------------------------------------
CaptureInit ==
  /\ Board!Init /\ page = "capture" /\ here = 1
  /\ from = [m \in Meetings |-> 0] /\ posting = [m \in Meetings |-> "none"]
  /\ uploading = NoMeeting
  /\ phase = [i \in Mounts |-> "idle"] /\ timers = {}
  /\ ref = [i \in Mounts |-> NoMeeting] /\ polls = [i \in Mounts |-> 0]
  /\ seen = [i \in Mounts \union {0} |-> FALSE]
  /\ shown = NoMeeting /\ enabled = FALSE /\ over = FALSE /\ signs = {}
  /\ flight = {} /\ late = FALSE

\* Answers come and are heard, intervals go off and time passes by themselves.
Hear(f) == HearOnCapture(f) \/ HearExtracted(f) \/ HearOnStatus(f) \/ HearAway(f)

CaptureNext ==
  \/ StatusPolls \/ Redirect \/ FiveMinutesPass
  \/ Leave \/ BackToCapture \/ HandleRetry
  \/ \E f \in flight : Answer(f) \/ Hear(f)
  \/ \E m \in Meetings : \/ Submit(m) \/ Created(m) \/ StartPolling(m) \/ SubmitFails(m)
                         \/ Upload(m) \/ Uploaded(m) \/ UploadFails(m)
                         \/ BoardMoves(m) \/ Tick(m)

CaptureFairness ==
  /\ WF_tabVars(StatusPolls) /\ WF_tabVars(FiveMinutesPass)
  /\ \A m \in Meetings : WF_tabVars(Tick(m))
  /\ \A n \in 1..MaxFlight : WF_tabVars(\E f \in flight : f.no = n /\ (Answer(f) \/ Hear(f)))

CaptureSpec == CaptureInit /\ [][CaptureNext]_tabVars /\ CaptureFairness

-----------------------------------------------------------------------------
(* Safety. *)

\* A status page that has stopped polling tells the user why: it is about to
\* redirect, or it shows an error, a failure or the timeout
\* (MeetingStatusPage.tsx: handleData and the effect on `error`). Polls that
\* overtake each other are excepted: an answer that is heard after a failed
\* poll takes its error away and the page stays as it is.
StoppedIsShown == page = "status" /\ ~enabled => signs # {} \/ late

\* Every interval of the capture page can be stopped: its mount, shown or
\* not, still holds it in pollIntervalRef, the only handle by which answers,
\* the poll limit and unmounting stop it (CapturePage.tsx, startPolling).
\* Excepted again are polls still out when the next step begins: a late
\* failure of one submission shows the form while another is under way.
TimersCanStop == late \/ \A m \in timers : ref[from[m]] = m

(* Liveness. *)

\* Following a meeting comes to an end on both pages, whatever the API
\* answers: an interval is cleared at the latest by MAX_POLL_COUNT, and a
\* status page stops polling at the latest by the first answer after five
\* minutes.
FollowingEnds ==
  /\ \A m \in Meetings : (m \in timers) ~> (m \notin timers \/ late)
  /\ enabled ~> ~enabled

=============================================================================
