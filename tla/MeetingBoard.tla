---------------------------- MODULE MeetingBoard ----------------------------
(***************************************************************************)
(* What the extraction pipeline promises to those who only read the        *)
(* database (the tracker, the dashboard, the status page): every change    *)
(* they can see is one of the atomic changes below.  There are no queues,  *)
(* workers, locks or crashes here.                                         *)
(***************************************************************************)
EXTENDS Integers

CONSTANTS Meetings, Tasks

VARIABLES status,      \* of each meeting
          openItems,   \* items not Done, by meeting and task
          doneItems,   \* items Done
          knowledge,   \* knowledge entries of each meeting
          runs         \* the outcomes recorded in extraction_runs

board == <<status, openItems, doneItems, knowledge, runs>>

Exists(m) == status[m] \in {"draft", "extracting", "extracted"}
Nothing == [t \in Tasks |-> 0]

Init ==
  /\ status = [m \in Meetings |-> "unborn"]
  /\ openItems = [m \in Meetings |-> Nothing]
  /\ doneItems = [m \in Meetings |-> Nothing]
  /\ knowledge = [m \in Meetings |-> 0]
  /\ runs = [m \in Meetings |-> {}]

(* A meeting appears, to be extracted later or at once. *)
Create(m) ==
  /\ status[m] = "unborn"
  /\ \E s \in {"draft", "extracting"} : status' = [status EXCEPT ![m] = s]
  /\ UNCHANGED <<openItems, doneItems, knowledge, runs>>

Start(m) ==
  /\ Exists(m)
  /\ status' = [status EXCEPT ![m] = "extracting"]
  /\ UNCHANGED <<openItems, doneItems, knowledge, runs>>

(* Items, entries, the run record and the status change together or not at *)
(* all; no task gets more than one new item.                               *)
Extract(m) ==
  /\ Exists(m)
  /\ status' = [status EXCEPT ![m] = "extracted"]
  /\ \E F \in SUBSET Tasks :
       openItems' = [openItems EXCEPT ![m] =
                       [t \in Tasks |-> IF t \in F THEN @[t] + 1 ELSE @[t]]]
  /\ \E n \in {0, 1} : knowledge' = [knowledge EXCEPT ![m] = @ + n]
  /\ runs' = [runs EXCEPT ![m] = @ \cup {"ok"}]
  /\ UNCHANGED doneItems

(* A meeting with nothing to read is extracted without a run. *)
ExtractNothing(m) ==
  /\ Exists(m)
  /\ status' = [status EXCEPT ![m] = "extracted"]
  /\ UNCHANGED <<openItems, doneItems, knowledge, runs>>

(* A failure changes nothing but its record and the status, and that not   *)
(* always: the meeting may have been started anew.                         *)
Fail(m) ==
  /\ Exists(m)
  /\ \E s \in {"draft", status[m]} : status' = [status EXCEPT ![m] = s]
  /\ \E R \in {{}, {"error"}} : runs' = [runs EXCEPT ![m] = @ \cup R]
  /\ UNCHANGED <<openItems, doneItems, knowledge>>

(* One item changes hands or disappears; editing never creates one. *)
Edit(m, t) ==
  /\ \E o, d \in {-1, 0, 1} :
       /\ o + d \in {-1, 0}
       /\ openItems[m][t] + o >= 0 /\ doneItems[m][t] + d >= 0
       /\ openItems' = [openItems EXCEPT ![m][t] = @ + o]
       /\ doneItems' = [doneItems EXCEPT ![m][t] = @ + d]
  /\ UNCHANGED <<status, knowledge, runs>>

(* A meeting goes with everything under it, for good. *)
Delete(m) ==
  /\ Exists(m)
  /\ status' = [status EXCEPT ![m] = "deleted"]
  /\ openItems' = [openItems EXCEPT ![m] = Nothing]
  /\ doneItems' = [doneItems EXCEPT ![m] = Nothing]
  /\ knowledge' = [knowledge EXCEPT ![m] = 0]
  /\ runs' = [runs EXCEPT ![m] = {}]

Next == \E m \in Meetings :
          \/ Create(m) \/ Start(m) \/ Extract(m) \/ ExtractNothing(m)
          \/ Fail(m) \/ Delete(m)
          \/ \E t \in Tasks : Edit(m, t)

Spec == Init /\ [][Next]_board
=============================================================================
