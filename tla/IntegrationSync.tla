-------------------------- MODULE IntegrationSync --------------------------
(***************************************************************************)
(* Action items and their copies in a project-management tool.             *)
(*                                                                         *)
(* Three jobs work on the same rows: the push of one item (an API request  *)
(* or a Celery task), the bulk push of a workspace, and the periodic pull  *)
(* of statuses.  Each runs in one transaction that stays open across calls *)
(* to the tool and commits once, at its end.  Nothing makes the pair       *)
(* (item, integration) unique among the refs, and what was created in the  *)
(* tool is not undone by a rollback.                                       *)
(*                                                                         *)
(* One workspace with one platform.  Text, owners, dates and credentials   *)
(* are left out; "In progress" counts as "Open".                           *)
(***************************************************************************)
EXTENDS Integers, Sequences, FiniteSets

CONSTANTS
  Items,        \* action items of the workspace
  Configs,      \* ids of integration configs of the platform
  Platforms,    \* platforms the workspace may use
  Syncers,      \* Celery workers and API requests that run jobs
  Admins,       \* requests that configure the integration
  MaxPushes,    \* bound: items that push jobs set out to push
  MaxEvents     \* bound: failed calls, crashes, and edits here or in the tool

ASSUME SyncAssumption ==
  /\ IsFiniteSet(Items) /\ IsFiniteSet(Configs)
  /\ Platforms \subseteq {"asana", "jira", "linear", "clickup"}
  /\ MaxPushes \in Nat /\ MaxEvents \in Nat

VARIABLES
  platform,     \* the platform of every config of the workspace
  item,         \* committed status of each item; "deleted" is no row
  config,       \* committed is_active of each config; "unborn" is no row
  refs,         \* item_integration_refs by id; NoRow is not committed or deleted
  external,     \* items of the tool in the order of their creation
  job,          \* what each syncer runs
  todo,         \* what its run has still to look at
  current,      \* the pair or ref it is working on, with what it has read
  writes,       \* refs it has flushed and not committed: id -> row
  dones,        \* items it has flushed as "Done" and not committed
  admin,        \* configure requests between their read and their commit
  closed,       \* history: items of which some copy was ever finished
  overlap,      \* history: pairs two pushes worked on at a time
  lost,         \* history: copies whose ref was rolled back or replaced
  pushes, events   \* counters, bounded by MaxPushes and MaxEvents

rows == <<item, config, refs>>
tool == <<external, closed>>
run == <<job, todo, current, writes, dones>>
history == <<overlap, lost>>
counters == <<pushes, events>>
vars == <<platform, item, config, refs, external, job, todo, current, writes,
          dones, admin, closed, overlap, lost, pushes, events>>

-----------------------------------------------------------------------------
(* Rows. *)

ItemStatuses == {"Open", "Done", "deleted"}
SyncStatuses == {"synced", "failed", "conflict"}
NoExternal == 0
Row == [item : Items, config : Configs, ext : Nat, sync : SyncStatuses]
NoRow == [item |-> "no row"]
NoWrites == [r \in {} |-> NoRow]
NoConfig == "no config"
Idle == [step |-> "idle"]

Active == {c \in Configs : config[c] = "active"}
RefsOf(i, c) == {r \in DOMAIN refs : refs[r] # NoRow /\ refs[r].item = i /\ refs[r].config = c}
Synced(R) == {r \in R : refs[r].sync = "synced"}

\* The ref as syncer s sees it.
Seen(s, r) == IF r \in DOMAIN writes[s] THEN writes[s][r] ELSE refs[r]

-----------------------------------------------------------------------------
(* The tools.  The state of an external item is the platform's own name    *)
(* for it, and "gone" once somebody deletes it there.                      *)

\* What push_item of each adapter creates: always a new external item.
AsanaTask(i) == [item |-> i, state |-> "incomplete"]
JiraIssue(i) == [item |-> i, state |-> "to do"]
LinearIssue(i) == [item |-> i, state |-> "backlog"]
ClickUpTask(i) == [item |-> i, state |-> "to do"]

Created(i) ==
  CASE platform = "asana" -> AsanaTask(i)
    [] platform = "jira" -> JiraIssue(i)
    [] platform = "linear" -> LinearIssue(i)
    [] OTHER -> ClickUpTask(i)

\* The states people may move an external item to.
States ==
  CASE platform = "asana" -> {"incomplete", "completed", "gone"}
    [] platform = "jira" -> {"to do", "done", "resolved", "gone"}
    [] platform = "linear" -> {"backlog", "done", "canceled", "gone"}
    [] OTHER -> {"to do", "complete", "gone"}

\* What get_item_status of each adapter answers.
NotFound == "not found"
AsanaStatus(state) ==
  CASE state = "gone" -> NotFound [] state = "completed" -> "done" [] OTHER -> "open"
JiraStatus(state) == IF state = "gone" THEN NotFound ELSE state
LinearStatus(state) == IF state = "gone" THEN NotFound ELSE state
ClickUpStatus(state) == IF state = "gone" THEN NotFound ELSE state

StatusName(state) ==
  CASE platform = "asana" -> AsanaStatus(state)
    [] platform = "jira" -> JiraStatus(state)
    [] platform = "linear" -> LinearStatus(state)
    [] OTHER -> ClickUpStatus(state)

\* The states that mean the work is done.
DoneStates == {"completed", "done", "complete"}

\* Bug: one of the names is forgotten.
FinishedButDone(name) == name \in {"complete", "completed", "closed"}

\* The comparison ignores case; names are written in lower case here.
Finished(name) == name \in {"done", "complete", "completed", "closed"}

-----------------------------------------------------------------------------
(* Locks.  An UPDATE waits for every other transaction that has written    *)
(* the row; a DELETE of an item waits for every transaction that refers to *)
(* it.                                                                     *)

WantsRef(s) ==
  IF current[s].step \in {"pushed", "refused", "fetched"} THEN {current[s].id} ELSE {}
WantsItem(s) == IF current[s].step = "finished" THEN {current[s].item} ELSE {}

Blocked(s, t) ==
  \/ WantsRef(s) \intersect DOMAIN writes[t] # {}
  \/ WantsItem(s) \intersect dones[t] # {}
Granted(s) == \A t \in Syncers \ {s} : ~Blocked(s, t)

\* Bug: a delete does not wait for refs that are inserted and not committed.
ReferredByDone(i) == \E s \in Syncers : i \in dones[s]
Referred(i) ==
  \E s \in Syncers : \/ i \in dones[s]
                     \/ \E r \in DOMAIN writes[s] : writes[s][r].item = i

-----------------------------------------------------------------------------
(* Ends of a run. *)

Stop(s) ==
  /\ job' = [job EXCEPT ![s] = "idle"]
  /\ todo' = [todo EXCEPT ![s] = {}]
  /\ current' = [current EXCEPT ![s] = Idle]
  /\ writes' = [writes EXCEPT ![s] = NoWrites]
  /\ dones' = [dones EXCEPT ![s] = {}]

\* External items that the run of s is the only one to know of.
Unsaved(s) ==
  LET known == {writes[s][r].ext : r \in DOMAIN writes[s]}
               \union (IF current[s].step = "pushed" THEN {current[s].ext} ELSE {})
      saved == {refs[r].ext : r \in {x \in DOMAIN refs : refs[x] # NoRow}}
  IN known \ (saved \union {NoExternal})

\* Bug: the session of a failed run stays open and keeps its locks.
LeaveOpen(s) ==
  /\ job' = [job EXCEPT ![s] = "idle"]
  /\ todo' = [todo EXCEPT ![s] = {}]
  /\ current' = [current EXCEPT ![s] = Idle]
  /\ lost' = lost \union Unsaved(s)
  /\ UNCHANGED <<writes, dones>>

\* An exception leaves the session without a commit; the task logs it and
\* returns, the request answers 500.
Rollback(s) == Stop(s) /\ lost' = lost \union Unsaved(s)

\* The one commit of a run.
Commit(s) ==
  /\ job[s] # "idle" /\ todo[s] = {} /\ current[s] = Idle
  /\ refs' = [r \in DOMAIN refs |-> Seen(s, r)]
  /\ item' = [i \in Items |-> IF i \in dones[s] THEN "Done" ELSE item[i]]
  /\ LET Replacing(r) == refs[r] # NoRow /\ writes[s][r].ext \notin {NoExternal, refs[r].ext}
     IN lost' = lost \union
          ({refs[r].ext : r \in {x \in DOMAIN writes[s] : Replacing(x)}} \ {NoExternal})
  /\ Stop(s)
  /\ UNCHANGED <<platform, config, tool, admin, overlap, counters>>

-----------------------------------------------------------------------------
(* Pushes: sync_item and the task of one item, and the bulk task. *)

\* The bound leaves out pairs at which the run will raise.
StartPush(s, kind, pairs) ==
  /\ job[s] = "idle" /\ pairs # {}
  /\ job' = [job EXCEPT ![s] = kind]
  /\ todo' = [todo EXCEPT ![s] = pairs]
  /\ pushes' = pushes + Cardinality({x \in pairs : Cardinality(RefsOf(x[1], x[2])) <= 1})
  /\ pushes' <= MaxPushes
  /\ UNCHANGED <<platform, rows, tool, current, writes, dones, admin, history, events>>

\* POST /integrations/sync/{item_id}, and the task of the same name.
SyncItem(s, i) ==
  /\ item[i] # "deleted"
  /\ StartPush(s, "one", {i} \X Active)

\* POST /integrations/sync/bulk enqueues the task that starts here.
SyncAllItems(s) ==
  StartPush(s, "all", {i \in Items : item[i] = "Open"} \X Active)

Pushing(t, i, c) ==
  \/ /\ current[t].step \in {"push", "pushed", "refused"}
     /\ current[t].item = i /\ current[t].config = c
  \/ /\ job[t] \in {"one", "all"}
     /\ \E r \in DOMAIN writes[t] : writes[t][r].item = i /\ writes[t][r].config = c

Skip(s, x) ==
  /\ todo' = [todo EXCEPT ![s] = @ \ {x}]
  /\ UNCHANGED <<platform, rows, tool, job, current, writes, dones, admin, history, pushes>>

\* The bulk task leaves out an item with a synced ref.
AlreadySynced(s, R) == job[s] = "all" /\ Cardinality(Synced(R)) = 1

\* scalar_one_or_none raises when a look-up finds two rows.
Ambiguous(s, R) == Cardinality(R) > 1 /\ ~AlreadySynced(s, R)

\* Bug: a ref of a push that failed is not found.
ExistingSynced(i, c) == Synced(RefsOf(i, c))
Existing(i, c) == RefsOf(i, c)

\* The look-up of the existing ref, before the call to the tool.
FindRef(s) ==
  \E x \in todo[s] : LET i == x[1] c == x[2] R == Existing(i, c) IN
    /\ job[s] \in {"one", "all"} /\ current[s] = Idle
    /\ ~AlreadySynced(s, R) /\ ~Ambiguous(s, R)
    /\ todo' = [todo EXCEPT ![s] = @ \ {x}]
    /\ current' = [current EXCEPT ![s] =
         [step |-> "push", item |-> i, config |-> c,
          id |-> IF R = {} THEN 0 ELSE CHOOSE r \in R : TRUE]]
    /\ overlap' = overlap \union
         {p \in {x} : \E t \in Syncers \ {s} : Pushing(t, i, c)}
    /\ UNCHANGED <<platform, rows, tool, job, writes, dones, admin, lost, counters>>

SkipSynced(s) ==
  \E x \in todo[s] :
    /\ job[s] = "all" /\ current[s] = Idle
    /\ AlreadySynced(s, RefsOf(x[1], x[2]))
    /\ Skip(s, x) /\ UNCHANGED events

FindTwoRefs(s) ==
  \E x \in todo[s] :
    /\ job[s] \in {"one", "all"} /\ current[s] = Idle
    /\ Ambiguous(s, RefsOf(x[1], x[2]))
    /\ Rollback(s)
    /\ UNCHANGED <<platform, rows, tool, admin, overlap, counters>>

\* decrypt_credentials fails, or what a pull asks of the tool does.
SkipFailing(s) ==
  \E x \in todo[s] :
    /\ current[s] = Idle /\ events < MaxEvents
    /\ events' = events + 1
    /\ Skip(s, x)

PushItem(s) ==
  /\ current[s].step = "push"
  /\ external' = Append(external, Created(current[s].item))
  /\ current' = [current EXCEPT ![s] =
       [step |-> "pushed", item |-> @.item, config |-> @.config, id |-> @.id,
        ext |-> Len(external) + 1]]
  /\ UNCHANGED <<platform, rows, job, todo, writes, dones, admin, closed, history, counters>>

\* Bug: a call that failed is recorded like one that succeeded.
FailureTakenForPush(s) ==
  /\ current[s].step = "push" /\ events < MaxEvents
  /\ events' = events + 1
  /\ current' = [current EXCEPT ![s] =
       [step |-> "pushed", item |-> @.item, config |-> @.config, id |-> @.id,
        ext |-> Len(external) + 1]]
  /\ UNCHANGED <<platform, rows, tool, job, todo, writes, dones, admin, history, pushes>>

PushFails(s) ==
  /\ current[s].step = "push" /\ events < MaxEvents
  /\ events' = events + 1
  /\ current' = [current EXCEPT ![s] = [@ EXCEPT !.step = "refused"]]
  /\ UNCHANGED <<platform, rows, tool, job, todo, writes, dones, admin, history, pushes>>

\* Bug: a failure clears the id of the external item.
FailedBlank(s, w) == [w EXCEPT !.sync = "failed", !.ext = NoExternal]

Failed(s, w) == [w EXCEPT !.sync = "failed"]

Flush(s, r, row, next) ==
  /\ writes' = [writes EXCEPT ![s] = [x \in DOMAIN @ \union {r} |-> IF x = r THEN row ELSE @[x]]]
  /\ current' = [current EXCEPT ![s] = next]
  /\ UNCHANGED <<platform, item, config, tool, job, todo, dones, admin, history, counters>>

\* No ref was found: INSERT, which needs the item to exist.
InsertRef(s) ==
  /\ current[s].step \in {"pushed", "refused"} /\ current[s].id = 0
  /\ item[current[s].item] # "deleted"
  /\ refs' = Append(refs, NoRow)
  /\ LET cur == current[s] IN
       Flush(s, Len(refs) + 1,
             IF cur.step = "pushed"
             THEN [item |-> cur.item, config |-> cur.config, ext |-> cur.ext, sync |-> "synced"]
             ELSE [item |-> cur.item, config |-> cur.config, ext |-> NoExternal, sync |-> "failed"],
             Idle)

\* A ref was found: UPDATE of the row it has by now.
UpdateRef(s) ==
  LET cur == current[s] IN
  /\ cur.step \in {"pushed", "refused"} /\ cur.id # 0
  /\ Granted(s) /\ refs[cur.id] # NoRow
  /\ Flush(s, cur.id,
           IF cur.step = "pushed" THEN [Seen(s, cur.id) EXCEPT !.ext = cur.ext, !.sync = "synced"]
                                  ELSE Failed(s, Seen(s, cur.id)),
           Idle)
  /\ UNCHANGED refs

\* The item of the new ref, or the ref to update, was deleted meanwhile.
RowGone(s) ==
  LET cur == current[s] IN
  /\ cur.step \in {"pushed", "refused", "fetched"}
  /\ \/ cur.id = 0 /\ item[cur.item] = "deleted"
     \/ cur.id # 0 /\ refs[cur.id] = NoRow
  /\ Rollback(s)
  /\ UNCHANGED <<platform, rows, tool, admin, overlap, counters>>

-----------------------------------------------------------------------------
(* The pull.  Beat sends one every 15 minutes; that one takes longer, so   *)
(* that the next begins beside it, counts as a fault.                      *)

PullStatusUpdates(s) ==
  /\ job[s] = "idle"
  /\ LET R == Synced({x \in DOMAIN refs : refs[x] # NoRow}) IN
       /\ R # {}
       /\ todo' = [todo EXCEPT ![s] = {<<r, refs[r].ext, refs[r].item, refs[r].config>> : r \in R}]
  /\ job' = [job EXCEPT ![s] = "pull"]
  /\ IF \E t \in Syncers : job[t] = "pull"
     THEN events < MaxEvents /\ events' = events + 1
     ELSE UNCHANGED events
  /\ UNCHANGED <<platform, rows, tool, current, writes, dones, admin, history, pushes>>

\* A ref whose integration was deactivated is passed over.
SkipInactive(s) ==
  \E x \in todo[s] :
    /\ job[s] = "pull" /\ current[s] = Idle /\ config[x[4]] # "active"
    /\ Skip(s, x) /\ UNCHANGED events

FetchStatus(s) ==
  \E x \in todo[s] :
    /\ job[s] = "pull" /\ current[s] = Idle /\ config[x[4]] = "active"
    /\ todo' = [todo EXCEPT ![s] = @ \ {x}]
    /\ current' = [current EXCEPT ![s] =
         [step |-> "fetched", id |-> x[1], item |-> x[3], config |-> x[4],
          status |-> StatusName(external[x[2]].state)]]
    /\ UNCHANGED <<platform, rows, tool, job, writes, dones, admin, history, counters>>

\* last_synced_at is written for every ref, so its row is locked until the
\* commit; a copy that is not found makes a conflict, a finished one an item
\* that is done.
ApplyStatus(s) ==
  LET cur == current[s] IN
  /\ cur.step = "fetched" /\ Granted(s) /\ refs[cur.id] # NoRow
  /\ Flush(s, cur.id,
           IF cur.status = NotFound THEN [Seen(s, cur.id) EXCEPT !.sync = "conflict"]
                                    ELSE Seen(s, cur.id),
           IF Finished(cur.status) /\ item[cur.item] = "Open" /\ cur.item \notin dones[s]
           THEN [step |-> "finished", item |-> cur.item] ELSE Idle)
  /\ UNCHANGED refs

MarkDone(s) ==
  /\ current[s].step = "finished" /\ Granted(s)
  /\ dones' = [dones EXCEPT ![s] = @ \union {current[s].item}]
  /\ current' = [current EXCEPT ![s] = Idle]
  /\ UNCHANGED <<platform, rows, tool, job, todo, writes, admin, history, counters>>

-----------------------------------------------------------------------------
(* Crashes and deadlocks. *)

\* The process dies; Celery delivers the message again (acks_late).
Crash(s) ==
  /\ job[s] # "idle" /\ events < MaxEvents
  /\ events' = events + 1
  /\ Rollback(s)
  /\ UNCHANGED <<platform, rows, tool, admin, overlap, pushes>>

\* PostgreSQL ends one of two transactions that wait for each other.
DeadlockVictim(s) ==
  /\ \E t \in Syncers \ {s} : Blocked(s, t) /\ Blocked(t, s)
  /\ Rollback(s)
  /\ UNCHANGED <<platform, rows, tool, admin, overlap, counters>>

-----------------------------------------------------------------------------
(* Configs.  A look-up that finds two active ones raises. *)

ConfigureLoad(a) ==
  /\ admin[a] = "idle" /\ Cardinality(Active) <= 1 /\ events < MaxEvents
  /\ events' = events + 1
  /\ \E c \in Configs : config[c] = "unborn"
  /\ admin' = [admin EXCEPT ![a] = IF Active = {} THEN NoConfig ELSE CHOOSE c \in Active : TRUE]
  /\ UNCHANGED <<platform, rows, tool, run, history, pushes>>

Replaced(a, c, new) ==
  IF c = new THEN "active" ELSE IF c = admin[a] THEN "inactive" ELSE config[c]

ConfigureCommit(a) ==
  /\ admin[a] # "idle"
  /\ \E new \in Configs :
       /\ config[new] = "unborn"
       /\ config' = [c \in Configs |-> Replaced(a, c, new)]
  /\ admin' = [admin EXCEPT ![a] = "idle"]
  /\ UNCHANGED <<platform, item, refs, tool, run, history, counters>>

Deactivate(c) ==
  /\ Active = {c} /\ events < MaxEvents
  /\ config' = [config EXCEPT ![c] = "inactive"]
  /\ events' = events + 1
  /\ UNCHANGED <<platform, item, refs, tool, run, admin, history, pushes>>

-----------------------------------------------------------------------------
(* Users, here and in the tool. *)

UpdateItem(i, st) ==
  /\ events < MaxEvents /\ item[i] \notin {"deleted", st}
  /\ \A s \in Syncers : i \notin dones[s]
  /\ item' = [item EXCEPT ![i] = st]
  /\ events' = events + 1
  /\ UNCHANGED <<platform, config, refs, tool, run, admin, history, pushes>>

\* The refs go with their item.
DeleteItem(i) ==
  /\ events < MaxEvents /\ item[i] # "deleted" /\ ~Referred(i)
  /\ item' = [item EXCEPT ![i] = "deleted"]
  /\ refs' = [r \in DOMAIN refs |-> IF refs[r] # NoRow /\ refs[r].item = i THEN NoRow ELSE refs[r]]
  /\ events' = events + 1
  /\ UNCHANGED <<platform, config, tool, run, admin, history, pushes>>

EditExternal(e, state) ==
  /\ events < MaxEvents /\ external[e].state \notin {"gone", state}
  /\ external' = [external EXCEPT ![e].state = state]
  /\ closed' = IF state \in DoneStates THEN closed \union {external[e].item} ELSE closed
  /\ events' = events + 1
  /\ UNCHANGED <<platform, rows, run, admin, history, pushes>>

-----------------------------------------------------------------------------
Init ==
  /\ platform \in Platforms
  /\ item = [i \in Items |-> "Open"]
  /\ config = [c \in Configs |-> IF c = CHOOSE d \in Configs : TRUE THEN "active" ELSE "unborn"]
  /\ refs = << >> /\ external = << >>
  /\ job = [s \in Syncers |-> "idle"]
  /\ todo = [s \in Syncers |-> {}]
  /\ current = [s \in Syncers |-> Idle]
  /\ writes = [s \in Syncers |-> NoWrites]
  /\ dones = [s \in Syncers |-> {}]
  /\ admin = [a \in Admins |-> "idle"]
  /\ closed = {} /\ overlap = {} /\ lost = {}
  /\ pushes = 0 /\ events = 0

Push(s) ==
  \/ FindRef(s) \/ SkipSynced(s) \/ FindTwoRefs(s)
  \/ PushItem(s) \/ InsertRef(s) \/ UpdateRef(s)
Pull(s) == SkipInactive(s) \/ FetchStatus(s) \/ ApplyStatus(s) \/ MarkDone(s)
End(s) == Commit(s) \/ RowGone(s) \/ DeadlockVictim(s)
Fault(s) == SkipFailing(s) \/ PushFails(s) \/ Crash(s)
Start(s) == SyncAllItems(s) \/ \E i \in Items : SyncItem(s, i)
Configure(a) == ConfigureLoad(a) \/ ConfigureCommit(a)
Users ==
  \/ \E i \in Items : DeleteItem(i) \/ \E st \in {"Open", "Done"} : UpdateItem(i, st)
  \/ \E e \in DOMAIN external : \E state \in States : EditExternal(e, state)
  \/ \E c \in Configs : Deactivate(c)

Next ==
  \/ \E s \in Syncers : Push(s) \/ Pull(s) \/ End(s) \/ Fault(s) \/ Start(s)
                          \/ PullStatusUpdates(s)
  \/ \E a \in Admins : Configure(a)
  \/ Users

Spec == Init /\ [][Next]_vars

\* An event loop resumes every run whose await is done, PostgreSQL grants a
\* lock to those that wait for it, beat sends pulls for ever, and a worker
\* that becomes free takes them from the queue.
Fairness ==
  /\ \A s \in Syncers : SF_vars(Push(s) \/ Pull(s) \/ End(s))
  /\ \A a \in Admins : WF_vars(ConfigureCommit(a))
  /\ SF_vars(\E s \in Syncers : PullStatusUpdates(s))

FairSpec == Spec /\ Fairness

-----------------------------------------------------------------------------
(* Properties. *)

StateNames ==
  {"incomplete", "completed", "to do", "done", "resolved", "backlog", "canceled", "complete", "gone"}

TypeOK ==
  /\ platform \in Platforms
  /\ item \in [Items -> ItemStatuses]
  /\ config \in [Configs -> {"unborn", "active", "inactive"}]
  /\ refs \in Seq(Row \union {NoRow})
  /\ external \in Seq([item : Items, state : StateNames])
  /\ job \in [Syncers -> {"idle", "one", "all", "pull"}]
  /\ \A s \in Syncers :
       /\ DOMAIN writes[s] \subseteq DOMAIN refs
       /\ \A r \in DOMAIN writes[s] : writes[s][r] \in Row
       /\ dones[s] \subseteq Items
  /\ admin \in [Admins -> {"idle", NoConfig} \union Configs]
  /\ pushes \in 0 .. MaxPushes /\ events \in 0 .. MaxEvents

\* The copy that a ref names exists and is a copy of the ref's own item: a
\* push records the ref after the tool has created the copy, so neither a
\* crash nor a rollback can leave a ref to nothing.
NamesItsCopy(row) ==
  row.ext # NoExternal => row.ext \in DOMAIN external /\ external[row.ext].item = row.item
RefsNameTheirCopies ==
  /\ \A r \in DOMAIN refs : refs[r] # NoRow => NamesItsCopy(refs[r])
  /\ \A s \in Syncers : \A r \in DOMAIN writes[s] : NamesItsCopy(writes[s][r])

\* No ref outlives its item, whichever way a deletion meets a push under way.
RefsHaveItems == \A r \in DOMAIN refs : refs[r] # NoRow => item[refs[r].item] # "deleted"

\* A second ref of an item and an integration can only come from two pushes
\* that overlapped: retries, crashes, failures and pulls never make one.
SecondRefNeedsOverlap ==
  \A i \in Items, c \in Configs : Cardinality(RefsOf(i, c)) > 1 => <<i, c>> \in overlap

\* Some ref names the copy; a run in progress does.
Named(e) == \E r \in DOMAIN refs : refs[r] # NoRow /\ refs[r].ext = e
Held(s, e) ==
  \/ \E r \in DOMAIN writes[s] : writes[s][r].ext = e
  \/ current[s].step = "pushed" /\ current[s].ext = e
Known(e) ==
  \/ e \in lost \/ item[external[e].item] = "deleted"
  \/ Named(e) \/ \E s \in Syncers : Held(s, e)

\* Every copy in the tool is named by a ref, or about to be, unless its push
\* was rolled back, a later push replaced it, or its item is deleted.
CopiesAreKnown == \A e \in DOMAIN external : Known(e)

\* An item becomes "Done" by a user, or by a pull after a copy of this very
\* item was finished in the tool.
DoneFollowsTool ==
  [][\A i \in Items : item[i] = "Open" /\ item'[i] = "Done" =>
       UpdateItem(i, "Done") \/ i \in closed]_vars

\* Every run ends: a wait for a lock, a deadlock included, does not last.
SyncsEnd == \A s \in Syncers : job[s] # "idle" ~> job[s] = "idle"

\* An item whose copy is finished does not stay open: whatever fails, a later
\* pull makes it "Done", as long as the copy stays finished and referred to.
Behind(i) ==
  /\ item[i] = "Open"
  /\ \E r \in DOMAIN refs :
       /\ refs[r] # NoRow /\ refs[r].item = i /\ refs[r].sync = "synced"
       /\ config[refs[r].config] = "active"
       /\ external[refs[r].ext].state \in DoneStates
PullCatchesUp == \A i \in Items : []<>~Behind(i)
=============================================================================
