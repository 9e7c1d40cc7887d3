--------------------------- MODULE Notifications ---------------------------
(***************************************************************************)
(* Rules of a workspace, and the scheduled tasks that remind users of      *)
(* action items that are due soon, overdue or open (the digest).           *)
(*                                                                         *)
(* A task reads the rules, then the items, then sends a message for each   *)
(* recipient and rule; every attempt adds a row to the log, in one         *)
(* transaction that is committed after the last message.  A task that      *)
(* fails is over; one whose worker dies before the task is acknowledged is *)
(* delivered again, even if its transaction was committed.                 *)
(***************************************************************************)
EXTENDS Integers, FiniteSets

CONSTANTS
  Users, Items, Rules,
  Members,      \* users of the workspace; an owner need not be one
  Doubled,      \* members with two rows (see SecondRowNeedsOverlap in Accounts)
  Transport,    \* of e-mail: "sendgrid", "smtp" or "none"
  RuleTypes,    \* types and channels of rules that are made
  Channels,
  MaxEvents     \* bound: edits by users, failures and crashes

Kinds == {"due_soon", "overdue", "digest"}
Configs == {"none", "first", "second"}

ASSUME NotificationAssumption ==
  /\ Doubled \subseteq Members /\ Members \subseteq Users
  /\ "admin" \notin Users    \* stands for the one who asks for a message
  /\ Transport \in {"sendgrid", "smtp", "none"}
  /\ RuleTypes \subseteq Kinds \union {"assignment", "sharing_summary"}
  /\ Channels \subseteq {"email", "slack", "teams"}
  /\ MaxEvents \in Nat

VARIABLES
  rule,        \* notification_rules, or NoRule
  item,        \* action_items of the workspace
  active,      \* users with is_active
  queue,       \* tasks of today not yet acknowledged
  job,         \* the run of a task
  logged,      \* notification_logs of today: <<user, rule>> of scheduled messages
  delivered,   \* history: <<user, rule>> of messages that arrived today
  again,       \* history: those that arrived more than once
  lost,        \* history: <<user, rule>> whose rows were rolled back
  unacked,     \* history: those stored by a task that was lost before its acknowledgement
  events       \* counter, bounded by MaxEvents

vars == <<rule, item, active, queue, job, logged, delivered, again, lost, unacked, events>>
history == <<logged, delivered, again, lost, unacked>>

\* The workspace starts with a rule.
FirstRule == [type |-> "overdue", channel |-> "slack", active |-> TRUE, config |-> "first"]
NoRule == [type |-> "none", channel |-> "none", active |-> FALSE, config |-> "none"]
Idle == [step |-> "idle"]
Event == events < MaxEvents /\ events' = events + 1

-----------------------------------------------------------------------------
(* Which items a task is about. *)

Open(i) == item[i].status # "Done"

\* Bug: items due today or later count as overdue.
OverdueSwapped(i) == item[i].due = "soon" /\ Open(i)

DueSoon(i) == item[i].due = "soon" /\ Open(i)
Overdue(i) == item[i].due = "overdue" /\ Open(i)

Selected(kind, i) ==
  CASE kind = "due_soon" -> DueSoon(i)
    [] kind = "overdue" -> Overdue(i)
    [] kind = "digest" -> Open(i)

\* Items grouped by owner; an item without one is in no group.
OwnerItems(kind) == [u \in Users |-> {i \in Items : item[i].owner = u /\ Selected(kind, i)}]

ActiveRules(kind) == {r \in Rules : rule[r].type = kind /\ rule[r].active}

-----------------------------------------------------------------------------
(* Providers: what comes of sending, [arrives, status].  A time-out leaves *)
(* open whether the message arrived.                                       *)

Failed == {[arrives |-> FALSE, status |-> "failed"]}
TimedOut == {[arrives |-> TRUE, status |-> "failed"]}
Accepted == {[arrives |-> TRUE, status |-> "sent"]}

SendViaSendgrid == Accepted \union Failed \union TimedOut
SendViaSmtp == Accepted \union Failed \union TimedOut
SendEmail ==
  CASE Transport = "sendgrid" -> SendViaSendgrid
    [] Transport = "smtp" -> SendViaSmtp
    [] OTHER -> Failed
SlackWebhook == Accepted \union Failed \union TimedOut
TeamsWebhook == Accepted \union Failed \union TimedOut
Send(channel) ==
  CASE channel = "email" -> SendEmail
    [] channel = "slack" -> SlackWebhook
    [] channel = "teams" -> TeamsWebhook

\* The bodies and payloads carry a line for each item.
Reminder(u) == job.items[u]

\* Bug: the digest lists items that are done as well.
DigestOfAll(u) == {i \in Items : item[i].owner = u}

Digest(u) == {i \in Items : item[i].owner = u /\ Open(i)}
Content(u) == IF job.kind = "digest" THEN Digest(u) ELSE Reminder(u)

-----------------------------------------------------------------------------
(* The tasks. *)

Receive(kind) ==
  /\ job = Idle /\ kind \in queue
  /\ job' = [step |-> "items", kind |-> kind, rules |-> {<<r, rule[r].channel>> : r \in ActiveRules(kind)}]
  /\ UNCHANGED <<rule, item, active, queue, history, events>>

MemberRows == (Members \X {1}) \union (Doubled \X {2})

\* Owners with items to be reminded of, or the rows of members for the digest.
ReadItems ==
  /\ job.step = "items"
  /\ LET items == OwnerItems(job.kind)
         recipients == IF job.rules = {} THEN {}
                       ELSE IF job.kind = "digest" THEN MemberRows
                       ELSE {u \in Users : items[u] # {}} \X {1} IN
     job' = [step |-> "users", kind |-> job.kind, rules |-> job.rules, items |-> items,
             todo |-> recipients, rows |-> {}, changed |-> {}]
  /\ UNCHANGED <<rule, item, active, queue, history, events>>

SkipUser(u, n) ==
  /\ job.step = "users" /\ <<u, n>> \in job.todo
  /\ u \notin active \/ Content(u) = {}
  /\ job' = [job EXCEPT !.todo = @ \ {<<u, n>>}]
  /\ UNCHANGED <<rule, item, active, queue, history, events>>

\* The digest reads the items again here.
LoadUser(u, n) ==
  /\ job.step = "users" /\ <<u, n>> \in job.todo
  /\ u \in active /\ Content(u) # {}
  /\ job' = [step |-> "send", kind |-> job.kind, rules |-> job.rules,
             items |-> [job.items EXCEPT ![u] = Content(u)], todo |-> job.todo \ {<<u, n>>},
             rows |-> job.rows, changed |-> IF job.kind = "digest" THEN {} ELSE job.changed,
             user |-> u, rest |-> job.rules]
  /\ UNCHANGED <<rule, item, active, queue, history, events>>

Arrival(key, arrives) ==
  /\ delivered' = IF arrives THEN delivered \union {key} ELSE delivered
  /\ again' = IF arrives /\ key \in delivered THEN again \union {key} ELSE again

\* Attempts of a kind other than success count as events.
SendForRule(r) ==
  /\ job.step = "send" /\ r \in job.rest
  /\ \E result \in Send(r[2]) :
       /\ IF result \in Accepted \/ Send(r[2]) = Failed THEN UNCHANGED events ELSE Event
       /\ Arrival(<<job.user, r[1]>>, result.arrives)
       /\ job' = [job EXCEPT !.rest = @ \ {r}, !.rows = @ \union {<<job.user, r[1]>>}]
  /\ UNCHANGED <<rule, item, active, queue, logged, lost, unacked>>

NextUser ==
  /\ job.step = "send" /\ job.rest = {}
  /\ job' = [step |-> "users", kind |-> job.kind, rules |-> job.rules, items |-> job.items,
             todo |-> job.todo, rows |-> job.rows, changed |-> job.changed]
  /\ UNCHANGED <<rule, item, active, queue, history, events>>

\* Bug: the session is closed without a commit.
NotStored == logged

Stored == logged \union job.rows

\* The run has ended, and its task is to be acknowledged.
Over(stored) == [step |-> "over", kind |-> job.kind, rules |-> job.rules, rows |-> stored]

Commit ==
  /\ job.step = "users" /\ job.todo = {}
  /\ logged' = Stored
  /\ job' = Over(job.rows)
  /\ UNCHANGED <<rule, item, active, queue, delivered, again, lost, unacked, events>>

\* Bug: the task is not acknowledged at its end.
KeepQueued(k) == queue

Acknowledged(k) == queue \ {k}

\* Late: a task is acknowledged when it is over, also if it failed.
Acknowledge ==
  /\ job.step = "over"
  /\ queue' = Acknowledged(job.kind)
  /\ job' = Idle
  /\ UNCHANGED <<rule, item, active, history, events>>

\* The message is out, its row cannot be stored, and the session is of no
\* more use: the task ends without a commit.
FlushFails(r) ==
  /\ job.step = "send" /\ r \in job.rest /\ Event
  /\ Arrival(<<job.user, r[1]>>, TRUE)
  /\ lost' = lost \union job.rows \union {<<job.user, r[1]>>}
  /\ job' = Over({})
  /\ UNCHANGED <<rule, item, active, queue, logged, unacked>>

Rows == IF job.step \in {"users", "send"} THEN job.rows ELSE {}

\* A query or the commit fails.
TaskFails ==
  /\ job.step \in {"items", "users"} /\ Event
  /\ lost' = lost \union Rows
  /\ job' = Over({})
  /\ UNCHANGED <<rule, item, active, queue, logged, delivered, again, unacked>>

\* The task is not acknowledged and will be delivered again, whether or not
\* its transaction was committed.
Crash ==
  /\ job # Idle /\ Event
  /\ lost' = lost \union Rows
  /\ unacked' = IF job.step = "over" THEN unacked \union job.rows ELSE unacked
  /\ job' = Idle
  /\ UNCHANGED <<rule, item, active, queue, logged, delivered, again>>

-----------------------------------------------------------------------------
(* The API. *)

\* Ids are not used again: not on a day that knows another rule by it.
Fresh(r) ==
  /\ rule[r] = NoRule
  /\ \A x \in delivered \union logged \union lost : x[2] # r
  /\ job # Idle => \A x \in job.rules : x[1] # r

CreateRule(r) ==
  /\ Fresh(r) /\ Event
  /\ \E t \in RuleTypes, c \in Channels, cfg \in {"none", "first"} :
       /\ c \in {"slack", "teams"} => cfg # "none"
       /\ rule' = [rule EXCEPT ![r] = [type |-> t, channel |-> c, active |-> TRUE, config |-> cfg]]
  /\ UNCHANGED <<item, active, queue, job, history>>

ToggleRule(r) ==
  /\ rule[r] # NoRule /\ Event
  /\ rule' = [rule EXCEPT ![r].active = ~@]
  /\ UNCHANGED <<item, active, queue, job, history>>

\* The new keys are merged into the dictionary that was loaded, so that the
\* session sees no change and writes none; without one they are stored.
Merged(old, new) == IF old = "none" THEN new ELSE old

PatchConfig(r, config) ==
  /\ rule[r] # NoRule /\ config # "none" /\ Event
  /\ rule' = [rule EXCEPT ![r].config = Merged(@, config)]
  /\ UNCHANGED <<item, active, queue, job, history>>

\* A test message, or one with the items of today, to the administrator who
\* asks for it or to the webhook.  The row is stored by the commit that ends
\* the request, if that succeeds.
SendNow(r) ==
  /\ rule[r] # NoRule /\ Event
  /\ \E result \in Send(rule[r].channel), stored \in BOOLEAN :
       /\ delivered' = IF result.arrives THEN delivered \union {<<"admin", r>>} ELSE delivered
       /\ logged' = IF stored THEN logged \union {<<"admin", r>>} ELSE logged
       /\ lost' = IF stored THEN lost ELSE lost \union {<<"admin", r>>}
  /\ UNCHANGED <<rule, item, active, queue, job, again, unacked>>

TestRule(r) == SendNow(r)
RunRule(r) == SendNow(r)

DeleteRule(r) ==
  /\ rule[r] # NoRule /\ Event
  /\ rule' = [rule EXCEPT ![r] = NoRule]
  /\ UNCHANGED <<item, active, queue, job, history>>

\* Edits of items and users elsewhere.
Touched(i) == IF job.step \in {"users", "send"} THEN [job EXCEPT !.changed = @ \union {i}] ELSE job

EditItem(i) ==
  /\ Event
  /\ \/ \E s \in {"Open", "Done"} : item' = [item EXCEPT ![i].status = s]
     \/ \E o \in Users : item' = [item EXCEPT ![i].owner = o]
  /\ job' = Touched(i)
  /\ UNCHANGED <<rule, active, queue, history>>

SetActive(u) ==
  /\ Event
  /\ active' = IF u \in active THEN active \ {u} ELSE active \union {u}
  /\ UNCHANGED <<rule, item, queue, job, history>>

Later(due) == IF due = "later" THEN "soon" ELSE IF due = "soon" THEN "overdue" ELSE due

\* The tasks of a day end before the next day; items in late may become due.
NewDay ==
  /\ job = Idle /\ queue = {}
  /\ \E late \in SUBSET Items :
       item' = [i \in Items |-> IF i \in late THEN [item[i] EXCEPT !.due = Later(@)] ELSE item[i]]
  /\ queue' \in {Kinds, Kinds \ {"digest"}}
  /\ logged' = {} /\ delivered' = {} /\ again' = {} /\ lost' = {} /\ unacked' = {}
  /\ UNCHANGED <<rule, active, job, events>>

-----------------------------------------------------------------------------
Init ==
  /\ LET first == CHOOSE r \in Rules : TRUE IN
       rule = [r \in Rules |-> IF r = first THEN FirstRule ELSE NoRule]
  /\ item \in [Items -> [owner : Users, due : {"soon"}, status : {"Open"}]]
  /\ active = Users
  /\ queue = {} /\ job = Idle
  /\ logged = {} /\ delivered = {} /\ again = {} /\ lost = {} /\ unacked = {} /\ events = 0

Work ==
  \/ \E k \in Kinds : Receive(k)
  \/ ReadItems \/ NextUser \/ Commit \/ Acknowledge
  \/ \E u \in Users, n \in {1, 2} : SkipUser(u, n) \/ LoadUser(u, n)
  \/ job.step = "send" /\ \E r \in job.rest : SendForRule(r)

Faults ==
  \/ TaskFails \/ Crash
  \/ job.step = "send" /\ \E r \in job.rest : FlushFails(r)

Edits ==
  \/ \E r \in Rules :
       \/ CreateRule(r) \/ ToggleRule(r) \/ DeleteRule(r) \/ TestRule(r) \/ RunRule(r)
       \/ \E c \in Configs : PatchConfig(r, c)
  \/ \E i \in Items : EditItem(i)
  \/ \E u \in Users : SetActive(u)

Next == Work \/ Faults \/ Edits \/ NewDay

Spec == Init /\ [][Next]_vars

\* A worker goes on with the tasks that beat enqueues, and days pass.
FairSpec == Spec /\ WF_vars(Work) /\ WF_vars(NewDay)

-----------------------------------------------------------------------------
(* Properties. *)

TypeOK ==
  /\ rule \in [Rules -> [type : RuleTypes \union {"overdue", "none"}, channel : Channels \union {"slack", "none"},
                         active : BOOLEAN, config : Configs]]
  /\ item \in [Items -> [owner : Users, due : {"none", "later", "soon", "overdue"}, status : {"Open", "Done"}]]
  /\ active \subseteq Users /\ queue \subseteq Kinds
  /\ job.step \in {"idle", "items", "users", "send", "over"}
  /\ logged \union delivered \union again \union lost \union unacked \subseteq (Users \union {"admin"}) \X Rules
  /\ events \in 0 .. MaxEvents

\* A reminder that arrived is in the log, will be when the task commits, or
\* its row was rolled back after it was sent.
ArrivalsAreLogged == delivered \subseteq logged \union lost \union Rows

\* Nobody gets the message of a rule twice on a day, unless the row of the
\* first was lost with its task, the worker was lost between the commit of
\* that row and the acknowledgement, or it is the digest of a member with
\* two rows.
SecondNeedsLoss ==
  \A x \in again \ (lost \union unacked) :
    x[1] \in Doubled /\ rule[x[2]].type \in {"digest", "none"}

\* A message names an item that is done or has another owner only when the
\* item was changed after the task had read it.
RemindersAreCurrent ==
  [][job.step = "send" /\ job' # job /\ delivered' # delivered =>
       \A i \in job.items[job.user] \ job.changed : item[i].owner = job.user /\ Open(i)]_vars

\* An active user with an overdue item and a rule for that which stay so is
\* reminded again and again: a failure on one day is made up for on another.
Nagged(u, r) ==
  /\ rule[r].type = "overdue" /\ rule[r].active /\ u \in active
  /\ \E i \in Items : item[i].owner = u /\ item[i].due = "overdue" /\ Open(i)
OverdueIsReminded ==
  \A u \in Users, r \in Rules : []<>(~Nagged(u, r) \/ <<u, r>> \in logged)
=============================================================================
