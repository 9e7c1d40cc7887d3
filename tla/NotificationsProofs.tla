------------------------ MODULE NotificationsProofs ------------------------
(***************************************************************************)
(* Theorems about Notifications, for any users, items, rules, providers    *)
(* and numbers of failures.                                                *)
(***************************************************************************)
EXTENDS Notifications, TLAPS

ReadRules == Rules \X (Channels \union {"slack", "none"})

(* The forms a run takes on its way: it has read the rules, then the items *)
(* too, is then between two recipients or at one of them, and is over.     *)
Reading == [step : {"items"}, kind : Kinds, rules : SUBSET ReadRules]
Between == [step : {"users"}, kind : Kinds, rules : SUBSET ReadRules,
            items : [Users -> SUBSET Items], todo : SUBSET (Users \X {1, 2}),
            rows : SUBSET (Users \X Rules), changed : SUBSET Items]
Sending == [step : {"send"}, kind : Kinds, rules : SUBSET ReadRules,
            items : [Users -> SUBSET Items], todo : SUBSET (Users \X {1, 2}),
            rows : SUBSET (Users \X Rules), changed : SUBSET Items,
            user : Users, rest : SUBSET ReadRules]
Ended == [step : {"over"}, kind : Kinds, rules : SUBSET ReadRules,
          rows : SUBSET (Users \X Rules)]
JobOK == job = Idle \/ job \in Reading \union Between \union Sending \union Ended

(* What a run holds: each rule once, of its own kind unless deleted, and   *)
(* until it is over none for which anybody's message of today is in the    *)
(* log, but those of a task that was lost before its acknowledgement.      *)
RulesOfJob ==
  job # Idle =>
    /\ \A s, t \in job.rules : s[1] = t[1] => s = t
    /\ \A s \in job.rules : rule[s[1]] = NoRule \/ rule[s[1]].type = job.kind
    /\ job.step # "over" =>
         \A s \in job.rules, u \in Users : <<u, s[1]>> \notin logged \ unacked

(* A rule with a scheduled message in the log of today belongs to a task   *)
(* that is over for today, about to be acknowledged, or delivered again    *)
(* since it was lost before that.                                          *)
Finished == IF job.step = "over" THEN job.rows ELSE {}
LoggedIsOver ==
  \A x \in logged \ (unacked \union Finished) :
    x[1] \in Users => rule[x[2]] = NoRule \/ rule[x[2]].type \notin queue

(* The rows of a run are of recipients it is done with, or of the present  *)
(* one and rules it is done with; members with two rows come twice in the  *)
(* digest.                                                                 *)
Twice(u) == job.kind = "digest" /\ u \in Doubled
RowsAreDone ==
  /\ job.step \in {"users", "send"} =>
       /\ \A x \in job.rows : \E s \in job.rules : s[1] = x[2]
       /\ \A x \in job.rows, t \in job.todo : x[1] = t[1] => Twice(x[1])
       /\ \A s, t \in job.todo : s[1] = t[1] /\ s # t => Twice(s[1])
  /\ job.step = "send" =>
       /\ \A t \in job.todo : t[1] = job.user => Twice(job.user)
       /\ job.rest \subseteq job.rules
       /\ ~Twice(job.user) =>
            \A x \in job.rows : x[1] = job.user => \A s \in job.rest : s[1] # x[2]
  /\ job.step = "over" =>
       \A x \in job.rows : \E s \in job.rules : s[1] = x[2]

(* The items a run has read and nobody has changed since are as it read    *)
(* them; the digest has read only those of the recipient it is at.         *)
Current(u) == \A i \in job.items[u] \ job.changed : item[i].owner = u /\ Open(i)
ItemsAsRead ==
  /\ job.step \in {"users", "send"} /\ job.kind # "digest" => \A u \in Users : Current(u)
  /\ job.step = "send" => Current(job.user)

(* The inductive invariant.                                                *)
NotificationInv ==
  /\ TypeOK /\ JobOK
  /\ RulesOfJob /\ LoggedIsOver /\ RowsAreDone /\ ItemsAsRead
  /\ ArrivalsAreLogged /\ again \subseteq delivered /\ SecondNeedsLoss
-----------------------------------------------------------------------------
(* Types *)

(* A counted event stays within its bound.                                 *)
LEMMA EventType ==
  ASSUME TypeOK, Event
  PROVE  events' \in 0 .. MaxEvents
BY NotificationAssumption DEF TypeOK, Event

(* The items of owners are a function of the users.                        *)
LEMMA OwnerItemsType ==
  ASSUME NEW kind
  PROVE  OwnerItems(kind) \in [Users -> SUBSET Items]
BY DEF OwnerItems

(* The forms of the run, and what it reads and sends.                      *)
LEMMA JobStep ==
  ASSUME TypeOK, JobOK, [Next]_vars
  PROVE  JobOK'
<1> USE DEF JobOK, Idle, Reading, Between, Sending, Ended
<1>1. ASSUME NEW k \in Kinds, Receive(k)
      PROVE  JobOK'
  <2>1. {<<r, rule[r].channel>> : r \in ActiveRules(k)} \subseteq ReadRules
    BY DEF ActiveRules, ReadRules, TypeOK
  <2> QED
    BY <1>1, <2>1 DEF Receive
<1>2. CASE ReadItems
  <2>1. /\ {u \in Users : OwnerItems(job.kind)[u] # {}} \X {1} \subseteq Users \X {1, 2}
        /\ MemberRows \subseteq Users \X {1, 2}
    BY NotificationAssumption DEF MemberRows
  <2> QED
    BY <1>2, <2>1, OwnerItemsType DEF ReadItems
<1>3. CASE NextUser
  BY <1>3 DEF NextUser
<1>4. CASE \/ Commit \/ Acknowledge \/ TaskFails \/ Crash
           \/ job.step = "send" /\ \E r \in job.rest : FlushFails(r)
  <2>1. CASE Acknowledge \/ Crash
    BY <2>1 DEF Acknowledge, Crash
  <2>2. CASE Commit
    <3>1. job \in Between
      BY <2>2 DEF Commit
    <3> QED
      BY <2>2, <3>1 DEF Commit, Over
  <2>3. CASE TaskFails
    <3>1. job \in Reading \union Between
      BY <2>3 DEF TaskFails
    <3> QED
      BY <2>3, <3>1 DEF TaskFails, Over
  <2>4. CASE job.step = "send" /\ \E r \in job.rest : FlushFails(r)
    <3>1. job \in Sending /\ job' = Over({})
      BY <2>4 DEF FlushFails
    <3> QED
      BY <3>1 DEF Over
  <2> QED
    BY <1>4, <2>1, <2>2, <2>3, <2>4
<1>5. ASSUME NEW u \in Users, NEW n \in {1, 2}, SkipUser(u, n)
      PROVE  JobOK'
  BY <1>5 DEF SkipUser
<1>6. ASSUME NEW u \in Users, NEW n \in {1, 2}, LoadUser(u, n)
      PROVE  JobOK'
  <2>1. job \in Between
    BY <1>6 DEF LoadUser
  <2>2. Content(u) \subseteq Items
    BY <2>1 DEF Content, Digest, Reminder
  <2> QED
    BY <1>6, <2>1, <2>2 DEF LoadUser
<1>7. ASSUME NEW r \in job.rest, job.step = "send", SendForRule(r)
      PROVE  JobOK'
  <2>1. job \in Sending /\ <<job.user, r[1]>> \in Users \X Rules
    BY <1>7 DEF ReadRules
  <2>2. job' = [job EXCEPT !.rest = @ \ {r}, !.rows = @ \union {<<job.user, r[1]>>}]
    BY <1>7 DEF SendForRule
  <2>3. /\ job.rest \ {r} \in SUBSET ReadRules
        /\ job.rows \union {<<job.user, r[1]>>} \in SUBSET (Users \X Rules)
    BY <2>1
  <2>4. job' \in Sending
    BY <2>1, <2>2, <2>3
  <2> QED
    BY <2>4
<1>8. ASSUME NEW i \in Items, EditItem(i)
      PROVE  JobOK'
  BY <1>8 DEF EditItem, Touched
<1>9. CASE UNCHANGED job
  BY <1>9
<1>10. CASE NewDay \/ UNCHANGED vars
  BY <1>9, <1>10 DEF NewDay, vars
<1>11. ASSUME NEW r \in Rules,
              \/ CreateRule(r) \/ ToggleRule(r) \/ DeleteRule(r) \/ TestRule(r) \/ RunRule(r)
              \/ \E c \in Configs : PatchConfig(r, c)
       PROVE  JobOK'
  BY <1>9, <1>11 DEF CreateRule, ToggleRule, DeleteRule, TestRule, RunRule, SendNow, PatchConfig
<1>12. ASSUME NEW u \in Users, SetActive(u)
       PROVE  JobOK'
  BY <1>9, <1>12 DEF SetActive
<1> HIDE DEF JobOK, Idle, Reading, Between, Sending, Ended
<1> QED
  BY <1>1, <1>2, <1>3, <1>4, <1>5, <1>6, <1>7, <1>8, <1>10, <1>11, <1>12
  DEF Next, Work, Faults, Edits

(* The types of the steps of a run.                                        *)
LEMMA WorkType ==
  ASSUME TypeOK, JobOK, JobOK', Work \/ Faults
  PROVE  TypeOK'
<1> USE DEF TypeOK, history
<1>a. job'.step \in {"idle", "items", "users", "send", "over"}
  BY DEF JobOK, Idle, Reading, Between, Sending, Ended
<1>b. Rows \subseteq Users \X Rules
  BY DEF Rows, JobOK, Idle, Between, Sending, Reading, Ended
<1>1. ASSUME NEW r \in job.rest, job.step = "send"
      PROVE  job \in Sending /\ <<job.user, r[1]>> \in Users \X Rules
  BY <1>1 DEF JobOK, Idle, Reading, Between, Sending, Ended, ReadRules
<1>2. CASE Commit \/ Acknowledge
  BY <1>a, <1>b, <1>2 DEF Commit, Acknowledge, Stored, Acknowledged, Rows
<1>3. CASE TaskFails
  BY <1>a, <1>b, <1>3, EventType DEF TaskFails
<1>c. CASE Crash
  <2>1. job.step = "over" => job.rows \subseteq Users \X Rules
    BY DEF JobOK, Idle, Reading, Between, Sending, Ended
  <2> QED
    BY <1>a, <1>b, <1>c, <2>1, EventType DEF Crash
<1>4. ASSUME NEW r \in job.rest, job.step = "send", SendForRule(r)
      PROVE  TypeOK'
  BY <1>a, <1>1, <1>4, EventType DEF SendForRule, Arrival
<1>5. ASSUME NEW r \in job.rest, job.step = "send", FlushFails(r)
      PROVE  TypeOK'
  <2>1. job.rows \subseteq Users \X Rules
    BY <1>1, <1>5 DEF Sending
  <2> QED
    BY <1>a, <1>1, <1>5, <2>1, EventType DEF FlushFails, Arrival
<1>6. CASE \/ ReadItems \/ NextUser \/ \E k \in Kinds : Receive(k)
           \/ \E u \in Users, n \in {1, 2} : SkipUser(u, n) \/ LoadUser(u, n)
  BY <1>a, <1>6 DEF ReadItems, NextUser, Receive, SkipUser, LoadUser
<1> QED
  BY <1>2, <1>3, <1>c, <1>4, <1>5, <1>6 DEF Work, Faults

(* The types of the edits of users and of the turn of the day.             *)
LEMMA EditType ==
  ASSUME TypeOK, JobOK, JobOK', Edits \/ NewDay
  PROVE  TypeOK'
<1> USE DEF TypeOK, history
<1>a. job'.step \in {"idle", "items", "users", "send", "over"}
  BY DEF JobOK, Idle, Reading, Between, Sending, Ended
<1>1. ASSUME NEW r \in Rules, CreateRule(r)
      PROVE  TypeOK'
  BY <1>a, <1>1, EventType DEF CreateRule, Configs
<1>2. ASSUME NEW r \in Rules, ToggleRule(r)
      PROVE  TypeOK'
  <2> DEFINE R == [type : RuleTypes \union {"overdue", "none"},
                   channel : Channels \union {"slack", "none"},
                   active : BOOLEAN, config : Configs]
  <2>1. rule[r] \in R /\ (~rule[r].active) \in BOOLEAN
    OBVIOUS
  <2>2. [rule[r] EXCEPT !.active = ~rule[r].active] \in R
    BY <2>1
  <2>3. rule' = [rule EXCEPT ![r] = [rule[r] EXCEPT !.active = ~rule[r].active]]
    BY <1>2 DEF ToggleRule
  <2>4. rule' \in [Rules -> R]
    BY <2>2, <2>3
  <2> QED
    BY <1>a, <1>2, <2>4, EventType DEF ToggleRule
<1>3. ASSUME NEW r \in Rules, NEW c \in Configs, PatchConfig(r, c)
      PROVE  TypeOK'
  BY <1>a, <1>3, EventType DEF PatchConfig, Merged
<1>4. ASSUME NEW r \in Rules, DeleteRule(r)
      PROVE  TypeOK'
  BY <1>a, <1>4, EventType DEF DeleteRule, NoRule, Configs
<1>5. ASSUME NEW r \in Rules, SendNow(r)
      PROVE  TypeOK'
  BY <1>a, <1>5, EventType DEF SendNow
<1>6. ASSUME NEW i \in Items, EditItem(i)
      PROVE  TypeOK'
  <2> DEFINE R == [owner : Users, due : {"none", "later", "soon", "overdue"},
                   status : {"Open", "Done"}]
  <2>1. ASSUME NEW new \in R, item' = [item EXCEPT ![i] = new]
        PROVE  item' \in [Items -> R]
    BY <2>1
  <2>2. item[i] \in R
    OBVIOUS
  <2>3. ASSUME \E c \in {"Open", "Done"} : item' = [item EXCEPT ![i].status = c]
        PROVE  item' \in [Items -> R]
    <3> PICK c \in {"Open", "Done"} : item' = [item EXCEPT ![i].status = c]
      BY <2>3
    <3>1. [item[i] EXCEPT !.status = c] \in R
      BY <2>2
    <3>2. item' = [item EXCEPT ![i] = [item[i] EXCEPT !.status = c]]
      OBVIOUS
    <3> QED
      BY <2>1, <3>1, <3>2
  <2>4. ASSUME \E o \in Users : item' = [item EXCEPT ![i].owner = o]
        PROVE  item' \in [Items -> R]
    <3> PICK o \in Users : item' = [item EXCEPT ![i].owner = o]
      BY <2>4
    <3>1. [item[i] EXCEPT !.owner = o] \in R
      BY <2>2
    <3>2. item' = [item EXCEPT ![i] = [item[i] EXCEPT !.owner = o]]
      OBVIOUS
    <3> QED
      BY <2>1, <3>1, <3>2
  <2>5. item' \in [Items -> R]
    BY <1>6, <2>3, <2>4 DEF EditItem
  <2> QED
    BY <1>a, <1>6, <2>5, EventType DEF EditItem
<1>7. ASSUME NEW u \in Users, SetActive(u)
      PROVE  TypeOK'
  BY <1>a, <1>7, EventType DEF SetActive
<1>8. CASE NewDay
  <2>1. item' \in [Items -> [owner : Users, due : {"none", "later", "soon", "overdue"},
                              status : {"Open", "Done"}]]
    BY <1>8 DEF NewDay, Later
  <2> QED
    BY <1>a, <1>8, <2>1 DEF NewDay
<1> QED
  BY <1>1, <1>2, <1>3, <1>4, <1>5, <1>6, <1>7, <1>8 DEF Edits, TestRule, RunRule

(* Every step keeps the types.                                             *)
LEMMA TypeStep ==
  ASSUME TypeOK, JobOK, [Next]_vars
  PROVE  TypeOK' /\ JobOK'
<1>1. JobOK'
  BY JobStep
<1>2. CASE UNCHANGED vars
  <2>1. /\ rule' = rule /\ item' = item /\ active' = active /\ queue' = queue /\ job' = job
        /\ logged' = logged /\ delivered' = delivered /\ again' = again /\ lost' = lost
        /\ unacked' = unacked /\ events' = events
    BY <1>2 DEF vars
  <2> QED
    BY <1>1, <2>1 DEF TypeOK
<1> QED
  BY <1>1, <1>2, WorkType, EditType DEF Next

(* The first day starts well typed.                                        *)
LEMMA TypeInit == Init => TypeOK /\ JobOK
<1> SUFFICES ASSUME Init PROVE TypeOK /\ JobOK
  OBVIOUS
<1>1. rule \in [Rules -> {FirstRule, NoRule}]
  BY DEF Init
<1>2. item \in [Items -> [owner : Users, due : {"none", "later", "soon", "overdue"},
                           status : {"Open", "Done"}]]
  BY DEF Init
<1> QED
  BY <1>1, <1>2, NotificationAssumption
  DEF Init, TypeOK, JobOK, Idle, FirstRule, NoRule, Configs

(* Every variable keeps its type, whatever fails or is edited: messages    *)
(* are about users and rules of the workspace, a run about what it read.   *)
THEOREM TypeCorrect == Spec => [](TypeOK /\ JobOK)
BY TypeInit, TypeStep, PTL DEF Spec
-----------------------------------------------------------------------------
(* The invariant, part by part *)

(* A send takes a rule from the rest, adds a row, and may arrive.          *)
LEMMA SendForm ==
  ASSUME JobOK, NEW r \in job.rest, job.step = "send", SendForRule(r)
  PROVE  /\ job \in Sending /\ job'.step = "send"
         /\ job'.kind = job.kind /\ job'.rules = job.rules /\ job'.items = job.items
         /\ job'.todo = job.todo /\ job'.changed = job.changed /\ job'.user = job.user
         /\ job'.rest = job.rest \ {r} /\ job'.rows = job.rows \union {<<job.user, r[1]>>}
         /\ rule' = rule /\ item' = item /\ queue' = queue /\ logged' = logged /\ lost' = lost
         /\ unacked' = unacked
<1>1. job \in Sending
  BY DEF JobOK, Idle, Reading, Between, Sending, Ended
<1>2. job' = [job EXCEPT !.rest = @ \ {r}, !.rows = @ \union {<<job.user, r[1]>>}]
  BY DEF SendForRule, JobOK, Idle, Reading, Between, Sending, Ended
<1>3. /\ rule' = rule /\ item' = item /\ queue' = queue /\ logged' = logged /\ lost' = lost
      /\ unacked' = unacked
  BY DEF SendForRule
<1> QED
  BY <1>1, <1>2, <1>3 DEF Sending

(* A run goes on with the kind and the rules it has.                       *)
LEMMA RunGoesOn ==
  ASSUME JobOK,
         \/ ReadItems \/ NextUser \/ \E u \in Users, n \in {1, 2} : SkipUser(u, n) \/ LoadUser(u, n)
         \/ job.step = "send" /\ \E r \in job.rest : SendForRule(r)
  PROVE  /\ job # Idle /\ job'.kind = job.kind /\ job'.rules = job.rules
         /\ job.step # "over" /\ job'.step # "over"
         /\ UNCHANGED <<rule, item, queue, logged, lost, unacked>>
<1>1. CASE ReadItems \/ NextUser
  BY <1>1 DEF ReadItems, NextUser, JobOK, Idle, Reading, Between, Sending, Ended, history
<1>2. ASSUME NEW u \in Users, NEW n \in {1, 2}, SkipUser(u, n) \/ LoadUser(u, n)
      PROVE  /\ job # Idle /\ job'.kind = job.kind /\ job'.rules = job.rules
             /\ job.step # "over" /\ job'.step # "over"
             /\ UNCHANGED <<rule, item, queue, logged, lost, unacked>>
  BY <1>2 DEF SkipUser, LoadUser, JobOK, Idle, Reading, Between, Sending, Ended, history
<1>3. ASSUME NEW r \in job.rest, job.step = "send", SendForRule(r)
      PROVE  /\ job # Idle /\ job'.kind = job.kind /\ job'.rules = job.rules
             /\ job.step # "over" /\ job'.step # "over"
             /\ UNCHANGED <<rule, item, queue, logged, lost, unacked>>
  BY <1>3, SendForm DEF Idle
<1> QED
  BY <1>1, <1>2, <1>3

(* A run that fails is over without rows.                                  *)
LEMMA FailForm ==
  ASSUME TaskFails \/ (job.step = "send" /\ \E r \in job.rest : FlushFails(r))
  PROVE  /\ job # Idle /\ job.step # "over" /\ job' = Over({})
         /\ UNCHANGED <<rule, item, queue, logged, unacked>>
<1>1. CASE TaskFails
  BY <1>1 DEF TaskFails, Idle
<1>2. ASSUME NEW r \in job.rest, job.step = "send", FlushFails(r)
      PROVE  /\ job # Idle /\ job.step # "over" /\ job' = Over({})
             /\ UNCHANGED <<rule, item, queue, logged, unacked>>
  BY <1>2 DEF FlushFails, Idle
<1> QED
  BY <1>1, <1>2

(* What the edits of rules leave of the rule of an id: an id that a run or *)
(* the log of today knows is not used for another rule.                    *)
RuleStays(r) == rule'[r] = NoRule \/ (rule[r] # NoRule /\ rule'[r].type = rule[r].type)
LEMMA RuleLife ==
  ASSUME TypeOK, NEW r \in Rules,
         \/ CreateRule(r) \/ ToggleRule(r) \/ DeleteRule(r)
         \/ \E c \in Configs : PatchConfig(r, c)
  PROVE  /\ UNCHANGED <<item, queue, job, logged, delivered, again, lost, unacked>>
         /\ \A q \in Rules \ {r} : rule'[q] = rule[q]
         /\ Fresh(r) \/ RuleStays(r)
<1> USE DEF TypeOK, history, RuleStays
<1>1. CASE CreateRule(r)
  BY <1>1 DEF CreateRule
<1>2. CASE ToggleRule(r)
  BY <1>2 DEF ToggleRule
<1>3. CASE DeleteRule(r)
  BY <1>3 DEF DeleteRule
<1>4. ASSUME NEW c \in Configs, PatchConfig(r, c)
      PROVE  /\ UNCHANGED <<item, queue, job, logged, delivered, again, lost, unacked>>
             /\ \A q \in Rules \ {r} : rule'[q] = rule[q]
             /\ RuleStays(r)
  BY <1>4 DEF PatchConfig
<1> QED
  BY <1>1, <1>2, <1>3, <1>4

(* The rules of a run: read from the rules of its kind, and not made over. *)
LEMMA RulesStep ==
  ASSUME NotificationInv, [Next]_vars
  PROVE  RulesOfJob'
<1> USE DEF NotificationInv, RulesOfJob
<1>1. ASSUME NEW k \in Kinds, Receive(k)
      PROVE  RulesOfJob'
  <2>1. /\ job'.rules = {<<r, rule[r].channel>> : r \in ActiveRules(k)} /\ job'.kind = k
        /\ k \in queue /\ job = Idle /\ UNCHANGED <<rule, logged, unacked>>
    BY <1>1 DEF Receive, history
  <2>2. \A r \in ActiveRules(k) : r \in Rules /\ rule[r].type = k /\ rule[r] # NoRule
    BY DEF ActiveRules, Kinds, NoRule
  <2>3. \A r \in ActiveRules(k), u \in Users : <<u, r>> \notin logged \ unacked
    BY <2>1, <2>2 DEF LoggedIsOver, Finished, Idle
  <2> QED
    BY <2>1, <2>2, <2>3
<1>2. CASE \/ ReadItems \/ NextUser \/ \E u \in Users, n \in {1, 2} : SkipUser(u, n) \/ LoadUser(u, n)
           \/ job.step = "send" /\ \E r \in job.rest : SendForRule(r)
  BY <1>2, RunGoesOn
<1>3. CASE \/ Commit \/ Acknowledge \/ TaskFails \/ Crash
           \/ job.step = "send" /\ \E r \in job.rest : FlushFails(r)
  <2>1. CASE Acknowledge \/ Crash
    BY <2>1 DEF Acknowledge, Crash
  <2>2. CASE Commit \/ TaskFails \/ (job.step = "send" /\ \E r \in job.rest : FlushFails(r))
    <3>1. /\ job'.step = "over" /\ job'.kind = job.kind /\ job'.rules = job.rules
          /\ rule' = rule /\ job # Idle
      BY <2>2, FailForm DEF Commit, Over, Idle
    <3> QED
      BY <3>1
  <2> QED
    BY <1>3, <2>1, <2>2
<1>4. ASSUME NEW r \in Rules,
             \/ CreateRule(r) \/ ToggleRule(r) \/ DeleteRule(r)
             \/ \E c \in Configs : PatchConfig(r, c)
      PROVE  RulesOfJob'
  <2>1. /\ UNCHANGED <<job, logged, unacked>> /\ \A q \in Rules \ {r} : rule'[q] = rule[q]
        /\ Fresh(r) \/ RuleStays(r)
    BY <1>4, RuleLife
  <2>2. job # Idle => job.rules \subseteq ReadRules
    BY DEF JobOK, Reading, Between, Sending, Ended
  <2>3. ASSUME job # Idle, NEW s \in job.rules
        PROVE  rule'[s[1]] = NoRule \/ rule'[s[1]].type = job.kind
    <3>1. s[1] \in Rules
      BY <2>2, <2>3 DEF ReadRules
    <3>2. Fresh(r) => s[1] # r
      BY <2>3 DEF Fresh
    <3> QED
      BY <2>1, <2>3, <3>1, <3>2 DEF RuleStays
  <2> QED
    BY <2>1, <2>3
<1>5. ASSUME NEW r \in Rules, SendNow(r)
      PROVE  RulesOfJob'
  BY <1>5, NotificationAssumption DEF SendNow
<1>6. ASSUME NEW i \in Items, EditItem(i)
      PROVE  RulesOfJob'
  <2>1. /\ job' = Idle <=> job = Idle
        /\ job # Idle => job'.kind = job.kind /\ job'.rules = job.rules /\ job'.step = job.step
        /\ UNCHANGED <<rule, logged, unacked>>
    BY <1>6 DEF EditItem, Touched, JobOK, Idle, Reading, Between, Sending, Ended, history
  <2> QED
    BY <2>1
<1>7. ASSUME NEW u \in Users, SetActive(u)
      PROVE  RulesOfJob'
  BY <1>7 DEF SetActive, history
<1>8. CASE NewDay
  BY <1>8 DEF NewDay
<1>9. CASE UNCHANGED vars
  BY <1>9 DEF vars
<1> QED
  BY <1>1, <1>2, <1>3, <1>4, <1>5, <1>6, <1>7, <1>8, <1>9
  DEF Next, Work, Faults, Edits, TestRule, RunRule

(* The rows of a run that is over are those of its kind, which its         *)
(* acknowledgement takes from the queue.                                   *)
LEMMA LoggedStep ==
  ASSUME NotificationInv, [Next]_vars
  PROVE  LoggedIsOver'
<1> USE DEF NotificationInv, LoggedIsOver
<1>1. CASE Commit
  <2>1. /\ logged' = logged \union job.rows /\ UNCHANGED <<rule, queue, unacked>>
        /\ job.step = "users" /\ Finished' = job.rows /\ Finished = {}
    BY <1>1 DEF Commit, Stored, Over, Finished
  <2> QED
    BY <2>1
<1>2. CASE Acknowledge
  <2>1. /\ logged' = logged /\ queue' = queue \ {job.kind} /\ UNCHANGED <<rule, unacked>>
        /\ job.step = "over" /\ Finished = job.rows
    BY <1>2 DEF Acknowledge, Acknowledged, Finished, history
  <2>2. \A x \in job.rows : rule[x[2]] = NoRule \/ rule[x[2]].type = job.kind
    BY <2>1 DEF RowsAreDone, RulesOfJob, Idle
  <2> QED
    BY <2>1, <2>2
<1>3. CASE TaskFails \/ (job.step = "send" /\ \E r \in job.rest : FlushFails(r))
  <2>1. Finished = {} /\ Finished' = {} /\ UNCHANGED <<rule, queue, logged, unacked>>
    BY <1>3, FailForm DEF Finished, Over
  <2> QED
    BY <2>1
<1>4. CASE Crash
  <2>1. /\ unacked' = unacked \union Finished /\ Finished' = {}
        /\ UNCHANGED <<rule, queue, logged>>
    BY <1>4 DEF Crash, Finished, Idle
  <2> QED
    BY <2>1
<1>5. ASSUME NEW r \in Rules,
             \/ CreateRule(r) \/ ToggleRule(r) \/ DeleteRule(r)
             \/ \E c \in Configs : PatchConfig(r, c)
      PROVE  LoggedIsOver'
  <2>1. /\ UNCHANGED <<job, queue, logged, unacked>> /\ \A q \in Rules \ {r} : rule'[q] = rule[q]
        /\ Fresh(r) \/ RuleStays(r)
    BY <1>5, RuleLife
  <2>2. ASSUME NEW x \in logged \ (unacked \union Finished), x[1] \in Users
        PROVE  rule'[x[2]] = NoRule \/ rule'[x[2]].type \notin queue
    <3>1. x[2] \in Rules
      BY <2>2 DEF TypeOK
    <3>2. Fresh(r) => x[2] # r
      BY <2>2 DEF Fresh
    <3> QED
      BY <2>1, <2>2, <3>1, <3>2 DEF RuleStays
  <2>3. Finished' = Finished
    BY <2>1 DEF Finished
  <2> QED
    BY <2>1, <2>2, <2>3
<1>6. ASSUME NEW r \in Rules, SendNow(r)
      PROVE  LoggedIsOver'
  <2>1. /\ logged' \subseteq logged \union {<<"admin", r>>} /\ Finished' = Finished
        /\ UNCHANGED <<rule, queue, unacked>>
    BY <1>6 DEF SendNow, Finished
  <2> QED
    BY <2>1, NotificationAssumption
<1>7. ASSUME UNCHANGED <<rule, queue, logged, unacked>>, Finished' = Finished
      PROVE  LoggedIsOver'
  BY <1>7
<1>8. CASE \/ ReadItems \/ NextUser
           \/ \E u \in Users, n \in {1, 2} : SkipUser(u, n) \/ LoadUser(u, n)
           \/ job.step = "send" /\ \E r \in job.rest : SendForRule(r)
  BY <1>7, <1>8, RunGoesOn DEF Finished
<1>9. ASSUME NEW k \in Kinds, Receive(k)
      PROVE  LoggedIsOver'
  BY <1>7, <1>9 DEF Receive, history, Finished, Idle
<1>10. ASSUME NEW i \in Items, EditItem(i)
       PROVE  LoggedIsOver'
  <2>1. Finished' = Finished
    <3>1. CASE job.step \in {"users", "send"}
      <4>1. job'.step = job.step
        BY <1>10, <3>1 DEF EditItem, Touched, JobOK, Idle, Reading, Ended, Between, Sending
      <4> QED
        BY <3>1, <4>1 DEF Finished
    <3>2. CASE job.step \notin {"users", "send"}
      BY <1>10, <3>2 DEF EditItem, Touched, Finished
    <3> QED
      BY <3>1, <3>2
  <2> QED
    BY <1>7, <1>10, <2>1 DEF EditItem, history
<1>11. CASE UNCHANGED vars \/ \E u \in Users : SetActive(u)
  BY <1>7, <1>11 DEF SetActive, history, vars, Finished
<1>12. CASE NewDay
  BY <1>12 DEF NewDay
<1> HIDE DEF NotificationInv, LoggedIsOver
<1> QED
  BY <1>1, <1>2, <1>3, <1>4, <1>5, <1>6, <1>8, <1>9, <1>10, <1>11, <1>12
  DEF Next, Work, Faults, Edits, TestRule, RunRule

(* A task that begins, ends or is not there holds neither items nor rows.  *)
LEMMA NothingHeld ==
  ASSUME \/ Acknowledge \/ TaskFails \/ Crash \/ NewDay
         \/ job.step = "send" /\ \E r \in job.rest : FlushFails(r)
         \/ \E k \in Kinds : Receive(k)
  PROVE  job'.step \notin {"users", "send"} /\ (job'.step = "over" => job'.rows = {})
<1>1. CASE Acknowledge \/ Crash \/ NewDay
  <2>1. job' = Idle
    BY <1>1 DEF Acknowledge, Crash, NewDay
  <2> QED
    BY <2>1 DEF Idle
<1>2. CASE TaskFails \/ (job.step = "send" /\ \E r \in job.rest : FlushFails(r))
  BY <1>2, FailForm DEF Over
<1>3. ASSUME NEW k \in Kinds, Receive(k)
      PROVE  job'.step \notin {"users", "send", "over"}
  BY <1>3 DEF Receive
<1> QED
  BY <1>1, <1>2, <1>3

(* The rows grow with the sends, one for a recipient and a rule.           *)
LEMMA RowsStep ==
  ASSUME NotificationInv, [Next]_vars
  PROVE  RowsAreDone'
<1> USE DEF NotificationInv, RowsAreDone, Twice
<1>1. CASE \/ Acknowledge \/ TaskFails \/ Crash \/ NewDay
           \/ job.step = "send" /\ \E r \in job.rest : FlushFails(r)
           \/ \E k \in Kinds : Receive(k)
  BY <1>1, NothingHeld
<1>c. CASE Commit
  BY <1>c DEF Commit, Over
<1>2. CASE ReadItems
  <2>1. /\ job'.step = "users" /\ job'.rows = {} /\ job'.kind = job.kind
        /\ job'.todo \subseteq Users \X {1} \/ (job.kind = "digest" /\ job'.todo = MemberRows)
        /\ job'.todo = {} \/ job'.todo # {}
    BY <1>2 DEF ReadItems
  <2>2. \A s, t \in MemberRows : s[1] = t[1] /\ s # t => s[1] \in Doubled
    BY DEF MemberRows
  <2> QED
    BY <2>1, <2>2
<1>3. ASSUME NEW u \in Users, NEW n \in {1, 2}, SkipUser(u, n)
      PROVE  RowsAreDone'
  <2>1. job \in Between
    BY <1>3 DEF SkipUser, JobOK, Idle, Reading, Between, Sending, Ended
  <2>2. job' = [job EXCEPT !.todo = @ \ {<<u, n>>}]
    BY <1>3 DEF SkipUser
  <2> QED
    BY <2>1, <2>2 DEF Between
<1>4. ASSUME NEW u \in Users, NEW n \in {1, 2}, LoadUser(u, n)
      PROVE  RowsAreDone'
  <2>1. /\ job.step = "users" /\ <<u, n>> \in job.todo /\ job'.kind = job.kind
        /\ job'.step = "send" /\ job'.rules = job.rules /\ job'.todo = job.todo \ {<<u, n>>}
        /\ job'.rows = job.rows /\ job'.user = u /\ job'.rest = job.rules
    BY <1>4 DEF LoadUser
  <2> QED
    BY <2>1
<1>5. ASSUME NEW r \in job.rest, job.step = "send", SendForRule(r)
      PROVE  RowsAreDone'
  <2>1. /\ job'.step = "send" /\ job'.rules = job.rules /\ job'.todo = job.todo
        /\ job'.user = job.user /\ job'.rest = job.rest \ {r} /\ job'.kind = job.kind
        /\ job'.rows = job.rows \union {<<job.user, r[1]>>}
    BY <1>5, SendForm
  <2>2. \A s \in job.rest \ {r} : s[1] # r[1]
    BY <1>5 DEF RulesOfJob, Idle
  <2>3. r \in job.rules
    BY <1>5
  <2>4. /\ \A x \in job'.rows : \E s \in job'.rules : s[1] = x[2]
        /\ \A x \in job'.rows, t \in job'.todo : x[1] = t[1] => Twice(x[1])
    BY <1>5, <2>1, <2>3
  <2>5. ~Twice(job.user) =>
          \A x \in job'.rows : x[1] = job'.user => \A s \in job'.rest : s[1] # x[2]
    BY <1>5, <2>1, <2>2
  <2> QED
    BY <1>5, <2>1, <2>4, <2>5
<1>6. CASE NextUser
  BY <1>6 DEF NextUser
<1>7. ASSUME NEW i \in Items, EditItem(i)
      PROVE  RowsAreDone'
  <2>1. CASE job.step \in {"users", "send"}
    <3>1. job \in Between \union Sending
      BY <2>1 DEF JobOK, Idle, Reading, Ended
    <3>2. job' = [job EXCEPT !.changed = @ \union {i}]
      BY <1>7, <2>1 DEF EditItem, Touched
    <3> QED
      BY <3>1, <3>2 DEF Between, Sending
  <2>2. CASE job.step \notin {"users", "send"}
    BY <1>7, <2>2 DEF EditItem, Touched
  <2> QED
    BY <2>1, <2>2
<1>8. ASSUME UNCHANGED job
      PROVE  RowsAreDone'
  BY <1>8
<1>9. ASSUME NEW r \in Rules,
             \/ CreateRule(r) \/ ToggleRule(r) \/ DeleteRule(r) \/ SendNow(r)
             \/ \E c \in Configs : PatchConfig(r, c)
      PROVE  RowsAreDone'
  BY <1>8, <1>9 DEF CreateRule, ToggleRule, DeleteRule, SendNow, PatchConfig
<1>10. CASE UNCHANGED vars \/ \E u \in Users : SetActive(u)
  BY <1>8, <1>10 DEF vars, SetActive
<1> HIDE DEF NotificationInv, RowsAreDone
<1> QED
  BY <1>1, <1>c, <1>2, <1>3, <1>4, <1>5, <1>6, <1>7, <1>9, <1>10
  DEF Next, Work, Faults, Edits, TestRule, RunRule

(* An item is edited while a run holds it, and then counts as changed.     *)
LEMMA ItemsStep ==
  ASSUME NotificationInv, [Next]_vars
  PROVE  ItemsAsRead'
<1> USE DEF NotificationInv, ItemsAsRead, Current, Open
<1>1. CASE \/ Acknowledge \/ TaskFails \/ Crash \/ NewDay
           \/ job.step = "send" /\ \E r \in job.rest : FlushFails(r)
           \/ \E k \in Kinds : Receive(k)
  BY <1>1, NothingHeld
<1>c. CASE Commit
  BY <1>c DEF Commit, Over
<1>2. CASE ReadItems
  <2>1. /\ job'.items = OwnerItems(job.kind) /\ job'.changed = {} /\ job'.kind = job.kind
        /\ job'.step = "users" /\ item' = item
    BY <1>2 DEF ReadItems
  <2>2. job.kind \in Kinds
    BY <1>2 DEF ReadItems, JobOK, Idle, Reading, Between, Sending, Ended
  <2>3. ASSUME job.kind # "digest", NEW u \in Users, NEW i \in OwnerItems(job.kind)[u]
        PROVE  item[i].owner = u /\ Open(i)
    <3>1. job.kind = "due_soon" \/ job.kind = "overdue"
      BY <2>2, <2>3 DEF Kinds
    <3>2. item[i].owner = u /\ Selected(job.kind, i)
      BY <2>3 DEF OwnerItems
    <3>3. Selected("due_soon", i) => Open(i)
      BY DEF Selected, DueSoon
    <3>4. Selected("overdue", i) => Open(i)
      BY DEF Selected, Overdue
    <3> QED
      BY <3>1, <3>2, <3>3, <3>4
  <2> QED
    BY <2>1, <2>3
<1>3. ASSUME NEW u \in Users, NEW n \in {1, 2}, SkipUser(u, n)
      PROVE  ItemsAsRead'
  <2>1. job \in Between
    BY <1>3 DEF SkipUser, JobOK, Idle, Reading, Between, Sending, Ended
  <2>2. job' = [job EXCEPT !.todo = @ \ {<<u, n>>}] /\ item' = item
    BY <1>3 DEF SkipUser
  <2> QED
    BY <2>1, <2>2 DEF Between
<1>4. ASSUME NEW u \in Users, NEW n \in {1, 2}, LoadUser(u, n)
      PROVE  ItemsAsRead'
  <2>1. /\ job \in Between /\ job'.step = "send" /\ job'.kind = job.kind
        /\ job'.items = [job.items EXCEPT ![u] = Content(u)] /\ job'.user = u
        /\ job'.changed = IF job.kind = "digest" THEN {} ELSE job.changed
        /\ item' = item
    BY <1>4 DEF LoadUser, JobOK, Idle, Reading, Between, Sending, Ended
  <2>2. CASE job.kind = "digest"
    BY <2>1, <2>2 DEF Between, Content, Digest
  <2>3. CASE job.kind # "digest"
    <3>1. Content(u) = job.items[u]
      BY <2>3 DEF Content, Reminder
    <3>2. job'.items = job.items /\ job'.changed = job.changed
      BY <2>1, <2>3, <3>1 DEF Between
    <3> QED
      BY <2>1, <2>3, <3>2 DEF Between
  <2> QED
    BY <2>2, <2>3
<1>5. ASSUME NEW r \in job.rest, job.step = "send", SendForRule(r)
      PROVE  ItemsAsRead'
  <2>1. /\ job'.step = "send" /\ job'.kind = job.kind /\ job'.items = job.items
        /\ job'.changed = job.changed /\ job'.user = job.user /\ item' = item
    BY <1>5, SendForm
  <2> QED
    BY <1>5, <2>1
<1>6. CASE NextUser
  <2>1. /\ job.step = "send" /\ job'.step = "users" /\ job'.kind = job.kind
        /\ job'.items = job.items /\ job'.changed = job.changed /\ item' = item
    BY <1>6 DEF NextUser
  <2> QED
    BY <2>1
<1>7. ASSUME NEW i \in Items, EditItem(i)
      PROVE  ItemsAsRead'
  <2>1. CASE job.step \in {"users", "send"}
    <3>1. job \in Between \union Sending
      BY <2>1 DEF JobOK, Idle, Reading, Ended
    <3>2. job' = [job EXCEPT !.changed = @ \union {i}]
      BY <1>7, <2>1 DEF EditItem, Touched
    <3>3. /\ job'.step = job.step /\ job'.kind = job.kind /\ job'.items = job.items
          /\ job'.changed = job.changed \union {i}
          /\ job.step = "send" => job'.user = job.user
      BY <3>1, <3>2 DEF Between, Sending
    <3>4. \A j \in Items \ {i} : item'[j] = item[j]
      BY <1>7 DEF EditItem, TypeOK
    <3>5. /\ \A u \in Users : job.items[u] \subseteq Items
          /\ job.step = "send" => job.user \in Users
      BY <3>1 DEF Between, Sending
    <3> QED
      BY <2>1, <3>3, <3>4, <3>5
  <2>2. CASE job.step \notin {"users", "send"}
    BY <1>7, <2>2 DEF EditItem, Touched
  <2> QED
    BY <2>1, <2>2
<1>8. ASSUME UNCHANGED <<item, job>>
      PROVE  ItemsAsRead'
  BY <1>8
<1>9. ASSUME NEW r \in Rules,
             \/ CreateRule(r) \/ ToggleRule(r) \/ DeleteRule(r) \/ SendNow(r)
             \/ \E c \in Configs : PatchConfig(r, c)
      PROVE  ItemsAsRead'
  BY <1>8, <1>9 DEF CreateRule, ToggleRule, DeleteRule, SendNow, PatchConfig
<1>10. CASE UNCHANGED vars \/ \E u \in Users : SetActive(u)
  BY <1>8, <1>10 DEF vars, SetActive
<1> HIDE DEF NotificationInv, ItemsAsRead
<1> QED
  BY <1>1, <1>c, <1>2, <1>3, <1>4, <1>5, <1>6, <1>7, <1>9, <1>10
  DEF Next, Work, Faults, Edits, TestRule, RunRule

(* What a send leaves of the messages that arrived: at most its own is new.*)
LEMMA SendArrives ==
  ASSUME NEW r \in job.rest, SendForRule(r) \/ FlushFails(r)
  PROVE  /\ delivered' \subseteq delivered \union {<<job.user, r[1]>>}
         /\ again' \subseteq again \union {<<job.user, r[1]>>}
         /\ <<job.user, r[1]>> \notin delivered => again' = again
BY DEF SendForRule, FlushFails, Arrival

(* A message that arrives has its row in the run; the run's rows go to the *)
(* log or are lost.                                                        *)
LEMMA ArrivalsStep ==
  ASSUME NotificationInv, [Next]_vars
  PROVE  ArrivalsAreLogged'
<1> USE DEF NotificationInv, ArrivalsAreLogged
<1>1. ASSUME NEW r \in job.rest, job.step = "send", SendForRule(r)
      PROVE  ArrivalsAreLogged'
  <2>1. Rows' = Rows \union {<<job.user, r[1]>>} /\ logged' = logged /\ lost' = lost
    BY <1>1, SendForm DEF Rows
  <2> QED
    BY <1>1, <2>1, SendArrives
<1>2. ASSUME NEW r \in job.rest, job.step = "send", FlushFails(r)
      PROVE  ArrivalsAreLogged'
  <2>1. lost' = lost \union Rows \union {<<job.user, r[1]>>} /\ logged' = logged
    BY <1>2 DEF FlushFails, Rows
  <2> QED
    BY <1>2, <2>1, SendArrives
<1>3. CASE Commit
  <2>1. Rows = job.rows /\ logged' = logged \union job.rows /\ UNCHANGED <<delivered, lost>>
    BY <1>3 DEF Commit, Rows, Stored, Over
  <2> QED
    BY <2>1
<1>4. CASE TaskFails \/ Crash
  BY <1>4 DEF TaskFails, Crash
<1>5. ASSUME Rows \subseteq Rows', UNCHANGED <<logged, delivered, lost>>
      PROVE  ArrivalsAreLogged'
  BY <1>5
<1>a. CASE Acknowledge
  BY <1>5, <1>a DEF Acknowledge, Rows, history
<1>6. CASE \/ ReadItems \/ NextUser
           \/ \E k \in Kinds : Receive(k)
           \/ \E u \in Users, n \in {1, 2} : LoadUser(u, n)
  <2>1. ASSUME ReadItems \/ \E k \in Kinds : Receive(k)
        PROVE  Rows \subseteq Rows'
    BY <2>1 DEF ReadItems, Receive, Rows, Idle
  <2>2. ASSUME NextUser
        PROVE  Rows \subseteq Rows'
    BY <2>2 DEF NextUser, Rows
  <2>3. ASSUME NEW u \in Users, NEW n \in {1, 2}, LoadUser(u, n)
        PROVE  Rows \subseteq Rows'
    BY <2>3 DEF LoadUser, Rows
  <2>4. Rows \subseteq Rows'
    BY <1>6, <2>1, <2>2, <2>3
  <2> QED
    BY <1>5, <1>6, <2>4 DEF ReadItems, NextUser, Receive, LoadUser, history
<1>7. ASSUME NEW u \in Users, NEW n \in {1, 2}, SkipUser(u, n)
      PROVE  ArrivalsAreLogged'
  <2>1. job \in Between
    BY <1>7 DEF SkipUser, JobOK, Idle, Reading, Between, Sending, Ended
  <2>2. job' = [job EXCEPT !.todo = @ \ {<<u, n>>}] /\ UNCHANGED <<logged, delivered, lost>>
    BY <1>7 DEF SkipUser, history
  <2>3. Rows' = Rows
    BY <2>1, <2>2 DEF Between, Rows
  <2> QED
    BY <1>5, <2>2, <2>3
<1>8. ASSUME NEW i \in Items, EditItem(i)
      PROVE  ArrivalsAreLogged'
  <2>1. Rows' = Rows
    <3>1. CASE job.step \in {"users", "send"}
      <4>1. job \in Between \union Sending
        BY <3>1 DEF JobOK, Idle, Reading, Ended
      <4>2. job' = [job EXCEPT !.changed = @ \union {i}]
        BY <1>8, <3>1 DEF EditItem, Touched
      <4> QED
        BY <4>1, <4>2 DEF Between, Sending, Rows
    <3>2. CASE job.step \notin {"users", "send"}
      BY <1>8, <3>2 DEF EditItem, Touched, Rows
    <3> QED
      BY <3>1, <3>2
  <2>2. UNCHANGED <<logged, delivered, lost>>
    BY <1>8 DEF EditItem, history
  <2> QED
    BY <1>5, <2>1, <2>2
<1>9. ASSUME NEW r \in Rules, SendNow(r)
      PROVE  ArrivalsAreLogged'
  <2>1. Rows' = Rows
    BY <1>9 DEF SendNow, Rows
  <2> QED
    BY <1>9, <2>1 DEF SendNow
<1>10. ASSUME UNCHANGED <<job, logged, delivered, lost>>
       PROVE  ArrivalsAreLogged'
  BY <1>5, <1>10 DEF Rows
<1>11. ASSUME NEW r \in Rules,
              \/ CreateRule(r) \/ ToggleRule(r) \/ DeleteRule(r)
              \/ \E c \in Configs : PatchConfig(r, c)
       PROVE  ArrivalsAreLogged'
  BY <1>10, <1>11, RuleLife
<1>12. CASE UNCHANGED vars \/ \E u \in Users : SetActive(u)
  BY <1>10, <1>12 DEF vars, SetActive, history
<1>13. CASE NewDay
  BY <1>13 DEF NewDay
<1> HIDE DEF NotificationInv, ArrivalsAreLogged
<1> QED
  BY <1>1, <1>2, <1>3, <1>4, <1>a, <1>6, <1>7, <1>8, <1>9, <1>11, <1>12, <1>13
  DEF Next, Work, Faults, Edits, TestRule, RunRule

(* What arrived again has arrived.                                         *)
LEMMA AgainStep ==
  ASSUME again \subseteq delivered, [Next]_vars
  PROVE  again' \subseteq delivered'
<1>1. ASSUME NEW r \in job.rest, SendForRule(r) \/ FlushFails(r)
      PROVE  again' \subseteq delivered'
  BY <1>1 DEF SendForRule, FlushFails, Arrival
<1>2. CASE NewDay \/ \E r \in Rules : SendNow(r)
  BY <1>2 DEF NewDay, SendNow
<1>3. CASE \/ ReadItems \/ NextUser \/ Commit \/ Acknowledge \/ TaskFails \/ Crash
           \/ \E k \in Kinds : Receive(k)
           \/ \E u \in Users, n \in {1, 2} : SkipUser(u, n) \/ LoadUser(u, n) \/ SetActive(u)
           \/ \E i \in Items : EditItem(i)
           \/ UNCHANGED vars
  BY <1>3 DEF ReadItems, NextUser, Commit, Acknowledge, TaskFails, Crash, Receive, SkipUser,
     LoadUser, SetActive, EditItem, vars, history
<1>4. ASSUME NEW r \in Rules,
             \/ CreateRule(r) \/ ToggleRule(r) \/ DeleteRule(r)
             \/ \E c \in Configs : PatchConfig(r, c)
      PROVE  again' \subseteq delivered'
  BY <1>4 DEF CreateRule, ToggleRule, DeleteRule, PatchConfig, history
<1> QED
  BY <1>1, <1>2, <1>3, <1>4 DEF Next, Work, Faults, Edits, TestRule, RunRule

(* What a run is about to send has arrived before only with a row that was *)
(* lost or stored without an acknowledgement: the log has no others for    *)
(* its rules, and its own rows are of others, or of a member with two rows.*)
Excused(x) == x[1] \in Doubled /\ rule[x[2]].type \in {"digest", "none"}
LEMMA SecondStep ==
  ASSUME NotificationInv, [Next]_vars
  PROVE  SecondNeedsLoss'
<1> USE DEF NotificationInv
<1>a. \A x \in again \ (lost \union unacked) : Excused(x)
  BY DEF SecondNeedsLoss, Excused
<1>1. ASSUME NEW r \in job.rest, job.step = "send", SendForRule(r)
      PROVE  SecondNeedsLoss'
  <2> DEFINE key == <<job.user, r[1]>>
  <2>1. /\ job.user \in Users /\ job # Idle /\ r \in job.rules
        /\ UNCHANGED <<rule, lost, unacked>>
    BY <1>1, SendForm DEF Sending, Idle, RowsAreDone
  <2>2. key \notin logged \ unacked
    BY <1>1, <2>1 DEF RulesOfJob
  <2>3. key \in Rows => Twice(job.user)
    BY <1>1 DEF RowsAreDone, Rows
  <2>4. Twice(job.user) => Excused(key)
    BY <2>1 DEF RulesOfJob, Twice, Excused, NoRule
  <2>5. key \in delivered \ (lost \union unacked) => Excused(key)
    BY <2>2, <2>3, <2>4 DEF ArrivalsAreLogged
  <2>6. \A x \in again' \ (lost \union unacked) : Excused(x)
    BY <1>1, <1>a, <2>5, SendArrives
  <2>7. \A x : Excused(x)' <=> Excused(x)
    BY <2>1 DEF Excused
  <2> QED
    BY <2>1, <2>6, <2>7 DEF SecondNeedsLoss, Excused
<1>2. ASSUME NEW r \in job.rest, job.step = "send", FlushFails(r)
      PROVE  SecondNeedsLoss'
  <2>1. lost' = lost \union job.rows \union {<<job.user, r[1]>>} /\ UNCHANGED <<rule, unacked>>
    BY <1>2 DEF FlushFails
  <2> QED
    BY <1>2, <2>1, SendArrives DEF SecondNeedsLoss
<1>3. CASE TaskFails \/ Crash \/ NewDay \/ \E r \in Rules : SendNow(r)
  BY <1>3 DEF TaskFails, Crash, NewDay, SendNow, SecondNeedsLoss
<1>4. ASSUME UNCHANGED <<rule, again, lost, unacked>>
      PROVE  SecondNeedsLoss'
  BY <1>4 DEF SecondNeedsLoss
<1>5. CASE \/ ReadItems \/ NextUser \/ Commit \/ Acknowledge
           \/ \E k \in Kinds : Receive(k)
           \/ \E u \in Users, n \in {1, 2} : SkipUser(u, n) \/ LoadUser(u, n) \/ SetActive(u)
           \/ \E i \in Items : EditItem(i)
           \/ UNCHANGED vars
  BY <1>4, <1>5
  DEF ReadItems, NextUser, Commit, Acknowledge, Receive, SkipUser, LoadUser, SetActive, EditItem,
      vars, history
<1>6. ASSUME NEW r \in Rules,
             \/ CreateRule(r) \/ ToggleRule(r) \/ DeleteRule(r)
             \/ \E c \in Configs : PatchConfig(r, c)
      PROVE  SecondNeedsLoss'
  <2>1. /\ UNCHANGED <<delivered, again, lost, unacked>> /\ \A q \in Rules \ {r} : rule'[q] = rule[q]
        /\ Fresh(r) \/ RuleStays(r)
    BY <1>6, RuleLife
  <2>2. ASSUME NEW x \in again \ (lost \union unacked)
        PROVE  x[1] \in Doubled /\ rule'[x[2]].type \in {"digest", "none"}
    <3>1. Excused(x) /\ x[2] \in Rules /\ x \in delivered
      BY <1>a, <2>2 DEF TypeOK
    <3>2. Fresh(r) => x[2] # r
      BY <3>1 DEF Fresh
    <3> QED
      BY <2>1, <3>1, <3>2 DEF RuleStays, Excused, NoRule
  <2> QED
    BY <2>1, <2>2 DEF SecondNeedsLoss
<1> HIDE DEF NotificationInv
<1> QED
  BY <1>1, <1>2, <1>3, <1>5, <1>6 DEF Next, Work, Faults, Edits, TestRule, RunRule
-----------------------------------------------------------------------------
(* Theorems *)

(* The parts of the invariant hold together, in every state.               *)
THEOREM NotificationInvariant == Spec => []NotificationInv
<1>1. Init => NotificationInv
  <2>1. Init => RulesOfJob /\ LoggedIsOver
    BY DEF Init, RulesOfJob, LoggedIsOver
  <2>2. Init => RowsAreDone /\ ItemsAsRead
    BY DEF Init, RowsAreDone, ItemsAsRead, Idle
  <2>3. Init => ArrivalsAreLogged /\ again \subseteq delivered /\ SecondNeedsLoss
    BY DEF Init, ArrivalsAreLogged, SecondNeedsLoss
  <2> QED
    BY <2>1, <2>2, <2>3, TypeInit DEF NotificationInv
<1>2. NotificationInv /\ [Next]_vars => NotificationInv'
  BY TypeStep, RulesStep, LoggedStep, RowsStep, ItemsStep, ArrivalsStep, AgainStep, SecondStep
  DEF NotificationInv
<1> QED
  BY <1>1, <1>2, PTL DEF Spec

(* A reminder that arrived is in the log, will be when its task commits,   *)
(* or had its row rolled back with the task: whatever fails and whoever    *)
(* edits rules meanwhile.                                                  *)
THEOREM ArrivalsLogged == Spec => []ArrivalsAreLogged
BY NotificationInvariant, PTL DEF NotificationInv

(* A user gets the message of a rule twice on a day only when the row of   *)
(* the first was lost with its task, or that task was delivered again      *)
(* after its commit, or for a digest to each of two rows of a member.      *)
THEOREM SecondsNeedLoss == Spec => []SecondNeedsLoss
BY NotificationInvariant, PTL DEF NotificationInv

(* A scheduled message goes out at a send or with a failing flush, and     *)
(* what it names is as the run has read it unless it was edited since.     *)
THEOREM Reminders == Spec => RemindersAreCurrent
<1>1. ASSUME NotificationInv
      PROVE  job.step = "send" /\ job' # job /\ delivered' # delivered =>
               \A i \in job.items[job.user] \ job.changed : item[i].owner = job.user /\ Open(i)
  BY <1>1 DEF NotificationInv, ItemsAsRead, Current
<1> QED
  BY <1>1, NotificationInvariant, PTL DEF RemindersAreCurrent
=============================================================================
