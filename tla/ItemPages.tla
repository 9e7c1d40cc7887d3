------------------------------ MODULE ItemPages ------------------------------
(***************************************************************************)
(* Action items in a browser tab: the review page of a meeting and the     *)
(* tracker, the cards that edit items (ActionItemCard.tsx), the queries    *)
(* that cache them (TanStack Query, external), and the API of items        *)
(* (items.py) behind them.                                                 *)
(*                                                                         *)
(* Both pages list the items of one meeting. An item has the fields of the *)
(* edit form, which differ only in whether they can be cleared, and the    *)
(* review flag, which stands for what a card changes without its form.     *)
(* Somebody else edits the same items. The API commits before it answers,  *)
(* or after it, as FastAPI has it from 0.118 on.                           *)
(***************************************************************************)
EXTENDS Naturals, FiniteSets

CONSTANTS
  Ids,       \* ids of rows
  Fields,    \* fields of the edit form
  Dates,     \* those that the form sends as null when they are empty: due_date
  Texts,     \* their values
  Empty,     \* the value of an empty field
  MaxSteps,  \* bound: steps of users, losses of answers and answers before a commit
  MaxCalls   \* bound: requests of the tab that change items and are under way

ASSUME ItemPagesAssumption ==
  Empty \in Texts /\ Empty # "none" /\ MaxSteps \in Nat /\ MaxCalls \in Nat

VARIABLES
  rows,    \* the table action_items
  view,    \* "none", "review", or "tracker"
  cache,   \* [Views -> the rows last fetched, or Nothing]
  invalid, \* [Views -> isInvalidated]
  failed,  \* [Views -> isError: the page shows an error instead of its cards]
  query,   \* [Views -> the fetch under way: its phase, and the rows it brings]
  cards,   \* [Ids -> the state of the mounted card]
  calls,   \* requests that change items: "sent", answered "ok" or "error" after the end of
           \* their transaction, or answered "early" and then "heard" before it
  own,     \* history: [Ids -> [Fields -> what the mounted card has typed and saved]]
  hasty,   \* history: a form was closed before the tab had caught up, or an answer came too soon
  steps    \* steps of users so far

Views == {"review", "tracker"}
None == "none"
Untouched == [f \in Fields |-> None]
NoRow == [origin |-> 0, text |-> Untouched, review |-> FALSE]
NoCard == [form |-> Untouched, typed |-> {}, editing |-> FALSE]
Nothing == <<>>
Idle == [phase |-> "idle", rows |-> Nothing]
Sent == [phase |-> "sent", rows |-> Nothing]
Fetched(listed) == [phase |-> "answered", rows |-> listed]
itemVars == <<rows, view, cache, invalid, failed, query, cards, calls, own, hasty, steps>>
queryVars == <<cache, invalid, failed, query>>
cardVars == <<cards, own, hasty>>

\* The table with row r under id i and nothing else.
Only(i, r) == [k \in Ids |-> IF k = i THEN r ELSE NoRow]

Counted == steps < MaxSteps /\ steps' = steps + 1

-----------------------------------------------------------------------------
(* Queries. *)

\* A card is mounted with the form of the item it is given.
Mounted(row) == [form |-> row.text, typed |-> {}, editing |-> FALSE]

\* The cards of the rows that are listed: one that stays where it is keeps its
\* state, and one that is new, or that moves between the section of items that
\* need review and the other one, is mounted.
Stays(i, listed, before) ==
  /\ cards[i] # NoCard /\ before # Nothing /\ before[i] # NoRow /\ listed[i] # NoRow
  /\ before[i].review = listed[i].review

CardsOf(listed, before) ==
  [i \in Ids |-> IF listed = Nothing \/ listed[i] = NoRow THEN NoCard
                 ELSE IF Stays(i, listed, before) THEN cards[i] ELSE Mounted(listed[i])]

\* list_items: the rows of the meeting, as committed.
ListItems(v) ==
  /\ query[v] = Sent /\ query' = [query EXCEPT ![v] = Fetched(rows)]
  /\ UNCHANGED <<rows, view, cache, invalid, failed, cardVars, calls, steps>>

\* The answer replaces the cache, also when it is older than an invalidation
\* that did not refetch, and the cards of the page that is shown follow.
QueryHeard(v) ==
  LET listed == query[v].rows IN
  /\ query[v].phase = "answered"
  /\ cache' = [cache EXCEPT ![v] = listed] /\ invalid' = [invalid EXCEPT ![v] = FALSE]
  /\ failed' = [failed EXCEPT ![v] = FALSE] /\ query' = [query EXCEPT ![v] = Idle]
  /\ IF v = view
     THEN /\ cards' = CardsOf(listed, cache[v])
          /\ own' = [i \in Ids |-> IF Stays(i, listed, cache[v]) THEN own[i] ELSE Untouched]
     ELSE UNCHANGED <<cards, own>>
  /\ UNCHANGED <<rows, view, calls, hasty, steps>>

\* Retries are over: the cache stays, and the page shows an error instead of
\* the cards, with whatever is typed in them.
QueryFails(v) ==
  /\ query[v] # Idle /\ Counted
  /\ query' = [query EXCEPT ![v] = Idle] /\ invalid' = [invalid EXCEPT ![v] = TRUE]
  /\ failed' = [failed EXCEPT ![v] = TRUE]
  /\ IF v = view
     THEN cards' = [i \in Ids |-> NoCard] /\ own' = [i \in Ids |-> Untouched]
     ELSE UNCHANGED <<cards, own>>
  /\ UNCHANGED <<rows, view, cache, calls, hasty>>

\* refetchOnWindowFocus, of a query whose staleTime is over.
Focus ==
  /\ view # "none" /\ query[view] = Idle /\ Counted
  /\ query' = [query EXCEPT ![view] = Sent]
  /\ UNCHANGED <<rows, view, cache, invalid, failed, cardVars, calls>>

\* Bug: a fetch under way is taken for the one that is asked for.
InvalidateKeepsFetch(vs) ==
  /\ invalid' = [v \in Views |-> invalid[v] \/ v \in vs]
  /\ query' = [v \in Views |-> IF v \in vs /\ v = view /\ query[v] = Idle THEN Sent ELSE query[v]]

\* invalidateQueries: the query of the shown page is fetched anew, and a fetch
\* it has under way is cancelled; that of another page goes on.
Invalidate(vs) ==
  /\ invalid' = [v \in Views |-> invalid[v] \/ v \in vs]
  /\ query' = [v \in Views |-> IF v \in vs /\ v = view THEN Sent ELSE query[v]]

-----------------------------------------------------------------------------
(* Pages. *)

\* The cards of a page that is opened: those of the cache.
FirstCards(v) == IF failed[v] THEN [i \in Ids |-> NoCard] ELSE CardsOf(cache[v], Nothing)

\* A page is mounted: it shows what the cache holds, and fetches when that is
\* nothing, invalidated or, as a choice of time, older than staleTime.
MountView(v) ==
  /\ view' = v /\ cards' = FirstCards(v)
  /\ own' = [i \in Ids |-> Untouched] /\ hasty' = FALSE
  /\ \E old \in BOOLEAN :
       query' = IF query[v] = Idle /\ (cache[v] = Nothing \/ invalid[v] \/ old)
                THEN [query EXCEPT ![v] = Sent] ELSE query
  /\ UNCHANGED <<rows, cache, invalid, failed, calls>>

OpenView(v) == view # v /\ MountView(v) /\ IF view = "none" THEN UNCHANGED steps ELSE Counted

-----------------------------------------------------------------------------
(* A card and its requests. *)

Mutate(call) ==
  /\ Cardinality(calls) < MaxCalls
  /\ calls' = calls \union {call}

\* A request of kind about row i, carrying the rows of data.
Call(kind, i, data) == [kind |-> kind, id |-> i, data |-> data, page |-> view, answer |-> "sent"]

\* Whether the tab shows what its own requests have made of the items.
CaughtUp == calls = {} /\ query[view] = Idle /\ ~invalid[view]

\* setIsEditing(true): the form shows what it held before.
Edit(i) ==
  /\ cards[i] # NoCard /\ ~cards[i].editing /\ Counted
  /\ cards' = [cards EXCEPT ![i].editing = TRUE]
  /\ UNCHANGED <<rows, view, queryVars, calls, own, hasty>>

Type(i, f, x) ==
  /\ cards[i] # NoCard /\ cards[i].editing /\ cards[i].form[f] # x
  /\ cards' = [cards EXCEPT ![i].form[f] = x, ![i].typed = @ \union {f}]
  /\ UNCHANGED <<rows, view, queryVars, calls, own, hasty, steps>>

\* An empty date is null in the request, which is as if it was not given.
Unset(f, x) == f \in Dates /\ x = Empty

\* The form stays as it was sent.
Saved(i) == [cards[i] EXCEPT !.typed = {}, !.editing = FALSE]

\* handleSaveEdit sends every field of the form, typed or not.
HandleSaveEdit(i) ==
  /\ cards[i] # NoCard /\ cards[i].editing
  /\ Mutate(Call("patch", i, Only(i, [NoRow EXCEPT !.text = cards[i].form])))
  /\ cards' = [cards EXCEPT ![i] = Saved(i)]
  /\ own' = [own EXCEPT ![i] = [f \in Fields |-> IF f \notin cards[i].typed THEN @[f]
                                              ELSE IF Unset(f, cards[i].form[f]) THEN None
                                              ELSE cards[i].form[f]]]
  /\ hasty' = (hasty \/ ~CaughtUp)
  /\ UNCHANGED <<rows, view, queryVars, steps>>

\* handleCancelEdit takes the form back to the item as the cache has it.
HandleCancelEdit(i) ==
  /\ cards[i] # NoCard /\ cards[i].editing
  /\ cards' = [cards EXCEPT ![i] = Mounted(cache[view][i])]
  /\ hasty' = (hasty \/ ~CaughtUp)
  /\ UNCHANGED <<rows, view, queryVars, calls, own, steps>>

\* The checkbox sends the one field it changes.
ToggleReviewed(i) ==
  /\ cards[i] # NoCard /\ ~cards[i].editing /\ Counted
  /\ Mutate(Call("review", i, Only(i, [NoRow EXCEPT !.review = ~cache[view][i].review])))
  /\ UNCHANGED <<rows, view, queryVars, cardVars>>

HandleDelete(i) ==
  /\ cards[i] # NoCard /\ ~cards[i].editing /\ Counted
  /\ Mutate(Call("delete", i, Nothing))
  /\ UNCHANGED <<rows, view, queryVars, cardVars>>

\* Confirm All sends the items of the cache.
HandleConfirmAll ==
  /\ view = "review" /\ ~failed[view] /\ cache[view] # Nothing /\ \E i \in Ids : cache[view][i] # NoRow
  /\ \A c \in calls : c.kind = "bulk" => c.answer = "heard"
  /\ Counted /\ Mutate(Call("bulk", 0, cache[view]))
  /\ UNCHANGED <<rows, view, queryVars, cardVars>>

-----------------------------------------------------------------------------
(* The API. *)

Applied(c, answer) == calls' = (calls \ {c}) \union {[c EXCEPT !.answer = answer]}

Merged(old, form) == [f \in Fields |-> IF Unset(f, form[f]) THEN old[f] ELSE form[f]]

\* update_item sets the fields it is given.
UpdateItem(c) ==
  /\ c.kind \in {"patch", "review"} /\ rows[c.id] # NoRow
  /\ rows' = IF c.kind = "patch" THEN [rows EXCEPT ![c.id].text = Merged(@, c.data[c.id].text)]
             ELSE [rows EXCEPT ![c.id].review = c.data[c.id].review]

DeleteItem(c) ==
  /\ c.kind = "delete" /\ rows[c.id] # NoRow
  /\ rows' = [rows EXCEPT ![c.id] = NoRow]

\* bulk_save_items inserts a row with a fresh id for every draft it is given.
BulkSaveItems(c) ==
  LET drafts == {i \in Ids : c.data[i] # NoRow}
      free == {i \in Ids : rows[i] = NoRow /\ \A v \in Views :
                 cache[v] # Nothing => cache[v][i] = NoRow}
  IN /\ c.kind = "bulk"
     /\ \E id \in [drafts -> free] :
          /\ \A i, j \in drafts : id[i] = id[j] => i = j
          /\ rows' = [k \in Ids |-> IF \E i \in drafts : id[i] = k
                                    THEN c.data[CHOOSE i \in drafts : id[i] = k] ELSE rows[k]]

Writes(c) == UpdateItem(c) \/ DeleteItem(c) \/ BulkSaveItems(c)

\* A request that is answered before its commit has locked the row it writes.
Uncommitted(c) == c.answer \in {"early", "heard"}
RowFree(i) == \A c \in calls : Uncommitted(c) => c.kind = "bulk" \/ c.id # i

Commits(c) ==
  /\ c.answer = "sent" /\ (c.kind # "bulk" => RowFree(c.id)) /\ Writes(c)
  /\ \/ Applied(c, "ok") /\ UNCHANGED <<own, hasty, steps>>
     \/ Counted /\ Applied(c, "error") /\ hasty' = TRUE /\ UNCHANGED own
  /\ UNCHANGED <<view, queryVars, cards>>

AnswersFirst(c) ==
  /\ c.answer = "sent" /\ (c.kind # "bulk" => rows[c.id] # NoRow /\ RowFree(c.id)) /\ Counted
  /\ Applied(c, "early")
  /\ UNCHANGED <<rows, view, queryVars, cardVars>>

\* The answer is ok whatever becomes of the commit.
CommitsLate(c) ==
  /\ Uncommitted(c)
  /\ \/ Writes(c) /\ UNCHANGED <<hasty, steps>>
     \/ Counted /\ hasty' = TRUE /\ UNCHANGED rows
  /\ IF c.answer = "heard" THEN calls' = calls \ {c} ELSE Applied(c, "ok")
  /\ UNCHANGED <<view, queryVars, cards, own>>

\* The item is gone, or the request or its transaction fails.
Refused(c) ==
  /\ c.answer = "sent" /\ Applied(c, "error") /\ hasty' = TRUE
  /\ \/ c.kind # "bulk" /\ rows[c.id] = NoRow /\ UNCHANGED steps
     \/ Counted
  /\ UNCHANGED <<rows, view, queryVars, cards, own>>

\* Bug: the review page invalidates the key of the tracker only.
InvalidatesTracker(c) == IF c.page = "review" /\ c.kind # "bulk" THEN {"tracker"} ELSE Views

\* The caches that a page invalidates once its request has been answered.
Invalidates(c) == IF c.page = "review" /\ c.kind # "bulk" THEN {"review"} ELSE Views

Succeeds(c) == c.answer \in {"ok", "early"}

\* What is answered before its commit is under way until then.
Heard(c) == IF c.answer = "early" THEN Applied(c, "heard") ELSE calls' = calls \ {c}

\* onSuccess, whether or not the page that has asked is still shown. Nothing
\* is invalidated after an error.
CallHeard(c) ==
  /\ c.answer \notin {"sent", "heard"} /\ Heard(c) /\ hasty' = (hasty \/ c.answer = "early")
  /\ IF Succeeds(c) /\ (c.kind # "bulk" \/ view = "tracker")
     THEN Invalidate(Invalidates(c)) ELSE UNCHANGED <<invalid, query>>
  /\ c.kind = "bulk" => ~Succeeds(c) \/ view = "tracker"
  /\ UNCHANGED <<rows, view, cache, failed, cards, own, steps>>

\* A bulk save that succeeds also opens the tracker, from wherever the tab is.
ConfirmedAll(c) ==
  /\ c.kind = "bulk" /\ Succeeds(c) /\ view # "tracker" /\ Heard(c)
  /\ view' = "tracker" /\ cards' = FirstCards("tracker")
  /\ own' = [i \in Ids |-> Untouched] /\ hasty' = FALSE
  /\ invalid' = [v \in Views |-> TRUE]
  /\ query' = [v \in Views |-> IF v = view \/ (v = "tracker" /\ query[v] = Idle)
                               THEN Sent ELSE query[v]]
  /\ UNCHANGED <<rows, cache, failed, steps>>

\* Somebody else edits an item, through the same API.
OthersEdit(i, f, x) ==
  /\ rows[i] # NoRow /\ rows[i].text[f] # x /\ ~Unset(f, x) /\ RowFree(i) /\ Counted
  /\ rows' = [rows EXCEPT ![i].text[f] = x]
  /\ own' = [own EXCEPT ![i][f] = None]
  /\ UNCHANGED <<view, queryVars, cards, calls, hasty>>

-----------------------------------------------------------------------------
ItemsInit(initial) ==
  /\ rows = initial /\ view = "none"
  /\ cache = [v \in Views |-> Nothing] /\ invalid = [v \in Views |-> FALSE]
  /\ failed = [v \in Views |-> FALSE]
  /\ query = [v \in Views |-> Idle]
  /\ cards = [i \in Ids |-> NoCard] /\ calls = {}
  /\ own = [i \in Ids |-> Untouched] /\ hasty = FALSE /\ steps = 0

\* Steps that leave the page that is shown as it is.
OnPage ==
  \/ Focus \/ HandleConfirmAll
  \/ \E v \in Views : ListItems(v) \/ QueryHeard(v) \/ QueryFails(v)
  \/ \E i \in Ids : \/ Edit(i) \/ HandleSaveEdit(i) \/ HandleCancelEdit(i)
                    \/ ToggleReviewed(i) \/ HandleDelete(i)
                    \/ \E f \in Fields, x \in Texts : Type(i, f, x) \/ OthersEdit(i, f, x)
  \/ \E c \in calls : Commits(c) \/ Refused(c) \/ AnswersFirst(c) \/ CommitsLate(c) \/ CallHeard(c)

Draft == [origin |-> CHOOSE i \in Ids : TRUE,
          text |-> [f \in Fields |-> CHOOSE x \in Texts : TRUE], review |-> TRUE]
OneItem == Only(Draft.origin, Draft)

ItemsNext == OnPage \/ (\E v \in Views : OpenView(v)) \/ (\E c \in calls : ConfirmedAll(c))

ItemsSpec == ItemsInit(OneItem) /\ [][ItemsNext]_itemVars

-----------------------------------------------------------------------------
(* Safety. *)

\* An edit the user has typed and saved in a card stands, while its page is
\* shown, until the user types something else there or somebody else edits the
\* field: the later saves of the card, each of which sends every field of a
\* form that is never taken from the item again (ActionItemCard.tsx,
\* handleSaveEdit), do not undo it. That takes the refetch after each answer
\* (ReviewPage.tsx and TrackerPage.tsx, onSuccess) to replace a fetch from
\* before, since Cancel takes the form from the cache.
\* Excepted are: clearing a date, which is not stored (items.py, update_item);
\* cards of a page left and opened since, which may show a cache that is older
\* than the edit and undo it with their next save; and cards whose form was
\* closed while the tab had not caught up with its last request, or whose page
\* has heard an answer before its commit.
OwnEditsStand ==
  calls = {} /\ ~hasty =>
    \A i \in Ids, f \in Fields :
      rows[i] # NoRow => own[i][f] \in {None, rows[i].text[f]}

\* The page shows what the user has typed and saved on it once its requests
\* have been answered and its query is idle and valid: no fetch that began
\* before an edit was committed is left to pass for the current items. The
\* exceptions are those of OwnEditsStand.
OwnEditsShow ==
  view # "none" /\ CaughtUp /\ ~hasty =>
    \A i \in Ids, f \in Fields : own[i][f] \in {None, cache[view][i].text[f]}

\* What api/items.ts says of Confirm All: "The server will update existing
\* items by ID." Then an extracted item is never there twice.
ConfirmUpdates ==
  \A i, j \in Ids :
    rows[i] # NoRow /\ rows[j] # NoRow /\ rows[i].origin = rows[j].origin => i = j

=============================================================================
