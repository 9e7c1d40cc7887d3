----------------------- MODULE IntegrationSyncProofs -----------------------
(***************************************************************************)
(* Theorems about IntegrationSync, for any number of items, configs,       *)
(* syncers and events.                                                     *)
(***************************************************************************)
EXTENDS IntegrationSync, FiniteSetTheorems, TLAPS

-----------------------------------------------------------------------------
(* The inductive invariant. *)

Pushes == {"one", "all"}
Pushed == {"push", "pushed", "refused"}

Names == StateNames \union {"open", NotFound}

Current ==
  {Idle}
  \union [step : {"push", "refused"}, item : Items, config : Configs, id : Nat]
  \union [step : {"pushed"}, item : Items, config : Configs, id : Nat, ext : Nat]
  \union [step : {"fetched"}, id : Nat, item : Items, config : Configs, status : Names]
  \union [step : {"finished"}, item : Items]

\* What a run keeps in memory, by its kind; one that is idle keeps nothing.
RunShape ==
  /\ current \in [Syncers -> Current]
  /\ DOMAIN todo = Syncers /\ DOMAIN writes = Syncers /\ dones \in [Syncers -> SUBSET Items]
  /\ \A s \in Syncers :
       /\ job[s] = "idle" => /\ todo[s] = {} /\ current[s] = Idle
                             /\ writes[s] = NoWrites /\ dones[s] = {}
       /\ job[s] \in Pushes => todo[s] \subseteq Items \X Configs
       /\ job[s] = "pull" => todo[s] \subseteq Nat \X Nat \X Items \X Configs
       /\ current[s].step \in Pushed => job[s] \in Pushes
       /\ current[s].step \in {"fetched", "finished"} => job[s] = "pull"

\* Row r is still that of the pair, or was deleted and does not come back.
Settled(r, i, c) ==
  /\ r \in DOMAIN refs
  /\ \/ refs[r] # NoRow /\ refs[r].item = i /\ refs[r].config = c
     \/ refs[r] = NoRow /\ \A t \in Syncers : r \notin DOMAIN writes[t]

Copy(e, i) == e \in DOMAIN external /\ external[e].item = i

\* What a run has read before still holds in this sense.
Remembers(s) ==
  /\ current[s].step \in Pushed /\ current[s].id # 0 =>
       Settled(current[s].id, current[s].item, current[s].config)
  /\ current[s].step = "pushed" => Copy(current[s].ext, current[s].item)
  /\ current[s].step = "fetched" =>
       /\ Settled(current[s].id, current[s].item, current[s].config)
       /\ Finished(current[s].status) => current[s].item \in closed
  /\ job[s] = "pull" =>
       \A x \in todo[s] : Settled(x[1], x[3], x[4]) /\ Copy(x[2], x[3])
MemoryHolds == \A s \in Syncers : Remembers(s)

\* A row that is flushed is its writer's alone.
WritesAlone ==
  \A s, t \in Syncers : s # t => DOMAIN writes[s] \intersect DOMAIN writes[t] = {}

\* Of an item that is there, of the pair that it was before, and naming a copy
\* if it did before.
Fits(s, r) ==
  /\ item[writes[s][r].item] # "deleted"
  /\ refs[r] = NoRow => job[s] \in Pushes
  /\ refs[r] # NoRow =>
       /\ writes[s][r].item = refs[r].item /\ writes[s][r].config = refs[r].config
       /\ writes[s][r].ext = NoExternal => refs[r].ext = NoExternal
WritesFit == \A s \in Syncers : \A r \in DOMAIN writes[s] : Fits(s, r)

\* A push run comes to each pair once.
OfPair(row, i, c) == row.item = i /\ row.config = c
ComesOnce(s) ==
  /\ \A x \in todo[s] :
       /\ current[s].step \in Pushed => ~OfPair(current[s], x[1], x[2])
       /\ \A r \in DOMAIN writes[s] : ~OfPair(writes[s][r], x[1], x[2])
  /\ current[s].step \in Pushed =>
       \A r \in DOMAIN writes[s] : ~OfPair(writes[s][r], current[s].item, current[s].config)
PairsOnce == \A s \in Syncers : job[s] \in Pushes => ComesOnce(s)

HasCopy(row) == row.sync = "synced" => row.ext # NoExternal
SyncedHaveCopies ==
  /\ \A r \in DOMAIN refs : refs[r] # NoRow => HasCopy(refs[r])
  /\ \A s \in Syncers : \A r \in DOMAIN writes[s] : HasCopy(writes[s][r])

\* What is finished in the tool is remembered, and an item that is to be done
\* is among the flushed rows.
DonesAreClosed ==
  /\ \A e \in DOMAIN external : external[e].state \in DoneStates => external[e].item \in closed
  /\ \A s \in Syncers :
       \A i \in dones[s] \union WantsItem(s) :
         i \in closed /\ \E r \in DOMAIN writes[s] : writes[s][r].item = i

\* Rows of a pair, committed or not, and pushes that are going to insert one.
Has(r, i, c) ==
  \/ refs[r] # NoRow /\ OfPair(refs[r], i, c)
  \/ \E s \in Syncers : r \in DOMAIN writes[s] /\ OfPair(writes[s][r], i, c)
WillInsert(s, i, c) ==
  current[s].step \in Pushed /\ OfPair(current[s], i, c) /\ current[s].id = 0

OneRowOfPair ==
  \A i \in Items, c \in Configs : <<i, c>> \notin overlap =>
    /\ \A r, q \in DOMAIN refs : Has(r, i, c) /\ Has(q, i, c) => r = q
    /\ \A s \in Syncers : WillInsert(s, i, c) =>
         /\ \A r \in DOMAIN refs : ~Has(r, i, c)
         /\ \A t \in Syncers : WillInsert(t, i, c) => t = s

IInv ==
  /\ TypeOK /\ RunShape /\ MemoryHolds
  /\ WritesAlone /\ WritesFit /\ PairsOnce /\ SyncedHaveCopies /\ DonesAreClosed
  /\ RefsNameTheirCopies /\ RefsHaveItems /\ OneRowOfPair /\ CopiesAreKnown

-----------------------------------------------------------------------------
(* Data. *)

\* No row is not a row.
LEMMA NoRowIsNone == NoRow \notin Row
<1>1. DOMAIN NoRow = {"item"}
  BY DEF NoRow
<1>2. \A row \in Row : "ext" \in DOMAIN row
  BY DEF Row
<1> QED
  BY <1>1, <1>2

\* What Append does.
LEMMA Appended ==
  ASSUME NEW S, NEW q \in Seq(S), NEW x \in S
  PROVE  /\ Append(q, x) \in Seq(S)
         /\ Len(q) + 1 \notin DOMAIN q
         /\ DOMAIN Append(q, x) = DOMAIN q \union {Len(q) + 1}
         /\ Append(q, x)[Len(q) + 1] = x
         /\ \A e \in DOMAIN q : Append(q, x)[e] = q[e]
OBVIOUS

\* What a sequence is made of.
LEMMA ElementOfSeq ==
  ASSUME NEW S, NEW q \in Seq(S)
  PROVE  \A e \in DOMAIN q : q[e] \in S
OBVIOUS

\* What an external item is.
LEMMA CopyTyped ==
  ASSUME TypeOK, NEW e \in DOMAIN external
  PROVE  e # NoExternal /\ external[e].item \in Items /\ external[e].state \in StateNames
<1>1. external \in Seq([item : Items, state : StateNames])
  BY DEF TypeOK
<1>2. external[e] \in [item : Items, state : StateNames]
  BY <1>1, ElementOfSeq
<1>3. e \in 1 .. Len(external)
  BY <1>1
<1> QED
  BY <1>2, <1>3 DEF NoExternal

\* What makes a sequence.
LEMMA IsASeq ==
  ASSUME NEW S, NEW n \in Nat, NEW f, f = [k \in 1 .. n |-> f[k]], \A k \in 1 .. n : f[k] \in S
  PROVE  f \in Seq(S)
OBVIOUS

\* What a run alone knows of is lost when it is rolled back.
LEMMA HeldIsUnsaved ==
  ASSUME TypeOK, NEW s \in Syncers, NEW e \in DOMAIN external, Held(s, e)
  PROVE  Named(e) \/ e \in Unsaved(s)
<1>1. e # NoExternal
  BY DEF TypeOK, NoExternal
<1> QED
  BY <1>1 DEF Held, Named, Unsaved

\* The initial states.
LEMMA InitIInv == Init => IInv
<1> SUFFICES ASSUME Init PROVE IInv
  OBVIOUS
<1> USE DEF Init
<1>1. TypeOK
  BY SyncAssumption DEF TypeOK, ItemStatuses, NoWrites, Row
<1>2. RunShape
  BY DEF RunShape, Current, Idle, Pushed, Pushes, NoWrites
<1>3. MemoryHolds /\ WritesAlone /\ WritesFit /\ PairsOnce
  BY DEF MemoryHolds, Remembers, WritesAlone, WritesFit, Fits, PairsOnce, ComesOnce, Idle, Pushed, Pushes, NoWrites
<1>4. SyncedHaveCopies /\ DonesAreClosed
  BY DEF SyncedHaveCopies, DonesAreClosed, Idle, NoWrites, WantsItem
<1>5. RefsNameTheirCopies /\ RefsHaveItems /\ CopiesAreKnown
  BY DEF RefsNameTheirCopies, RefsHaveItems, CopiesAreKnown, NoWrites
<1>6. OneRowOfPair
  BY DEF OneRowOfPair, Has, WillInsert, Idle, Pushed, NoWrites
<1> QED
  BY <1>1, <1>2, <1>3, <1>4, <1>5, <1>6 DEF IInv

\* A run that passes over a pair or a ref keeps the invariant.
LEMMA SkipKeeps ==
  ASSUME IInv, NEW s \in Syncers, NEW x \in todo[s], Skip(s, x),
         events' \in 0 .. MaxEvents
  PROVE  IInv'
<1> USE DEF Skip, IInv, rows, tool, history
<1>1. TypeOK'
  BY DEF TypeOK
<1>2. RunShape'
  BY DEF RunShape
<1>3. MemoryHolds'
  BY DEF MemoryHolds, Remembers, Settled, Copy, RunShape
<1>4. WritesAlone' /\ WritesFit' /\ SyncedHaveCopies'
  BY DEF WritesAlone, WritesFit, Fits, SyncedHaveCopies
<1>5. PairsOnce'
  BY DEF PairsOnce, ComesOnce, RunShape
<1>6. DonesAreClosed' /\ OneRowOfPair'
  BY DEF DonesAreClosed, WantsItem, OneRowOfPair, Has, WillInsert
<1>7. RefsNameTheirCopies' /\ RefsHaveItems' /\ CopiesAreKnown'
  BY DEF RefsNameTheirCopies, NamesItsCopy, RefsHaveItems, CopiesAreKnown, Known, Named, Held
<1> QED
  BY <1>1, <1>2, <1>3, <1>4, <1>5, <1>6, <1>7 DEF IInv

\* A run that is rolled back, whatever it had done, keeps the invariant.
LEMMA RollbackKeeps ==
  ASSUME IInv, NEW s \in Syncers, Rollback(s),
         UNCHANGED <<platform, rows, tool, admin, overlap, pushes>>,
         events' \in 0 .. MaxEvents
  PROVE  IInv'
<1> USE DEF Rollback, Stop, IInv, rows, tool
<1>1. TypeOK'
  BY DEF TypeOK, NoWrites
<1>2. RunShape'
  BY DEF RunShape, Current, Idle, Pushed, Pushes
<1>3. MemoryHolds'
  BY DEF MemoryHolds, Remembers, Settled, Copy, RunShape, Idle, Pushed, NoWrites
<1>4. WritesAlone' /\ WritesFit' /\ SyncedHaveCopies'
  BY DEF WritesAlone, WritesFit, Fits, SyncedHaveCopies, NoWrites, RunShape
<1>5. PairsOnce'
  <2> SUFFICES ASSUME NEW t \in Syncers, job'[t] \in Pushes
               PROVE  ComesOnce(t)'
    BY DEF PairsOnce
  <2>1. t # s
    BY DEF TypeOK, Pushes
  <2> QED
    BY <2>1 DEF PairsOnce, ComesOnce, RunShape, TypeOK
<1>6. DonesAreClosed'
  BY DEF DonesAreClosed, WantsItem, Idle, RunShape, NoWrites
<1>7. OneRowOfPair'
  BY DEF OneRowOfPair, Has, WillInsert, Idle, Pushed, RunShape, NoWrites
<1>8. RefsNameTheirCopies' /\ RefsHaveItems'
  BY DEF RefsNameTheirCopies, NamesItsCopy, RefsHaveItems, NoWrites, RunShape
<1>9. CopiesAreKnown'
  <2> SUFFICES ASSUME NEW e \in DOMAIN external PROVE Known(e)'
    BY DEF CopiesAreKnown
  <2>1. \A t \in Syncers \ {s} : Held(t, e) => Held(t, e)'
    BY DEF Held, RunShape
  <2>2. Held(s, e) => Named(e) \/ e \in lost'
    BY HeldIsUnsaved
  <2>3. Named(e) => Named(e)'
    BY DEF Named
  <2> QED
    BY <2>1, <2>2, <2>3 DEF CopiesAreKnown, Known
<1> QED
  BY <1>1, <1>2, <1>3, <1>4, <1>5, <1>6, <1>7, <1>8, <1>9 DEF IInv

-----------------------------------------------------------------------------
(* The start of a run. *)

\* The start of pushes keeps the invariant.
LEMMA StartPushKeeps ==
  ASSUME IInv, NEW s \in Syncers, NEW kind \in Pushes,
         NEW pairs \in SUBSET (Items \X Configs), StartPush(s, kind, pairs)
  PROVE  IInv'
<1> USE DEF StartPush, IInv, rows, tool, history
<1>1. TypeOK'
  <2>1. Cardinality({x \in pairs : Cardinality(RefsOf(x[1], x[2])) <= 1}) \in Nat
    <3>1. IsFiniteSet(Items \X Configs)
      BY SyncAssumption, FS_Product
    <3> QED
      BY <3>1, FS_Subset, FS_CardinalityType
  <2> QED
    BY <2>1, SyncAssumption DEF TypeOK, Pushes
<1>2. RunShape'
  BY DEF RunShape, TypeOK, Pushes, Pushed, Idle
<1>3. MemoryHolds'
  BY DEF MemoryHolds, Remembers, Settled, Copy, RunShape, TypeOK, Pushes, Pushed, Idle
<1>4. WritesAlone' /\ WritesFit' /\ SyncedHaveCopies'
  BY DEF WritesAlone, WritesFit, Fits, SyncedHaveCopies, RunShape, NoWrites, TypeOK
<1>5. PairsOnce'
  BY DEF PairsOnce, ComesOnce, RunShape, NoWrites, Idle, Pushed, TypeOK
<1>6. DonesAreClosed'
  BY DEF DonesAreClosed, WantsItem
<1>8. OneRowOfPair'
  BY DEF OneRowOfPair, Has, WillInsert
<1>7. RefsNameTheirCopies' /\ RefsHaveItems' /\ CopiesAreKnown'
  BY DEF RefsNameTheirCopies, NamesItsCopy, RefsHaveItems, CopiesAreKnown, Known, Named, Held
<1> QED
  BY <1>1, <1>2, <1>3, <1>4, <1>5, <1>6, <1>7, <1>8 DEF IInv

\* The start of a pull keeps the invariant.
LEMMA PullKeeps ==
  ASSUME IInv, NEW s \in Syncers, PullStatusUpdates(s)
  PROVE  IInv'
<1> USE DEF PullStatusUpdates, IInv, rows, tool, history
<1> DEFINE R == Synced({x \in DOMAIN refs : refs[x] # NoRow})
<1>0. \A r \in R : /\ r \in DOMAIN refs /\ refs[r] # NoRow /\ refs[r] \in Row
                   /\ refs[r].item \in Items /\ refs[r].config \in Configs
                   /\ refs[r].ext \in Nat /\ Copy(refs[r].ext, refs[r].item)
  <2> SUFFICES ASSUME NEW r \in R
               PROVE  /\ r \in DOMAIN refs /\ refs[r] # NoRow /\ refs[r] \in Row
                      /\ refs[r].item \in Items /\ refs[r].config \in Configs
                      /\ refs[r].ext \in Nat /\ Copy(refs[r].ext, refs[r].item)
    OBVIOUS
  <2>1. r \in DOMAIN refs /\ refs[r] # NoRow /\ refs[r].sync = "synced"
    BY DEF Synced
  <2>2. refs[r] \in Row
    BY <2>1 DEF TypeOK
  <2>3. Copy(refs[r].ext, refs[r].item)
    BY <2>1 DEF SyncedHaveCopies, HasCopy, RefsNameTheirCopies, NamesItsCopy, Copy
  <2> QED
    BY <2>1, <2>2, <2>3 DEF Row
<1>a. ASSUME NEW x \in todo'[s]
      PROVE  /\ x \in Nat \X Nat \X Items \X Configs
             /\ Settled(x[1], x[3], x[4]) /\ Copy(x[2], x[3])
  <2>1. PICK r \in R : x = <<r, refs[r].ext, refs[r].item, refs[r].config>>
    BY <1>a DEF RunShape
  <2>2. r \in Nat
    BY <1>0 DEF TypeOK
  <2> HIDE DEF R
  <2> QED
    BY <1>0, <2>1, <2>2 DEF Settled
<1>b. /\ job[s] = "idle" /\ job'[s] = "pull" /\ current[s] = Idle
      /\ \A t \in Syncers \ {s} : job'[t] = job[t] /\ todo'[t] = todo[t]
  BY DEF RunShape, TypeOK
<1>1. TypeOK'
  BY SyncAssumption DEF TypeOK
<1>2. RunShape'
  BY <1>a, <1>b DEF RunShape, Pushes, Pushed, Idle
<1>3. MemoryHolds'
  <2> SUFFICES ASSUME NEW t \in Syncers PROVE Remembers(t)'
    BY DEF MemoryHolds
  <2>1. CASE t = s
    <3>1. \A r, i, c : Settled(r, i, c) => Settled(r, i, c)'
      BY DEF Settled
    <3>2. \A e, i : Copy(e, i) => Copy(e, i)'
      BY DEF Copy
    <3>3. current'[s].step = "idle"
      BY <1>b DEF Idle
    <3>4. \A x \in todo'[s] : Settled(x[1], x[3], x[4])' /\ Copy(x[2], x[3])'
      BY <1>a, <3>1, <3>2
    <3> QED
      BY <2>1, <3>3, <3>4 DEF Remembers, Pushed
  <2>2. CASE t # s
    BY <1>b, <2>2 DEF MemoryHolds, Remembers, Settled, Copy
  <2> QED
    BY <2>1, <2>2
<1>4. WritesAlone' /\ WritesFit' /\ SyncedHaveCopies'
  BY DEF WritesAlone, WritesFit, Fits, SyncedHaveCopies, RunShape, NoWrites, TypeOK
<1>5. PairsOnce'
  BY DEF PairsOnce, ComesOnce, RunShape, TypeOK, Pushes
<1>6. DonesAreClosed'
  BY DEF DonesAreClosed, WantsItem
<1>8. OneRowOfPair'
  BY DEF OneRowOfPair, Has, WillInsert
<1>7. RefsNameTheirCopies' /\ RefsHaveItems' /\ CopiesAreKnown'
  BY DEF RefsNameTheirCopies, NamesItsCopy, RefsHaveItems, CopiesAreKnown, Known, Named, Held
<1> QED
  BY <1>1, <1>2, <1>3, <1>4, <1>5, <1>6, <1>7, <1>8 DEF IInv

-----------------------------------------------------------------------------
(* Steps of a run that write nothing. *)

\* The look-up of the existing ref keeps the invariant.
LEMMA FindRefKeeps ==
  ASSUME IInv, NEW s \in Syncers, FindRef(s)
  PROVE  IInv'
<1> USE DEF FindRef, IInv, rows, tool, counters
<1> PICK x \in todo[s] : FindRef(s)!(x)
  OBVIOUS
<1> DEFINE R == Existing(x[1], x[2])
<1>a. job[s] \in Pushes /\ x \in Items \X Configs /\ x = <<x[1], x[2]>>
  BY DEF Pushes, RunShape
<1>b. /\ current[s] = Idle /\ current'[s].step = "push" /\ current'[s].id \in Nat
      /\ current'[s].item = x[1] /\ current'[s].config = x[2]
      /\ current'[s] \in Current
      /\ current'[s].id = 0 => R = {}
      /\ current'[s].id # 0 => current'[s].id \in R
  <2>1. current[s] = Idle
    OBVIOUS
  <2>2. current'[s] = [step |-> "push", item |-> x[1], config |-> x[2],
                       id |-> IF R = {} THEN 0 ELSE CHOOSE r \in R : TRUE]
    BY DEF RunShape
  <2>3. R \subseteq Nat \ {0}
    BY DEF Existing, RefsOf, TypeOK
  <2>4. R # {} => (CHOOSE r \in R : TRUE) \in R
    OBVIOUS
  <2> QED
    BY <1>a, <2>1, <2>2, <2>3, <2>4 DEF Current
<1>c. \A t \in Syncers \ {s} : current'[t] = current[t] /\ todo'[t] = todo[t]
  BY DEF RunShape
<1>1. TypeOK'
  BY DEF TypeOK
<1>2. RunShape'
  BY <1>a, <1>b, <1>c DEF RunShape, Pushes, Pushed
<1>3. MemoryHolds'
  <2>1. R # {} => Settled(current'[s].id, x[1], x[2])
    BY <1>b DEF Settled, Existing, RefsOf
  <2> QED
    BY <1>b, <1>c, <2>1 DEF MemoryHolds, Remembers, Settled, Copy, RunShape
<1>4. WritesAlone' /\ WritesFit' /\ SyncedHaveCopies'
  BY DEF WritesAlone, WritesFit, Fits, SyncedHaveCopies
<1>5. PairsOnce'
  BY <1>a, <1>b, <1>c DEF PairsOnce, ComesOnce, RunShape, OfPair
<1>6. DonesAreClosed'
  BY <1>b, <1>c DEF DonesAreClosed, WantsItem
<1>7. RefsNameTheirCopies' /\ RefsHaveItems'
  BY DEF RefsNameTheirCopies, NamesItsCopy, RefsHaveItems
<1>8. CopiesAreKnown'
  BY <1>b, <1>c DEF CopiesAreKnown, Known, Named, Held, Idle
<1>9. OneRowOfPair'
  <2>1. ASSUME WillInsert(s, x[1], x[2])', x \notin overlap'
        PROVE  /\ \A r \in DOMAIN refs : ~Has(r, x[1], x[2])
               /\ \A t \in Syncers \ {s} : ~WillInsert(t, x[1], x[2])
    <3>1. R = {}
      BY <1>b, <2>1 DEF WillInsert
    <3>2. \A t \in Syncers \ {s} : ~Pushing(t, x[1], x[2])
      BY <2>1
    <3>3. \A r \in DOMAIN writes[s] : ~OfPair(writes[s][r], x[1], x[2])
      BY <1>a DEF PairsOnce, ComesOnce
    <3>4. \A t \in Syncers : \A r \in DOMAIN writes[t] :
            OfPair(writes[t][r], x[1], x[2]) => refs[r] # NoRow /\ OfPair(refs[r], x[1], x[2])
      BY <3>2, <3>3 DEF Pushing, WritesFit, Fits, OfPair, Pushes
    <3> QED
      BY <3>1, <3>2, <3>4 DEF Has, WillInsert, Existing, RefsOf, OfPair, Pushing, Pushed
  <2>2. \A t \in Syncers \ {s} : \A i, c : WillInsert(t, i, c)' => WillInsert(t, i, c)
    BY <1>c DEF WillInsert
  <2>3. \A i \in Items, c \in Configs : WillInsert(s, i, c)' => <<i, c>> = x
    BY <1>a, <1>b DEF WillInsert, OfPair
  <2>4. \A r, i, c : Has(r, i, c)' => Has(r, i, c)
    BY DEF Has
  <2>5. overlap \subseteq overlap'
    OBVIOUS
  <2> QED
    BY <2>1, <2>2, <2>3, <2>4, <2>5 DEF OneRowOfPair
<1> QED
  BY <1>1, <1>2, <1>3, <1>4, <1>5, <1>6, <1>7, <1>8, <1>9 DEF IInv

\* A copy that is created in the tool keeps the invariant.
LEMMA PushItemKeeps ==
  ASSUME IInv, NEW s \in Syncers, PushItem(s)
  PROVE  IInv'
<1> USE DEF PushItem, IInv, rows, history, counters
<1>n. PICK new : new = Len(external) + 1
  OBVIOUS
<1>a. /\ current[s] \in Current /\ current[s].step = "push"
      /\ current[s].item \in Items /\ current[s].config \in Configs /\ current[s].id \in Nat
      /\ job[s] \in Pushes
  BY DEF RunShape, Current, Idle, Pushed
<1>b. /\ current'[s] \in Current /\ current'[s].step = "pushed" /\ current'[s].ext = new
      /\ current'[s].item = current[s].item /\ current'[s].config = current[s].config
      /\ current'[s].id = current[s].id
  <2>1. current'[s] = [step |-> "pushed", item |-> current[s].item, config |-> current[s].config,
                       id |-> current[s].id, ext |-> new]
    BY <1>n DEF RunShape
  <2>2. new \in Nat
    BY <1>n DEF TypeOK
  <2> QED
    BY <1>a, <2>1, <2>2 DEF Current
<1>c. \A t \in Syncers \ {s} : current'[t] = current[t]
  BY DEF RunShape
<1>d. /\ Created(current[s].item) \in [item : Items, state : StateNames]
      /\ Created(current[s].item).item = current[s].item
      /\ Created(current[s].item).state \notin DoneStates
  BY <1>a DEF Created, AsanaTask, JiraIssue, LinearIssue, ClickUpTask, StateNames, DoneStates
<1>e. /\ external' \in Seq([item : Items, state : StateNames])
      /\ DOMAIN external' = DOMAIN external \union {new} /\ new \notin DOMAIN external
      /\ \A e \in DOMAIN external : external'[e] = external[e]
      /\ external'[new] = Created(current[s].item)
  <2> DEFINE row == Created(current[s].item)
  <2>1. external \in Seq([item : Items, state : StateNames]) /\ row \in [item : Items, state : StateNames]
    BY <1>d DEF TypeOK
  <2>2. external' = Append(external, row)
    OBVIOUS
  <2> HIDE DEF row
  <2>3. /\ external' \in Seq([item : Items, state : StateNames])
        /\ DOMAIN external' = DOMAIN external \union {new} /\ new \notin DOMAIN external
        /\ \A e \in DOMAIN external : external'[e] = external[e]
        /\ external'[new] = row
    BY ONLY <1>n, <2>1, <2>2, Appended
  <2> QED
    BY <2>3 DEF row
<1>1. TypeOK'
  BY <1>e DEF TypeOK
<1>2. RunShape'
  BY <1>a, <1>b, <1>c DEF RunShape, Pushes, Pushed
<1>3. MemoryHolds'
  <2>1. \A e, i : Copy(e, i) => Copy(e, i)'
    BY <1>e DEF Copy
  <2>2. \A r, i, c : Settled(r, i, c) => Settled(r, i, c)'
    BY DEF Settled
  <2>3. Remembers(s)'
    BY <1>a, <1>b, <1>d, <1>e, <2>2 DEF MemoryHolds, Remembers, Copy, Pushed, Pushes
  <2>4. ASSUME NEW t \in Syncers \ {s} PROVE Remembers(t)'
    BY <1>c, <2>1, <2>2 DEF MemoryHolds, Remembers
  <2> QED
    BY <2>3, <2>4 DEF MemoryHolds
<1>4. WritesAlone' /\ WritesFit' /\ SyncedHaveCopies' /\ RefsHaveItems'
  BY DEF WritesAlone, WritesFit, Fits, SyncedHaveCopies, RefsHaveItems
<1>5. PairsOnce'
  BY <1>a, <1>b, <1>c DEF PairsOnce, ComesOnce, OfPair, Pushed
<1>6. DonesAreClosed'
  BY <1>b, <1>c, <1>d, <1>e DEF DonesAreClosed, WantsItem
<1>7. RefsNameTheirCopies'
  <2>1. \A row : NamesItsCopy(row) => NamesItsCopy(row)'
    BY <1>e DEF NamesItsCopy
  <2> QED
    BY <2>1 DEF RefsNameTheirCopies
<1>8. CopiesAreKnown'
  <2>1. \A e \in DOMAIN external : Known(e) => Known(e)'
    BY <1>a, <1>c, <1>e DEF Known, Named, Held
  <2>2. Known(new)'
    <3>1. Held(s, new)'
      BY <1>b DEF Held
    <3> QED
      BY <3>1 DEF Known
  <2> QED
    BY <1>e, <2>1, <2>2 DEF CopiesAreKnown
<1>9. OneRowOfPair'
  <2>1. \A t \in Syncers : \A i, c : WillInsert(t, i, c)' <=> WillInsert(t, i, c)
    BY <1>a, <1>b, <1>c DEF WillInsert, OfPair, Pushed
  <2>2. \A r, i, c : Has(r, i, c)' <=> Has(r, i, c)
    BY DEF Has
  <2> QED
    BY <2>1, <2>2 DEF OneRowOfPair
<1> QED
  BY <1>1, <1>2, <1>3, <1>4, <1>5, <1>6, <1>7, <1>8, <1>9 DEF IInv

\* A push that the tool refuses keeps the invariant.
LEMMA PushFailsKeeps ==
  ASSUME IInv, NEW s \in Syncers, PushFails(s)
  PROVE  IInv'
<1> USE DEF PushFails, IInv, rows, tool, history
<1>a. /\ current[s].step = "push" /\ current[s].item \in Items /\ current[s].config \in Configs
      /\ current[s].id \in Nat /\ job[s] \in Pushes
      /\ current[s] \in [step : {"push", "refused"}, item : Items, config : Configs, id : Nat]
  BY DEF RunShape, Current, Idle, Pushed
<1>b. /\ current'[s] \in Current /\ current'[s].step = "refused"
      /\ current'[s].item = current[s].item /\ current'[s].config = current[s].config
      /\ current'[s].id = current[s].id
  <2>1. current'[s] = [current[s] EXCEPT !.step = "refused"]
    BY DEF RunShape
  <2> QED
    BY <1>a, <2>1 DEF Current
<1>c. \A t \in Syncers \ {s} : current'[t] = current[t]
  BY DEF RunShape
<1>1. TypeOK'
  BY SyncAssumption DEF TypeOK
<1>2. RunShape'
  BY <1>a, <1>b, <1>c DEF RunShape, Pushes, Pushed
<1>3. MemoryHolds'
  <2>1. \A r, i, c : Settled(r, i, c) => Settled(r, i, c)'
    BY DEF Settled
  <2>2. Remembers(s)'
    BY <1>a, <1>b, <2>1 DEF MemoryHolds, Remembers, Pushed, Pushes
  <2>3. ASSUME NEW t \in Syncers \ {s} PROVE Remembers(t)'
    BY <1>c, <2>1 DEF MemoryHolds, Remembers, Copy
  <2> QED
    BY <2>2, <2>3 DEF MemoryHolds
<1>4. WritesAlone' /\ WritesFit' /\ SyncedHaveCopies' /\ RefsHaveItems' /\ RefsNameTheirCopies'
  BY DEF WritesAlone, WritesFit, Fits, SyncedHaveCopies, RefsHaveItems, RefsNameTheirCopies, NamesItsCopy
<1>5. PairsOnce'
  BY <1>a, <1>b, <1>c DEF PairsOnce, ComesOnce, OfPair, Pushed
<1>6. DonesAreClosed'
  BY <1>b, <1>c DEF DonesAreClosed, WantsItem
<1>7. CopiesAreKnown'
  BY <1>a, <1>b, <1>c DEF CopiesAreKnown, Known, Named, Held
<1>8. OneRowOfPair'
  <2>1. \A t \in Syncers : \A i, c : WillInsert(t, i, c)' <=> WillInsert(t, i, c)
    BY <1>a, <1>b, <1>c DEF WillInsert, OfPair, Pushed
  <2>2. \A r, i, c : Has(r, i, c)' <=> Has(r, i, c)
    BY DEF Has
  <2> QED
    BY <2>1, <2>2 DEF OneRowOfPair
<1> QED
  BY <1>1, <1>2, <1>3, <1>4, <1>5, <1>6, <1>7, <1>8 DEF IInv

\* A status that the tool reports as finished is one of a finished state.
LEMMA FinishedIsDone ==
  ASSUME NEW state \in StateNames
  PROVE  /\ StatusName(state) \in Names
         /\ Finished(StatusName(state)) => state \in DoneStates
BY DEF StatusName, AsanaStatus, JiraStatus, LinearStatus, ClickUpStatus, NotFound, Names,
       StateNames, DoneStates, Finished

\* A pull that asks for the status of a copy keeps the invariant.
LEMMA FetchStatusKeeps ==
  ASSUME IInv, NEW s \in Syncers, FetchStatus(s)
  PROVE  IInv'
<1> USE DEF FetchStatus, IInv, rows, tool, history, counters
<1> PICK x \in todo[s] : FetchStatus(s)!(x)
  OBVIOUS
<1>a. /\ job[s] = "pull" /\ x \in Nat \X Nat \X Items \X Configs
      /\ Settled(x[1], x[3], x[4]) /\ Copy(x[2], x[3])
  BY DEF RunShape, MemoryHolds, Remembers
<1>s. /\ StatusName(external[x[2]].state) \in Names
      /\ Finished(StatusName(external[x[2]].state)) => x[3] \in closed
  <2>0. \A e \in DOMAIN external : external[e] \in [item : Items, state : StateNames]
    BY ElementOfSeq DEF TypeOK
  <2>1. x[2] \in DOMAIN external /\ external[x[2]].item = x[3] /\ external[x[2]].state \in StateNames
    BY <1>a, <2>0 DEF Copy
  <2> QED
    BY <2>1, FinishedIsDone DEF DonesAreClosed
<1>b. /\ current[s].step = "idle" /\ current'[s].step = "fetched" /\ current'[s] \in Current
      /\ current'[s].id = x[1] /\ current'[s].item = x[3] /\ current'[s].config = x[4]
      /\ Finished(current'[s].status) => x[3] \in closed
  <2>1. current'[s] = [step |-> "fetched", id |-> x[1], item |-> x[3], config |-> x[4],
                       status |-> StatusName(external[x[2]].state)]
    BY DEF RunShape
  <2> QED
    BY <1>a, <1>s, <2>1 DEF Current, Idle
<1>c. \A t \in Syncers \ {s} : current'[t] = current[t] /\ todo'[t] = todo[t]
  BY DEF RunShape
<1>d. todo'[s] = todo[s] \ {x}
  BY DEF RunShape
<1>1. TypeOK'
  BY DEF TypeOK
<1>2. RunShape'
  BY <1>a, <1>b, <1>c, <1>d DEF RunShape, Pushes, Pushed
<1>3. MemoryHolds'
  <2>1. \A r, i, c : Settled(r, i, c) => Settled(r, i, c)'
    BY DEF Settled
  <2>2. Remembers(s)'
    BY <1>a, <1>b, <1>d, <2>1 DEF MemoryHolds, Remembers, Copy, Pushed
  <2>3. ASSUME NEW t \in Syncers \ {s} PROVE Remembers(t)'
    BY <1>c, <2>1 DEF MemoryHolds, Remembers, Copy
  <2> QED
    BY <2>2, <2>3 DEF MemoryHolds
<1>4. WritesAlone' /\ WritesFit' /\ SyncedHaveCopies' /\ RefsHaveItems' /\ RefsNameTheirCopies'
  BY DEF WritesAlone, WritesFit, Fits, SyncedHaveCopies, RefsHaveItems, RefsNameTheirCopies, NamesItsCopy
<1>5. PairsOnce'
  BY <1>a, <1>c DEF PairsOnce, ComesOnce, Pushes
<1>6. DonesAreClosed'
  BY <1>b, <1>c DEF DonesAreClosed, WantsItem
<1>7. CopiesAreKnown'
  BY <1>b, <1>c DEF CopiesAreKnown, Known, Named, Held
<1>8. OneRowOfPair'
  <2>1. \A t \in Syncers : \A i, c : WillInsert(t, i, c)' => WillInsert(t, i, c)
    BY <1>b, <1>c DEF WillInsert, Pushed
  <2>2. \A r, i, c : Has(r, i, c)' <=> Has(r, i, c)
    BY DEF Has
  <2> QED
    BY <2>1, <2>2 DEF OneRowOfPair
<1> QED
  BY <1>1, <1>2, <1>3, <1>4, <1>5, <1>6, <1>7, <1>8 DEF IInv

\* A pull that sets an item to "Done" keeps the invariant.
LEMMA MarkDoneKeeps ==
  ASSUME IInv, NEW s \in Syncers, MarkDone(s)
  PROVE  IInv'
<1> USE DEF MarkDone, IInv, rows, tool, history, counters
<1>a. /\ current[s].step = "finished" /\ current[s].item \in Items /\ job[s] = "pull"
  BY DEF RunShape, Current, Idle
<1>b. current'[s] = Idle /\ dones'[s] = dones[s] \union {current[s].item}
  BY DEF RunShape
<1>c. \A t \in Syncers \ {s} : current'[t] = current[t] /\ dones'[t] = dones[t]
  BY DEF RunShape
<1>1. TypeOK'
  BY <1>a, <1>b, <1>c DEF TypeOK
<1>2. RunShape'
  BY <1>a, <1>b, <1>c DEF RunShape, Pushes, Pushed, Current, Idle
<1>3. MemoryHolds'
  <2>1. \A r, i, c : Settled(r, i, c) => Settled(r, i, c)'
    BY DEF Settled
  <2>2. Remembers(s)'
    BY <1>a, <1>b, <2>1 DEF MemoryHolds, Remembers, Copy, Pushed, Idle
  <2>3. ASSUME NEW t \in Syncers \ {s} PROVE Remembers(t)'
    BY <1>c, <2>1 DEF MemoryHolds, Remembers, Copy
  <2> QED
    BY <2>2, <2>3 DEF MemoryHolds
<1>4. WritesAlone' /\ WritesFit' /\ SyncedHaveCopies' /\ RefsHaveItems' /\ RefsNameTheirCopies'
  BY DEF WritesAlone, WritesFit, Fits, SyncedHaveCopies, RefsHaveItems, RefsNameTheirCopies, NamesItsCopy
<1>5. PairsOnce'
  BY <1>a, <1>c DEF PairsOnce, ComesOnce, Pushes
<1>6. DonesAreClosed'
  BY <1>a, <1>b, <1>c DEF DonesAreClosed, WantsItem, Idle
<1>7. CopiesAreKnown'
  BY <1>a, <1>b, <1>c DEF CopiesAreKnown, Known, Named, Held, Idle
<1>8. OneRowOfPair'
  <2>1. \A t \in Syncers : \A i, c : WillInsert(t, i, c)' => WillInsert(t, i, c)
    BY <1>b, <1>c DEF WillInsert, Pushed, Idle
  <2>2. \A r, i, c : Has(r, i, c)' <=> Has(r, i, c)
    BY DEF Has
  <2> QED
    BY <2>1, <2>2 DEF OneRowOfPair
<1> QED
  BY <1>1, <1>2, <1>3, <1>4, <1>5, <1>6, <1>7, <1>8 DEF IInv

-----------------------------------------------------------------------------
(* Steps of a run that write. *)

\* A row that is written again, of the same pair and with a copy if it had one,
\* keeps the invariant.
LEMMA OverwriteKeeps ==
  ASSUME IInv, NEW s \in Syncers, NEW r, NEW row \in Row, NEW next,
         next = Idle \/ next \in [step : {"finished"}, item : Items],
         current[s].step \in {"pushed", "refused", "fetched"},
         r = current[s].id, r # 0, refs[r] # NoRow,
         Granted(s), Flush(s, r, row, next), UNCHANGED refs,
         OfPair(row, refs[r].item, refs[r].config),
         row.ext = NoExternal => refs[r].ext = NoExternal,
         HasCopy(row), NamesItsCopy(row),
         current[s].step = "pushed" => row.ext = current[s].ext,
         current[s].step = "fetched" => row.ext = Seen(s, r).ext,
         next # Idle => current[s].step = "fetched" /\ row.item \in closed /\ next.item = row.item
  PROVE  IInv'
<1> USE DEF Flush, IInv, rows, tool, history, counters
<1>a. /\ r \in DOMAIN refs /\ OfPair(row, current[s].item, current[s].config)
      /\ OfPair(refs[r], current[s].item, current[s].config)
      /\ job[s] # "idle" /\ (current[s].step = "fetched" => job[s] = "pull")
      /\ (current[s].step # "fetched" => job[s] \in Pushes)
  BY DEF MemoryHolds, Remembers, Settled, RunShape, Pushed, OfPair, Idle, Pushes
<1>b. /\ current'[s] = next /\ next \in Current
      /\ next.step = "finished" => job[s] = "pull"
      /\ next.step \in {"idle", "finished"}
  BY <1>a DEF RunShape, Current, Idle
<1>c. \A t \in Syncers \ {s} : current'[t] = current[t] /\ writes'[t] = writes[t]
  BY DEF RunShape
<1>d. /\ DOMAIN writes'[s] = DOMAIN writes[s] \union {r}
      /\ writes'[s][r] = row
      /\ \A q \in DOMAIN writes[s] \ {r} : writes'[s][q] = writes[s][q]
  BY DEF RunShape
<1>e. job[s] \in Pushes => r \notin DOMAIN writes[s]
  BY <1>a DEF PairsOnce, ComesOnce, Pushed, RunShape, Pushes, WritesFit, Fits, OfPair
<1>f. \A q, i, c : Has(q, i, c)' => Has(q, i, c)
  <2> SUFFICES ASSUME NEW q, NEW i, NEW c, Has(q, i, c)' PROVE Has(q, i, c)
    OBVIOUS
  <2>1. CASE refs[q] # NoRow /\ OfPair(refs[q], i, c)
    BY <2>1 DEF Has
  <2>2. ASSUME NEW t \in Syncers, q \in DOMAIN writes'[t], OfPair(writes'[t][q], i, c)
        PROVE  Has(q, i, c)
    <3>1. CASE t = s /\ q = r
      BY <1>a, <1>d, <2>2, <3>1 DEF Has, OfPair
    <3>2. CASE t # s \/ q # r
      BY <1>c, <1>d, <2>2, <3>2 DEF Has
    <3> QED
      BY <3>1, <3>2
  <2> QED
    BY <2>1, <2>2 DEF Has, OfPair
<1>1. TypeOK'
  BY <1>a, <1>c, <1>d DEF TypeOK
<1>2. RunShape'
  BY <1>a, <1>b, <1>c DEF RunShape, Pushes, Pushed
<1>3. MemoryHolds'
  <2>1. \A q, i, c : Settled(q, i, c) => Settled(q, i, c)'
    BY <1>c, <1>d DEF Settled
  <2>2. Remembers(s)'
    BY <1>a, <1>b, <2>1 DEF MemoryHolds, Remembers, Copy, Pushed
  <2>3. ASSUME NEW t \in Syncers \ {s} PROVE Remembers(t)'
    BY <1>c, <2>1 DEF MemoryHolds, Remembers, Copy
  <2> QED
    BY <2>2, <2>3 DEF MemoryHolds
<1>4. WritesAlone'
  <2>1. \A t \in Syncers \ {s} : r \notin DOMAIN writes[t]
    BY DEF Granted, Blocked, WantsRef
  <2> QED
    BY <1>c, <1>d, <2>1 DEF WritesAlone
<1>5. WritesFit'
  <2>1. item[row.item] # "deleted"
    BY <1>a DEF RefsHaveItems, OfPair
  <2>2. Fits(s, r)'
    BY <1>d, <2>1 DEF Fits, OfPair
  <2>3. \A q \in DOMAIN writes[s] \ {r} : Fits(s, q)'
    BY <1>d DEF WritesFit, Fits
  <2>4. \A t \in Syncers \ {s} : \A q \in DOMAIN writes[t] : Fits(t, q)'
    BY <1>c DEF WritesFit, Fits
  <2> QED
    BY <1>c, <1>d, <2>2, <2>3, <2>4 DEF WritesFit
<1>6. PairsOnce'
  <2>1. ASSUME job[s] \in Pushes PROVE ComesOnce(s)'
    <3>1. ComesOnce(s) /\ current[s].step \in Pushed
      BY <1>a, <2>1 DEF PairsOnce, Pushed, Pushes
    <3>2. current'[s].step = "idle"
      BY <1>b, <2>1 DEF Pushes
    <3> QED
      BY <1>a, <1>d, <3>1, <3>2 DEF ComesOnce, OfPair, Pushed
  <2>2. ASSUME NEW t \in Syncers \ {s}, job[t] \in Pushes PROVE ComesOnce(t)'
    BY <1>c, <2>2 DEF PairsOnce, ComesOnce
  <2> QED
    BY <2>1, <2>2 DEF PairsOnce
<1>7. SyncedHaveCopies' /\ RefsNameTheirCopies' /\ RefsHaveItems'
  <2>1. SyncedHaveCopies'
    BY <1>c, <1>d DEF SyncedHaveCopies
  <2>2. RefsNameTheirCopies'
    <3>1. \A w : NamesItsCopy(w)' <=> NamesItsCopy(w)
      BY DEF NamesItsCopy
    <3>2. \A q \in DOMAIN refs' : refs'[q] # NoRow => NamesItsCopy(refs'[q])
      BY DEF RefsNameTheirCopies
    <3>3. \A q \in DOMAIN writes'[s] : NamesItsCopy(writes'[s][q])
      BY ONLY <1>d, NamesItsCopy(row), RefsNameTheirCopies DEF RefsNameTheirCopies
    <3>4. \A t \in Syncers \ {s} : \A q \in DOMAIN writes'[t] : NamesItsCopy(writes'[t][q])
      BY ONLY <1>c, RefsNameTheirCopies DEF RefsNameTheirCopies
    <3> QED
      BY ONLY <3>1, <3>2, <3>3, <3>4 DEF RefsNameTheirCopies
  <2>3. RefsHaveItems'
    BY DEF RefsHaveItems
  <2> QED
    BY <2>1, <2>2, <2>3
<1>8. DonesAreClosed'
  <2>1. \A i \in dones[s] : i \in closed /\ \E q \in DOMAIN writes'[s] : writes'[s][q].item = i
    BY <1>d DEF DonesAreClosed, WritesFit, Fits, OfPair
  <2>2. \A i \in WantsItem(s)' : i \in closed /\ \E q \in DOMAIN writes'[s] : writes'[s][q].item = i
    <3>1. next.step = "finished" => next # Idle
      BY DEF Idle
    <3>2. \A i \in WantsItem(s)' : next # Idle /\ i = next.item
      BY <1>b, <3>1 DEF WantsItem
    <3>3. r \in DOMAIN writes'[s] /\ writes'[s][r].item = row.item
      BY <1>d
    <3> QED
      BY <3>2, <3>3
  <2>3. \A t \in Syncers \ {s} : WantsItem(t)' = WantsItem(t)
    BY <1>c DEF WantsItem
  <2>4. \A t \in Syncers \ {s} : \A i \in dones[t] \union WantsItem(t)' :
          i \in closed /\ \E q \in DOMAIN writes'[t] : writes'[t][q].item = i
    BY <1>c, <2>3 DEF DonesAreClosed
  <2>7. dones' = dones /\ closed' = closed
    OBVIOUS
  <2>5. \A t \in Syncers : \A i \in dones'[t] \union WantsItem(t)' :
          i \in closed' /\ \E q \in DOMAIN writes'[t] : writes'[t][q].item = i
    BY ONLY <2>1, <2>2, <2>4, <2>7 DEF WantsItem
  <2>6. \A e \in DOMAIN external' : external'[e].state \in DoneStates => external'[e].item \in closed'
    BY DEF DonesAreClosed
  <2> QED
    BY ONLY <2>5, <2>6 DEF DonesAreClosed
<1>9. CopiesAreKnown'
  <2>1. ASSUME NEW e \in DOMAIN external, Held(s, e) PROVE Held(s, e)'
    <3>1. CASE \E q \in DOMAIN writes[s] : writes[s][q].ext = e
      BY <1>a, <1>d, <1>e, <3>1 DEF Held, Seen
    <3>2. CASE current[s].step = "pushed" /\ current[s].ext = e
      BY <1>d, <3>2 DEF Held
    <3> QED
      BY <2>1, <3>1, <3>2 DEF Held
  <2>2. \A t \in Syncers \ {s} : \A e : Held(t, e) => Held(t, e)'
    BY <1>c DEF Held
  <2>3. \A e : Named(e) => Named(e)'
    BY DEF Named
  <2> QED
    BY <2>1, <2>2, <2>3 DEF CopiesAreKnown, Known
<1>10. OneRowOfPair'
  <2>1. \A t \in Syncers : \A i, c : WillInsert(t, i, c)' => WillInsert(t, i, c)
    BY <1>b, <1>c DEF WillInsert, Pushed
  <2> QED
    BY <1>f, <2>1 DEF OneRowOfPair
<1> QED
  BY <1>1, <1>2, <1>3, <1>4, <1>5, <1>6, <1>7, <1>8, <1>9, <1>10 DEF IInv

\* The row that a run sees of a ref that is there is one of the same pair, and
\* names a copy if the ref does.
LEMMA SeenFits ==
  ASSUME IInv, NEW s \in Syncers, NEW r \in DOMAIN refs, refs[r] # NoRow
  PROVE  /\ Seen(s, r) \in Row /\ OfPair(Seen(s, r), refs[r].item, refs[r].config)
         /\ Seen(s, r).ext = NoExternal => refs[r].ext = NoExternal
         /\ HasCopy(Seen(s, r)) /\ NamesItsCopy(Seen(s, r))
<1>1. CASE r \in DOMAIN writes[s]
  BY <1>1 DEF IInv, TypeOK, WritesFit, Fits, Seen, OfPair, SyncedHaveCopies, RefsNameTheirCopies
<1>2. CASE r \notin DOMAIN writes[s]
  BY <1>2 DEF IInv, TypeOK, Seen, OfPair, SyncedHaveCopies, RefsNameTheirCopies
<1> QED
  BY <1>1, <1>2

\* A push that updates the ref it found keeps the invariant.
LEMMA UpdateRefKeeps ==
  ASSUME IInv, NEW s \in Syncers, UpdateRef(s)
  PROVE  IInv'
<1> DEFINE cur == current[s]
           old == Seen(s, cur.id)
           row == IF cur.step = "pushed" THEN [old EXCEPT !.ext = cur.ext, !.sync = "synced"]
                                         ELSE Failed(s, old)
<1>1. /\ cur.step \in {"pushed", "refused"} /\ cur.id # 0 /\ Granted(s) /\ refs[cur.id] # NoRow
      /\ Flush(s, cur.id, row, Idle) /\ UNCHANGED refs
  BY DEF UpdateRef
<1>2. /\ cur.id \in DOMAIN refs /\ OfPair(refs[cur.id], cur.item, cur.config)
      /\ cur.step = "pushed" => Copy(cur.ext, cur.item) /\ cur.ext \in Nat /\ cur.ext # NoExternal
  BY <1>1 DEF IInv, MemoryHolds, Remembers, Settled, OfPair, Pushed, Copy, TypeOK, NoExternal
<1>3. /\ old \in Row /\ OfPair(old, refs[cur.id].item, refs[cur.id].config)
      /\ old.ext = NoExternal => refs[cur.id].ext = NoExternal
      /\ HasCopy(old) /\ NamesItsCopy(old)
  BY <1>1, <1>2, SeenFits
<1> HIDE DEF old
<1>4. /\ row \in Row /\ OfPair(row, refs[cur.id].item, refs[cur.id].config)
      /\ row.ext = NoExternal => refs[cur.id].ext = NoExternal
      /\ HasCopy(row) /\ NamesItsCopy(row)
      /\ cur.step = "pushed" => row.ext = cur.ext
  <2>1. CASE cur.step = "pushed"
    BY <1>2, <1>3, <2>1 DEF Row, OfPair, HasCopy, NamesItsCopy, Copy, SyncStatuses
  <2>2. CASE cur.step # "pushed"
    BY <1>2, <1>3, <2>2 DEF Row, OfPair, HasCopy, NamesItsCopy, Failed, SyncStatuses
  <2> QED
    BY <2>1, <2>2
<1> HIDE DEF row
<1> QED
  BY <1>1, <1>4, OverwriteKeeps

\* A pull that writes what the tool answered keeps the invariant.
LEMMA ApplyStatusKeeps ==
  ASSUME IInv, NEW s \in Syncers, ApplyStatus(s)
  PROVE  IInv'
<1> DEFINE cur == current[s]
           old == Seen(s, cur.id)
           row == IF cur.status = NotFound THEN [old EXCEPT !.sync = "conflict"] ELSE old
           next == IF Finished(cur.status) /\ item[cur.item] = "Open" /\ cur.item \notin dones[s]
                   THEN [step |-> "finished", item |-> cur.item] ELSE Idle
<1>1. /\ cur.step = "fetched" /\ Granted(s) /\ refs[cur.id] # NoRow
      /\ Flush(s, cur.id, row, next) /\ UNCHANGED refs
  BY DEF ApplyStatus
<1>2. /\ cur.id \in DOMAIN refs /\ OfPair(refs[cur.id], cur.item, cur.config)
      /\ cur.item \in Items /\ (Finished(cur.status) => cur.item \in closed)
  BY <1>1 DEF IInv, MemoryHolds, Remembers, Settled, OfPair, RunShape, Current, Idle
<1>3. /\ old \in Row /\ OfPair(old, refs[cur.id].item, refs[cur.id].config)
      /\ old.ext = NoExternal => refs[cur.id].ext = NoExternal
      /\ HasCopy(old) /\ NamesItsCopy(old)
  BY <1>1, <1>2, SeenFits
<1>4. cur.id # 0
  BY <1>2 DEF IInv, TypeOK
<1> HIDE DEF old
<1>5. /\ row \in Row /\ OfPair(row, refs[cur.id].item, refs[cur.id].config)
      /\ row.ext = NoExternal => refs[cur.id].ext = NoExternal
      /\ HasCopy(row) /\ NamesItsCopy(row) /\ row.ext = old.ext
  BY <1>3 DEF Row, OfPair, HasCopy, NamesItsCopy, SyncStatuses
<1>6. /\ next = Idle \/ next \in [step : {"finished"}, item : Items]
      /\ next # Idle => row.item \in closed /\ next.item = row.item
  BY <1>2, <1>5 DEF OfPair
<1> HIDE DEF row, next
<1> QED
  BY <1>1, <1>4, <1>5, <1>6, OverwriteKeeps DEF old

\* A push that inserts a ref keeps the invariant.
LEMMA InsertRefKeeps ==
  ASSUME IInv, NEW s \in Syncers, InsertRef(s)
  PROVE  IInv'
<1> USE DEF IInv, rows, tool, history, counters
<1> DEFINE cur == current[s]
<1>n. PICK r : r = Len(refs) + 1
  OBVIOUS
<1>p. PICK row :
        row = IF cur.step = "pushed"
              THEN [item |-> cur.item, config |-> cur.config, ext |-> cur.ext, sync |-> "synced"]
              ELSE [item |-> cur.item, config |-> cur.config, ext |-> NoExternal, sync |-> "failed"]
  OBVIOUS
<1>a. /\ cur.step \in {"pushed", "refused"} /\ cur.id = 0 /\ item[cur.item] # "deleted"
      /\ refs' = Append(refs, NoRow) /\ Flush(s, r, row, Idle)
  BY <1>n, <1>p DEF InsertRef
<1>b. /\ cur.item \in Items /\ cur.config \in Configs /\ job[s] \in Pushes /\ job[s] # "idle"
      /\ cur.step = "pushed" => Copy(cur.ext, cur.item) /\ cur.ext \in Nat /\ cur.ext # NoExternal
  BY <1>a DEF MemoryHolds, Remembers, RunShape, Current, Idle, Pushed, Pushes, Copy, TypeOK, NoExternal
<1>r. /\ row \in Row /\ OfPair(row, cur.item, cur.config) /\ HasCopy(row) /\ NamesItsCopy(row)
      /\ cur.step = "pushed" => row.ext = cur.ext
  <2>1. CASE cur.step = "pushed"
    BY <1>b, <1>p, <2>1 DEF Row, SyncStatuses, OfPair, HasCopy, NamesItsCopy, Copy
  <2>2. CASE cur.step # "pushed"
    BY <1>b, <1>p, <2>2 DEF Row, SyncStatuses, OfPair, HasCopy, NamesItsCopy, NoExternal
  <2> QED
    BY <2>1, <2>2
<1>e. /\ refs' \in Seq(Row \union {NoRow}) /\ r \notin DOMAIN refs
      /\ DOMAIN refs' = DOMAIN refs \union {r} /\ refs'[r] = NoRow
      /\ \A q \in DOMAIN refs : refs'[q] = refs[q]
  <2>1. refs \in Seq(Row \union {NoRow}) /\ NoRow \in Row \union {NoRow}
    BY DEF TypeOK
  <2> QED
    BY ONLY <1>n, <1>a, <2>1, Appended
<1> HIDE DEF cur
<1> USE DEF Flush
<1>c. current'[s] = Idle /\ \A t \in Syncers \ {s} : current'[t] = current[t] /\ writes'[t] = writes[t]
  BY <1>a DEF RunShape
<1>d. /\ DOMAIN writes'[s] = DOMAIN writes[s] \union {r} /\ writes'[s][r] = row
      /\ \A q \in DOMAIN writes[s] : writes'[s][q] = writes[s][q]
  BY <1>a, <1>e DEF RunShape, TypeOK
<1>u. /\ \A t \in Syncers : r \notin DOMAIN writes[t]
      /\ UNCHANGED <<platform, item, config, external, closed, job, todo, dones, admin, overlap, lost, pushes, events>>
  BY <1>a, <1>e DEF TypeOK
<1>1. TypeOK'
  <2>1. \A t \in Syncers : DOMAIN writes'[t] \subseteq DOMAIN refs'
    BY <1>c, <1>d, <1>e DEF TypeOK
  <2>2. \A t \in Syncers : \A q \in DOMAIN writes'[t] : writes'[t][q] \in Row
    BY <1>c, <1>d, <1>r DEF TypeOK
  <2> QED
    BY <1>e, <1>u, <2>1, <2>2 DEF TypeOK
<1>2. RunShape'
  <2>1. Idle \in Current /\ Idle.step = "idle"
    BY DEF Current, Idle
  <2>2. DOMAIN current' = Syncers /\ DOMAIN writes' = Syncers
    BY <1>a DEF RunShape
  <2>3. current' \in [Syncers -> Current]
    BY <1>a, <2>1 DEF RunShape
  <2> QED
    BY <1>b, <1>c, <1>u, <2>1, <2>2, <2>3 DEF RunShape, Pushes, Pushed
<1>3. MemoryHolds'
  <2>1. \A q, i, c : Settled(q, i, c) => Settled(q, i, c)'
    BY <1>c, <1>d, <1>e DEF Settled
  <2>2. Remembers(s)'
    BY <1>b, <1>c, <1>u DEF MemoryHolds, Remembers, Copy, Pushed, Idle, Pushes
  <2>3. ASSUME NEW t \in Syncers \ {s} PROVE Remembers(t)'
    BY <1>c, <1>u, <2>1 DEF MemoryHolds, Remembers, Copy
  <2> QED
    BY <2>2, <2>3 DEF MemoryHolds
<1>4. WritesAlone'
  BY <1>c, <1>d, <1>u DEF WritesAlone
<1>5. WritesFit'
  <2>1. Fits(s, r)'
    BY <1>a, <1>b, <1>d, <1>e, <1>r, <1>u DEF Fits, OfPair
  <2>2. \A q \in DOMAIN writes[s] : Fits(s, q)'
    BY <1>d, <1>e, <1>u DEF WritesFit, Fits, TypeOK
  <2>3. \A t \in Syncers \ {s} : \A q \in DOMAIN writes[t] : Fits(t, q)'
    BY <1>c, <1>e, <1>u DEF WritesFit, Fits, TypeOK
  <2> QED
    BY <1>c, <1>d, <2>1, <2>2, <2>3 DEF WritesFit
<1>6. PairsOnce'
  <2>1. ComesOnce(s)'
    <3>1. ComesOnce(s) /\ current[s].step \in Pushed
      BY <1>a, <1>b DEF PairsOnce, Pushed, cur
    <3>2. current'[s].step = "idle"
      BY <1>c DEF Idle
    <3> QED
      BY <1>r, <1>d, <1>u, <3>1, <3>2 DEF ComesOnce, OfPair, Pushed, cur
  <2>2. ASSUME NEW t \in Syncers \ {s}, job[t] \in Pushes PROVE ComesOnce(t)'
    BY <1>c, <1>u, <2>2 DEF PairsOnce, ComesOnce
  <2> QED
    BY <1>u, <2>1, <2>2 DEF PairsOnce
<1>7. SyncedHaveCopies' /\ RefsNameTheirCopies' /\ RefsHaveItems'
  <2>1. \A q \in DOMAIN refs' : refs'[q] # NoRow => q \in DOMAIN refs /\ refs'[q] = refs[q]
    BY <1>e
  <2>2. SyncedHaveCopies' /\ RefsHaveItems'
    BY <1>c, <1>d, <1>r, <1>u, <2>1 DEF SyncedHaveCopies, HasCopy, RefsHaveItems
  <2>3. RefsNameTheirCopies'
    BY <1>c, <1>d, <1>r, <1>u, <2>1 DEF RefsNameTheirCopies, NamesItsCopy
  <2> QED
    BY <2>2, <2>3
<1>8. DonesAreClosed'
  <2>1. \A t \in Syncers : \A i \in WantsItem(t)' : i \in WantsItem(t)
    BY <1>c DEF WantsItem, Idle
  <2>2. \A t \in Syncers : \A q \in DOMAIN writes[t] : q \in DOMAIN writes'[t] /\ writes'[t][q] = writes[t][q]
    BY <1>c, <1>d
  <2> QED
    BY <1>u, <2>1, <2>2 DEF DonesAreClosed
<1>9. CopiesAreKnown'
  <2>1. ASSUME NEW e, Held(s, e) PROVE Held(s, e)'
    BY <1>d, <1>r, <2>1 DEF Held, cur
  <2>2. \A t \in Syncers \ {s} : \A e : Held(t, e) => Held(t, e)'
    BY <1>c DEF Held
  <2>3. \A e : Named(e) => Named(e)'
    BY <1>e DEF Named
  <2> QED
    BY <1>u, <2>1, <2>2, <2>3 DEF CopiesAreKnown, Known
<1>10. OneRowOfPair'
  <2> SUFFICES ASSUME NEW i \in Items, NEW c \in Configs, <<i, c>> \notin overlap
               PROVE  /\ \A q, p \in DOMAIN refs' : Has(q, i, c)' /\ Has(p, i, c)' => q = p
                      /\ \A t \in Syncers : WillInsert(t, i, c)' =>
                           /\ \A q \in DOMAIN refs' : ~Has(q, i, c)'
                           /\ \A o \in Syncers : WillInsert(o, i, c)' => o = t
    BY <1>u DEF OneRowOfPair
  <2>1. \A t \in Syncers : WillInsert(t, i, c)' => WillInsert(t, i, c) /\ t # s
    BY <1>c DEF WillInsert, Pushed, Idle
  <2>2. ASSUME NEW q \in DOMAIN refs, Has(q, i, c)' PROVE Has(q, i, c)
    BY <1>c, <1>d, <1>e, <2>2 DEF Has
  <2>3. CASE OfPair(row, i, c)
    <3>1. WillInsert(s, i, c)
      BY <1>a, <1>r, <2>3 DEF WillInsert, OfPair, Pushed, cur
    <3>2. /\ \A q \in DOMAIN refs : ~Has(q, i, c)
          /\ \A o \in Syncers : WillInsert(o, i, c) => o = s
      BY <3>1 DEF OneRowOfPair
    <3>3. \A t \in Syncers : ~WillInsert(t, i, c)'
      BY <2>1, <3>2
    <3>4. \A q \in DOMAIN refs' : Has(q, i, c)' => q = r
      BY <1>e, <2>2, <3>2
    <3> QED
      BY <3>3, <3>4
  <2>4. CASE ~OfPair(row, i, c)
    <3>1. ~Has(r, i, c)'
      BY <1>c, <1>d, <1>e, <1>u, <2>4 DEF Has
    <3>2. \A q \in DOMAIN refs' : Has(q, i, c)' => q \in DOMAIN refs /\ Has(q, i, c)
      BY <1>e, <2>2, <3>1
    <3> QED
      BY <2>1, <3>2 DEF OneRowOfPair
  <2> QED
    BY <2>3, <2>4
<1> QED
  BY <1>1, <1>2, <1>3, <1>4, <1>5, <1>6, <1>7, <1>8, <1>9, <1>10 DEF IInv

-----------------------------------------------------------------------------
(* The commit. *)

\* The one commit of a job keeps the invariant.
LEMMA CommitKeeps ==
  ASSUME IInv, NEW s \in Syncers, Commit(s)
  PROVE  IInv'
<1> USE DEF IInv, Stop, rows, tool, counters
<1>u. /\ UNCHANGED <<platform, config, external, closed, admin, overlap, pushes, events>>
      /\ current[s] = Idle /\ Stop(s)
  BY DEF Commit
<1>a. /\ job'[s] = "idle" /\ todo'[s] = {} /\ current'[s] = Idle
      /\ writes'[s] = NoWrites /\ dones'[s] = {} /\ Idle.step = "idle"
      /\ current' = current
  BY <1>u DEF RunShape, TypeOK, Idle
<1>b. \A t \in Syncers \ {s} : /\ job'[t] = job[t] /\ todo'[t] = todo[t] /\ current'[t] = current[t]
                               /\ writes'[t] = writes[t] /\ dones'[t] = dones[t]
  BY <1>u DEF RunShape, TypeOK
<1>c. /\ DOMAIN refs' = DOMAIN refs
      /\ \A r \in DOMAIN writes[s] : refs'[r] = writes[s][r] /\ writes[s][r] \in Row /\ refs'[r] # NoRow
      /\ \A r \in DOMAIN refs \ DOMAIN writes[s] : refs'[r] = refs[r]
      /\ DOMAIN writes[s] \subseteq DOMAIN refs
  BY NoRowIsNone DEF Commit, Seen, TypeOK
<1>d. \A i \in Items : /\ i \in dones[s] => item'[i] = "Done" /\ item[i] # "deleted"
                       /\ i \notin dones[s] => item'[i] = item[i]
  BY DEF Commit, DonesAreClosed, WritesFit, Fits
<1>e. \A i \in Items : item'[i] = "deleted" <=> item[i] = "deleted"
  BY <1>d
<1>f. NoWrites = [r \in {} |-> NoRow] /\ DOMAIN NoWrites = {}
  BY DEF NoWrites
<1>1. TypeOK'
  <2>1. refs' \in Seq(Row \union {NoRow})
    <3>1. \A r \in DOMAIN refs : refs'[r] \in Row \union {NoRow}
      BY <1>c DEF TypeOK
    <3>2. Len(refs) \in Nat /\ DOMAIN refs = 1 .. Len(refs)
      BY DEF TypeOK
    <3>3. refs' = [r \in 1 .. Len(refs) |-> refs'[r]]
      BY <3>2 DEF Commit
    <3> QED
      BY <3>1, <3>2, <3>3, IsASeq
  <2>2. item' \in [Items -> ItemStatuses]
    BY DEF Commit, TypeOK, ItemStatuses
  <2>3. job' \in [Syncers -> {"idle", "one", "all", "pull"}]
    BY <1>u DEF TypeOK
  <2>4. \A t \in Syncers : /\ DOMAIN writes'[t] \subseteq DOMAIN refs'
                           /\ \A r \in DOMAIN writes'[t] : writes'[t][r] \in Row
                           /\ dones'[t] \subseteq Items
    BY <1>a, <1>b, <1>c, <1>f DEF TypeOK
  <2> QED
    BY <1>u, <2>1, <2>2, <2>3, <2>4 DEF TypeOK
<1>2. RunShape'
  <2>1. current' \in [Syncers -> Current] /\ DOMAIN todo' = Syncers /\ DOMAIN writes' = Syncers
        /\ dones' \in [Syncers -> SUBSET Items]
    BY <1>a, <1>u DEF RunShape
  <2> QED
    BY <1>a, <1>b, <2>1 DEF RunShape, Pushes, Pushed
<1>3. MemoryHolds'
  <2>1. ASSUME NEW q, NEW i, NEW c, Settled(q, i, c) PROVE Settled(q, i, c)'
    <3>1. CASE q \in DOMAIN writes[s]
      BY <1>c, <2>1, <3>1 DEF Settled, WritesFit, Fits
    <3>2. CASE q \notin DOMAIN writes[s]
      BY <1>a, <1>b, <1>c, <1>f, <2>1, <3>2 DEF Settled
    <3> QED
      BY <3>1, <3>2
  <2>2. Remembers(s)'
    BY <1>a DEF Remembers, Pushed
  <2>3. ASSUME NEW t \in Syncers \ {s} PROVE Remembers(t)'
    BY <1>b, <1>u, <2>1 DEF MemoryHolds, Remembers, Copy
  <2> QED
    BY <2>2, <2>3 DEF MemoryHolds
<1>4. WritesAlone'
  BY <1>a, <1>b, <1>f DEF WritesAlone
<1>5. WritesFit'
  <2>1. ASSUME NEW t \in Syncers \ {s}, NEW r \in DOMAIN writes[t] PROVE Fits(t, r)'
    <3>1. refs'[r] = refs[r] /\ Fits(t, r)
      BY <1>c, <2>1 DEF WritesAlone, TypeOK, WritesFit
    <3>2. writes[t][r].item \in Items
      BY <2>1 DEF TypeOK, Row
    <3> QED
      BY <1>b, <1>e, <3>1, <3>2 DEF Fits
  <2> QED
    BY <1>a, <1>b, <1>f, <2>1 DEF WritesFit
<1>6. PairsOnce'
  <2> SUFFICES ASSUME NEW t \in Syncers, job'[t] \in Pushes PROVE ComesOnce(t)'
    BY DEF PairsOnce
  <2>1. t # s
    BY <1>a DEF Pushes
  <2> QED
    BY <1>b, <2>1 DEF PairsOnce, ComesOnce
<1>7. SyncedHaveCopies'
  BY <1>a, <1>b, <1>c, <1>f DEF SyncedHaveCopies
<1>8. RefsNameTheirCopies'
  BY <1>a, <1>b, <1>c, <1>f, <1>u DEF RefsNameTheirCopies, NamesItsCopy
<1>9. RefsHaveItems'
  <2> SUFFICES ASSUME NEW r \in DOMAIN refs, refs'[r] # NoRow PROVE item'[refs'[r].item] # "deleted"
    BY <1>c DEF RefsHaveItems
  <2>1. CASE r \in DOMAIN writes[s]
    BY <1>c, <1>e, <2>1 DEF WritesFit, Fits, Row
  <2>2. CASE r \notin DOMAIN writes[s]
    <3>1. refs[r] \in Row
      BY <1>c, <2>2 DEF TypeOK
    <3> QED
      BY <1>c, <1>e, <2>2, <3>1 DEF RefsHaveItems, Row
  <2> QED
    BY <2>1, <2>2
<1>10. DonesAreClosed'
  <2>1. WantsItem(s)' = {} /\ \A t \in Syncers \ {s} : WantsItem(t)' = WantsItem(t)
    BY <1>a, <1>b DEF WantsItem
  <2>2. \A t \in Syncers : \A i \in dones'[t] \union WantsItem(t)' :
          i \in closed /\ \E r \in DOMAIN writes'[t] : writes'[t][r].item = i
    BY <1>a, <1>b, <2>1 DEF DonesAreClosed
  <2> QED
    BY <1>u, <2>2 DEF DonesAreClosed
<1>11. CopiesAreKnown'
  <2> SUFFICES ASSUME NEW e \in DOMAIN external PROVE Known(e)'
    BY <1>u DEF CopiesAreKnown
  <2>1. e # NoExternal /\ external[e].item \in Items
    BY CopyTyped
  <2>2. \A t \in Syncers \ {s} : Held(t, e) => Held(t, e)'
    BY <1>b DEF Held
  <2>3. Held(s, e) => Named(e)'
    BY <1>a, <1>c DEF Held, Named
  <2>4. ASSUME Named(e) PROVE Named(e)' \/ e \in lost'
    <3>1. PICK r \in DOMAIN refs : refs[r] # NoRow /\ refs[r].ext = e
      BY <2>4 DEF Named
    <3>2. CASE r \notin DOMAIN writes[s] \/ writes[s][r].ext = e
      BY <1>c, <3>1, <3>2 DEF Named
    <3>3. CASE r \in DOMAIN writes[s] /\ writes[s][r].ext # e
      <4>1. writes[s][r].ext # NoExternal
        BY <2>1, <3>1, <3>3 DEF WritesFit, Fits
      <4> QED
        BY <2>1, <3>1, <3>3, <4>1 DEF Commit
    <3> QED
      BY <3>2, <3>3
  <2>5. lost \subseteq lost'
    BY DEF Commit
  <2>6. item[external[e].item] = "deleted" => item'[external[e].item] = "deleted"
    BY <1>e, <2>1
  <2> QED
    BY <1>u, <2>2, <2>3, <2>4, <2>5, <2>6 DEF CopiesAreKnown, Known
<1>12. OneRowOfPair'
  <2>1. ASSUME NEW q \in DOMAIN refs, NEW i, NEW c, Has(q, i, c)' PROVE Has(q, i, c)
    BY <1>a, <1>b, <1>c, <1>f, <2>1 DEF Has
  <2>2. \A t \in Syncers : \A i, c : WillInsert(t, i, c)' => WillInsert(t, i, c)
    BY <1>a DEF WillInsert
  <2> QED
    BY <1>c, <1>u, <2>1, <2>2 DEF OneRowOfPair
<1> QED
  BY <1>1, <1>2, <1>3, <1>4, <1>5, <1>6, <1>7, <1>8, <1>9, <1>10, <1>11, <1>12 DEF IInv

-----------------------------------------------------------------------------
(* Configs and users. *)

\* A change of nothing but the configs and their requests keeps the invariant.
LEMMA ConfigsKeep ==
  ASSUME IInv, UNCHANGED <<platform, item, refs, external, closed, run, history>>,
         config' \in [Configs -> {"unborn", "active", "inactive"}],
         admin' \in [Admins -> {"idle", NoConfig} \union Configs],
         pushes' \in 0 .. MaxPushes, events' \in 0 .. MaxEvents
  PROVE  IInv'
<1> USE DEF IInv, run, history
<1>1. TypeOK' /\ RunShape'
  BY DEF TypeOK, RunShape
<1>2. MemoryHolds' /\ WritesAlone' /\ WritesFit'
  BY DEF MemoryHolds, Remembers, Settled, Copy, WritesAlone, WritesFit, Fits
<1>3. PairsOnce' /\ SyncedHaveCopies' /\ DonesAreClosed'
  BY DEF PairsOnce, ComesOnce, SyncedHaveCopies, DonesAreClosed, WantsItem
<1>4. RefsNameTheirCopies' /\ RefsHaveItems' /\ CopiesAreKnown'
  BY DEF RefsNameTheirCopies, NamesItsCopy, RefsHaveItems, CopiesAreKnown, Known, Named, Held
<1>5. OneRowOfPair'
  BY DEF OneRowOfPair, Has, WillInsert
<1> QED
  BY <1>1, <1>2, <1>3, <1>4, <1>5 DEF IInv

\* A user who changes the status of an item keeps the invariant.
LEMMA UpdateItemKeeps ==
  ASSUME IInv, NEW i \in Items, NEW st \in {"Open", "Done"}, UpdateItem(i, st)
  PROVE  IInv'
<1> USE DEF UpdateItem, IInv, tool, run, history
<1>a. \A j \in Items : item'[j] = "deleted" <=> item[j] = "deleted"
  BY DEF TypeOK
<1>1. TypeOK' /\ RunShape'
  BY SyncAssumption DEF TypeOK, RunShape, ItemStatuses
<1>2. MemoryHolds' /\ WritesAlone'
  BY DEF MemoryHolds, Remembers, Settled, Copy, WritesAlone
<1>3. WritesFit'
  <2>1. \A s \in Syncers : \A r \in DOMAIN writes[s] : writes[s][r].item \in Items
    BY DEF TypeOK, Row
  <2> QED
    BY <1>a, <2>1 DEF WritesFit, Fits
<1>4. PairsOnce' /\ SyncedHaveCopies' /\ DonesAreClosed' /\ RefsNameTheirCopies'
  BY DEF PairsOnce, ComesOnce, SyncedHaveCopies, DonesAreClosed, WantsItem, RefsNameTheirCopies, NamesItsCopy
<1>5. RefsHaveItems'
  <2>1. \A r \in DOMAIN refs : refs[r] # NoRow => refs[r].item \in Items
    BY DEF TypeOK, Row
  <2> QED
    BY <1>a, <2>1 DEF RefsHaveItems
<1>6. CopiesAreKnown'
  <2>1. \A e \in DOMAIN external : external[e].item \in Items
    BY CopyTyped
  <2> QED
    BY <1>a, <2>1 DEF CopiesAreKnown, Known, Named, Held
<1>7. OneRowOfPair'
  BY DEF OneRowOfPair, Has, WillInsert
<1> QED
  BY <1>1, <1>2, <1>3, <1>4, <1>5, <1>6, <1>7 DEF IInv

\* A user who deletes an item keeps the invariant.
LEMMA DeleteItemKeeps ==
  ASSUME IInv, NEW i \in Items, DeleteItem(i)
  PROVE  IInv'
<1> USE DEF DeleteItem, IInv, tool, run, history
<1>a. \A j \in Items : item'[j] = "deleted" <=> j = i \/ item[j] = "deleted"
  BY DEF TypeOK
<1>b. /\ DOMAIN refs' = DOMAIN refs
      /\ \A r \in DOMAIN refs : IF refs[r] # NoRow /\ refs[r].item = i
                                THEN refs'[r] = NoRow ELSE refs'[r] = refs[r]
  OBVIOUS
<1>c. \A s \in Syncers : \A r \in DOMAIN writes[s] :
        /\ r \in DOMAIN refs /\ refs'[r] = refs[r]
        /\ writes[s][r].item \in Items /\ writes[s][r].item # i
  BY <1>b DEF Referred, WritesFit, Fits, TypeOK, Row
<1>1. TypeOK'
  <2>1. refs' \in Seq(Row \union {NoRow})
    <3>1. Len(refs) \in Nat /\ DOMAIN refs = 1 .. Len(refs)
      BY DEF TypeOK
    <3>2. \A r \in DOMAIN refs : refs'[r] \in Row \union {NoRow}
      BY <1>b DEF TypeOK
    <3> QED
      BY <3>1, <3>2, IsASeq
  <2> QED
    BY <1>b, <2>1, SyncAssumption DEF TypeOK, ItemStatuses
<1>2. RunShape' /\ WritesAlone' /\ PairsOnce'
  BY DEF RunShape, WritesAlone, PairsOnce, ComesOnce
<1>3. MemoryHolds'
  <2>1. ASSUME NEW q, NEW j, NEW c, Settled(q, j, c) PROVE Settled(q, j, c)'
    BY <1>b, <1>c, <2>1 DEF Settled
  <2> QED
    BY <2>1 DEF MemoryHolds, Remembers, Copy
<1>4. WritesFit'
  BY <1>a, <1>c DEF WritesFit, Fits
<1>5. SyncedHaveCopies' /\ RefsNameTheirCopies'
  BY <1>b DEF SyncedHaveCopies, RefsNameTheirCopies, NamesItsCopy
<1>6. DonesAreClosed'
  BY DEF DonesAreClosed, WantsItem
<1>7. RefsHaveItems'
  <2>1. \A r \in DOMAIN refs : refs[r] # NoRow => refs[r].item \in Items
    BY DEF TypeOK, Row
  <2> QED
    BY <1>a, <1>b, <2>1 DEF RefsHaveItems
<1>8. CopiesAreKnown'
  <2> SUFFICES ASSUME NEW e \in DOMAIN external PROVE Known(e)'
    BY DEF CopiesAreKnown
  <2>1. e # NoExternal /\ external[e].item \in Items
    BY CopyTyped
  <2>2. \A s \in Syncers : Held(s, e) => Held(s, e)'
    BY DEF Held
  <2>3. ASSUME Named(e) PROVE Named(e)' \/ external[e].item = i
    BY <1>b, <2>1, <2>3 DEF Named, RefsNameTheirCopies, NamesItsCopy
  <2> QED
    BY <1>a, <2>1, <2>2, <2>3 DEF CopiesAreKnown, Known
<1>9. OneRowOfPair'
  <2>1. ASSUME NEW q \in DOMAIN refs, NEW j, NEW c, Has(q, j, c)' PROVE Has(q, j, c)
    BY <1>b, <2>1 DEF Has
  <2>2. \A t \in Syncers : \A j, c : WillInsert(t, j, c)' => WillInsert(t, j, c)
    BY DEF WillInsert
  <2> QED
    BY <1>b, <2>1, <2>2 DEF OneRowOfPair
<1> QED
  BY <1>1, <1>2, <1>3, <1>4, <1>5, <1>6, <1>7, <1>8, <1>9 DEF IInv

\* A copy that moves to another state in the tool keeps the invariant.
LEMMA EditExternalKeeps ==
  ASSUME IInv, NEW e \in DOMAIN external, NEW state \in States, EditExternal(e, state)
  PROVE  IInv'
<1> USE DEF EditExternal, IInv, rows, run, history
<1>a. state \in StateNames
  BY DEF States, StateNames
<1>b. external \in Seq([item : Items, state : StateNames])
  BY DEF TypeOK
<1>c. /\ DOMAIN external' = DOMAIN external
      /\ \A x \in DOMAIN external : external'[x].item = external[x].item
      /\ external'[e].state = state
      /\ \A x \in DOMAIN external \ {e} : external'[x] = external[x]
  <2>1. \A x \in DOMAIN external : external[x] \in [item : Items, state : StateNames]
    BY <1>b, ElementOfSeq
  <2> QED
    BY <2>1
<1>d. external' \in Seq([item : Items, state : StateNames])
  <2>1. \A x \in DOMAIN external : external'[x] \in [item : Items, state : StateNames]
    <3>1. \A x \in DOMAIN external : external[x] \in [item : Items, state : StateNames]
      BY <1>b, ElementOfSeq
    <3>2. external' = [external EXCEPT ![e].state = state]
      OBVIOUS
    <3> QED
      BY ONLY <1>a, <3>1, <3>2
  <2>2. Len(external) \in Nat /\ DOMAIN external = 1 .. Len(external)
    BY <1>b
  <2>3. external' = [x \in 1 .. Len(external) |-> external'[x]]
    BY <2>2
  <2> QED
    BY ONLY <2>1, <2>2, <2>3, IsASeq
<1>1. TypeOK' /\ RunShape'
  BY <1>d, SyncAssumption DEF TypeOK, RunShape
<1>2. MemoryHolds'
  <2>1. \A q, i, c : Settled(q, i, c) => Settled(q, i, c)'
    BY DEF Settled
  <2>2. \A x, i : Copy(x, i) => Copy(x, i)'
    BY <1>c DEF Copy
  <2>3. closed \subseteq closed'
    OBVIOUS
  <2> QED
    BY <2>1, <2>2, <2>3 DEF MemoryHolds, Remembers
<1>3. WritesAlone' /\ WritesFit' /\ PairsOnce' /\ SyncedHaveCopies'
  BY DEF WritesAlone, WritesFit, Fits, PairsOnce, ComesOnce, SyncedHaveCopies
<1>4. DonesAreClosed'
  <2>1. closed \subseteq closed'
    OBVIOUS
  <2>2. \A x \in DOMAIN external : external'[x].state \in DoneStates => external'[x].item \in closed'
    BY <1>c, <2>1 DEF DonesAreClosed
  <2>3. \A s \in Syncers : WantsItem(s)' = WantsItem(s)
    BY DEF WantsItem
  <2> QED
    BY <1>c, <2>1, <2>2, <2>3 DEF DonesAreClosed
<1>5. RefsNameTheirCopies' /\ RefsHaveItems'
  BY <1>c DEF RefsNameTheirCopies, NamesItsCopy, RefsHaveItems
<1>6. CopiesAreKnown'
  BY <1>c DEF CopiesAreKnown, Known, Named, Held
<1>7. OneRowOfPair'
  BY DEF OneRowOfPair, Has, WillInsert
<1> QED
  BY <1>1, <1>2, <1>3, <1>4, <1>5, <1>6, <1>7 DEF IInv

\* A request that configures the integration keeps the invariant.
LEMMA ConfigureKeeps ==
  ASSUME IInv, NEW a \in Admins, Configure(a)
  PROVE  IInv'
<1>t. TypeOK
  BY DEF IInv
<1>1. CASE ConfigureLoad(a)
  <2>1. Active # {} => (CHOOSE c \in Active : TRUE) \in Configs
    BY DEF Active
  <2>2. admin' \in [Admins -> {"idle", NoConfig} \union Configs]
    BY <1>t, <1>1, <2>1 DEF ConfigureLoad, TypeOK
  <2> QED
    BY <1>t, <1>1, <2>2, ConfigsKeep, SyncAssumption DEF ConfigureLoad, rows, tool, TypeOK
<1>2. CASE ConfigureCommit(a)
  <2>1. PICK new \in Configs : config' = [c \in Configs |-> Replaced(a, c, new)]
    BY <1>2 DEF ConfigureCommit
  <2>2. config' \in [Configs -> {"unborn", "active", "inactive"}]
    BY <1>t, <2>1 DEF Replaced, TypeOK
  <2>3. admin' \in [Admins -> {"idle", NoConfig} \union Configs]
    BY <1>t, <1>2 DEF ConfigureCommit, TypeOK
  <2> QED
    BY <1>t, <1>2, <2>2, <2>3, ConfigsKeep DEF ConfigureCommit, tool, counters, TypeOK
<1> QED
  BY <1>1, <1>2 DEF Configure

\* Every step of a user keeps the invariant.
LEMMA UsersKeep == IInv /\ Users => IInv'
<1> SUFFICES ASSUME IInv, Users PROVE IInv'
  OBVIOUS
<1>1. ASSUME NEW i \in Items, DeleteItem(i) \/ \E st \in {"Open", "Done"} : UpdateItem(i, st) PROVE IInv'
  BY <1>1, DeleteItemKeeps, UpdateItemKeeps
<1>2. ASSUME NEW e \in DOMAIN external, \E state \in States : EditExternal(e, state) PROVE IInv'
  BY <1>2, EditExternalKeeps
<1>3. ASSUME NEW c \in Configs, Deactivate(c) PROVE IInv'
  <2>1. TypeOK
    BY DEF IInv
  <2> QED
    BY <1>3, <2>1, ConfigsKeep, SyncAssumption DEF Deactivate, tool, TypeOK
<1> QED
  BY <1>1, <1>2, <1>3 DEF Users

-----------------------------------------------------------------------------
(* Every step. *)

\* Every step of a push keeps the invariant.
LEMMA PushKeeps ==
  ASSUME IInv, NEW s \in Syncers, Push(s)
  PROVE  IInv'
<1>t. events \in 0 .. MaxEvents
  BY DEF IInv, TypeOK
<1>1. CASE FindRef(s)
  BY <1>1, FindRefKeeps
<1>2. CASE SkipSynced(s)
  BY <1>2, <1>t, SkipKeeps DEF SkipSynced
<1>3. CASE FindTwoRefs(s)
  BY <1>3, <1>t, RollbackKeeps DEF FindTwoRefs, counters
<1>4. CASE PushItem(s)
  BY <1>4, PushItemKeeps
<1>5. CASE InsertRef(s)
  BY <1>5, InsertRefKeeps
<1>6. CASE UpdateRef(s)
  BY <1>6, UpdateRefKeeps
<1> QED
  BY <1>1, <1>2, <1>3, <1>4, <1>5, <1>6 DEF Push

\* Every step of a pull keeps the invariant.
LEMMA PullRunKeeps ==
  ASSUME IInv, NEW s \in Syncers, Pull(s)
  PROVE  IInv'
<1>t. events \in 0 .. MaxEvents
  BY DEF IInv, TypeOK
<1>1. CASE SkipInactive(s)
  BY <1>1, <1>t, SkipKeeps DEF SkipInactive
<1>2. CASE FetchStatus(s)
  BY <1>2, FetchStatusKeeps
<1>3. CASE ApplyStatus(s)
  BY <1>3, ApplyStatusKeeps
<1>4. CASE MarkDone(s)
  BY <1>4, MarkDoneKeeps
<1> QED
  BY <1>1, <1>2, <1>3, <1>4 DEF Pull

\* Every end of a run keeps the invariant.
LEMMA EndKeeps ==
  ASSUME IInv, NEW s \in Syncers, End(s)
  PROVE  IInv'
<1>t. events \in 0 .. MaxEvents
  BY DEF IInv, TypeOK
<1>1. CASE Commit(s)
  BY <1>1, CommitKeeps
<1>2. CASE RowGone(s)
  BY <1>2, <1>t, RollbackKeeps DEF RowGone, counters
<1>3. CASE DeadlockVictim(s)
  BY <1>3, <1>t, RollbackKeeps DEF DeadlockVictim, counters
<1> QED
  BY <1>1, <1>2, <1>3 DEF End

\* Every failure keeps the invariant.
LEMMA FaultKeeps ==
  ASSUME IInv, NEW s \in Syncers, Fault(s)
  PROVE  IInv'
<1>t. events \in 0 .. MaxEvents /\ (events < MaxEvents => events + 1 \in 0 .. MaxEvents)
  BY SyncAssumption DEF IInv, TypeOK
<1>1. CASE SkipFailing(s)
  BY <1>1, <1>t, SkipKeeps DEF SkipFailing
<1>2. CASE PushFails(s)
  BY <1>2, PushFailsKeeps
<1>3. CASE Crash(s)
  BY <1>3, <1>t, RollbackKeeps DEF Crash
<1> QED
  BY <1>1, <1>2, <1>3 DEF Fault

\* Every start of pushes keeps the invariant.
LEMMA StartKeeps ==
  ASSUME IInv, NEW s \in Syncers, Start(s)
  PROVE  IInv'
<1>1. Active \subseteq Configs
  BY DEF Active
<1>2. CASE SyncAllItems(s)
  BY <1>1, <1>2, StartPushKeeps DEF SyncAllItems, Pushes
<1>3. ASSUME NEW i \in Items, SyncItem(s, i) PROVE IInv'
  BY <1>1, <1>3, StartPushKeeps DEF SyncItem, Pushes
<1> QED
  BY <1>2, <1>3 DEF Start

\* Every step keeps the invariant.
LEMMA NextKeeps == IInv /\ [Next]_vars => IInv'
<1> SUFFICES ASSUME IInv, [Next]_vars PROVE IInv'
  OBVIOUS
<1>1. ASSUME NEW s \in Syncers,
             Push(s) \/ Pull(s) \/ End(s) \/ Fault(s) \/ Start(s) \/ PullStatusUpdates(s)
      PROVE  IInv'
  BY <1>1, PushKeeps, PullRunKeeps, EndKeeps, FaultKeeps, StartKeeps, PullKeeps
<1>2. ASSUME NEW a \in Admins, Configure(a) PROVE IInv'
  BY <1>2, ConfigureKeeps
<1>3. CASE Users
  BY <1>3, UsersKeep
<1>4. CASE UNCHANGED vars
  <2>1. TypeOK
    BY DEF IInv
  <2> QED
    BY <1>4, <2>1, ConfigsKeep DEF vars, run, history, TypeOK
<1> QED
  BY <1>1, <1>2, <1>3, <1>4 DEF Next

\* In every state that the jobs, the users and the faults reach, the strengthened
\* invariant holds.
THEOREM Inductive == Spec => []IInv
BY InitIInv, NextKeeps, PTL DEF Spec

-----------------------------------------------------------------------------
(* The theorems. *)

\* Whatever jobs, users and faults do, the rows, the external items and what a
\* job has flushed are of their types.
THEOREM TypeCorrect == Spec => []TypeOK
BY Inductive, PTL DEF IInv

\* The copy that a ref names exists and is one of the ref's item, committed or
\* flushed, for sync_item, the bulk task and the pull.
THEOREM RefsName == Spec => []RefsNameTheirCopies
BY Inductive, PTL DEF IInv

\* No ref outlives its item, however a deletion meets the pushes under way.
THEOREM RefsHave == Spec => []RefsHaveItems
BY Inductive, PTL DEF IInv

\* Every copy in the tool is named by a ref or a run, but for those whose push
\* was rolled back or replaced and those of deleted items.
THEOREM Copies == Spec => []CopiesAreKnown
BY Inductive, PTL DEF IInv

\* An item and an integration have a second ref only after two pushes of the
\* pair that overlapped.
THEOREM SecondRef == Spec => []SecondRefNeedsOverlap
<1>1. IInv => SecondRefNeedsOverlap
  <2> SUFFICES ASSUME IInv, NEW i \in Items, NEW c \in Configs, <<i, c>> \notin overlap
               PROVE  ~(Cardinality(RefsOf(i, c)) > 1)
    BY DEF SecondRefNeedsOverlap
  <2>1. \A r, q \in RefsOf(i, c) : r = q
    BY DEF IInv, OneRowOfPair, Has, RefsOf, OfPair
  <2>2. CASE RefsOf(i, c) = {}
    BY <2>2, FS_EmptySet
  <2>3. CASE RefsOf(i, c) # {}
    <3>1. PICK r : RefsOf(i, c) = {r}
      BY <2>1, <2>3
    <3>2. Cardinality(RefsOf(i, c)) = 1
      BY <3>1, FS_Singleton
    <3> QED
      BY <3>2
  <2> QED
    BY <2>2, <2>3
<1> QED
  BY <1>1, Inductive, PTL

\* An item becomes "Done" by a user, or by a pull after a copy of it was
\* finished in the tool.
THEOREM DoneFollows == Spec => DoneFollowsTool
<1> DEFINE Follows == \A i \in Items : item[i] = "Open" /\ item'[i] = "Done" =>
                        UpdateItem(i, "Done") \/ i \in closed
<1>1. IInv /\ [Next]_vars => [Follows]_vars
  <2> SUFFICES ASSUME IInv, [Next]_vars, NEW i \in Items, item[i] = "Open", item'[i] = "Done"
               PROVE  UpdateItem(i, "Done") \/ i \in closed
    OBVIOUS
  <2>t. TypeOK
    BY DEF IInv
  <2>1. ASSUME NEW s \in Syncers,
               Push(s) \/ Pull(s) \/ End(s) \/ Fault(s) \/ Start(s) \/ PullStatusUpdates(s)
        PROVE  i \in closed
    <3>1. item' # item
      OBVIOUS
    <3>2. ~(Push(s) \/ Pull(s))
      BY <3>1 DEF Push, FindRef, SkipSynced, Skip, FindTwoRefs, PushItem, InsertRef, UpdateRef, Flush,
                  Pull, SkipInactive, FetchStatus, ApplyStatus, MarkDone, rows
    <3>3. ~(Fault(s) \/ Start(s) \/ PullStatusUpdates(s) \/ RowGone(s) \/ DeadlockVictim(s))
      BY <3>1 DEF Fault, SkipFailing, Skip, PushFails, Crash, Start, SyncAllItems, SyncItem, StartPush,
                  PullStatusUpdates, RowGone, DeadlockVictim, rows
    <3>4. Commit(s)
      BY <2>1, <3>2, <3>3 DEF End
    <3> QED
      BY <3>4 DEF Commit, IInv, DonesAreClosed
  <2>2. ASSUME NEW a \in Admins, Configure(a) PROVE FALSE
    BY <2>2 DEF Configure, ConfigureLoad, ConfigureCommit, rows
  <2>3. CASE Users
    <3>1. ASSUME NEW j \in Items, NEW st \in {"Open", "Done"}, UpdateItem(j, st)
          PROVE  UpdateItem(i, "Done")
      <4>1. i = j /\ st = "Done"
        BY <2>t, <3>1 DEF UpdateItem, TypeOK
      <4> QED
        BY <3>1, <4>1
    <3>2. ASSUME NEW j \in Items, DeleteItem(j) PROVE FALSE
      BY <2>t, <3>2 DEF DeleteItem, TypeOK
    <3>3. ASSUME NEW e \in DOMAIN external, NEW state \in States, EditExternal(e, state) PROVE FALSE
      BY <3>3 DEF EditExternal, rows
    <3>4. ASSUME NEW c \in Configs, Deactivate(c) PROVE FALSE
      BY <3>4 DEF Deactivate
    <3> QED
      BY <2>3, <3>1, <3>2, <3>3, <3>4 DEF Users
  <2>4. CASE UNCHANGED vars
    BY <2>4 DEF vars
  <2> QED
    BY <2>1, <2>2, <2>3, <2>4 DEF Next
<1> QED
  BY <1>1, Inductive, PTL DEF Spec, DoneFollowsTool
=============================================================================
