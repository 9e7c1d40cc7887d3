------------------------- MODULE PlatformSyncProofs -------------------------
(***************************************************************************)
(* Theorems about PlatformSync, for any recordings and workers, any        *)
(* platforms and log levels, any number of retries and of events.          *)
(***************************************************************************)
EXTENDS PlatformSync, FiniteSetTheorems, FunctionTheorems, TLAPS

Statuses == {"draft", "extracted", "deleted"}
Rows == [rec : Recordings, text : BOOLEAN, status : Statuses]
NewRows == [rec : Recordings, text : BOOLEAN]
Pairs == [access : Nat, refresh : Nat]

(* What a worker does. *)
Idles == [step : {"idle"}]
Loads == [step : {"load"}, retries : 0 .. MaxRetries]
Lists == [step : {"list"}, retries : 0 .. MaxRetries, config : Nat, tokens : Pairs]
Checks == [step : {"check"}, retries : 0 .. MaxRetries, config : Nat, tokens : Pairs,
           todo : SUBSET Recordings, new : SUBSET NewRows]
Sends == [step : {"enqueue"}, retries : 0 .. MaxRetries, new : SUBSET Recordings]
Runs == Idles \union Loads \union Lists \union Checks \union Sends
RunOK == run \in [Workers -> Runs]

(* A run adds a recording once: it is not among those still to be checked. *)
AddsOnce ==
  \A w \in Workers :
    run[w].step = "check" =>
      /\ IsFiniteSet(run[w].new)
      /\ \A n \in run[w].new : n.rec \notin run[w].todo
      /\ \A n, k \in run[w].new : n.rec = k.rec => n = k

(* Unless two runs imported a recording at a time, it has one meeting, or  *)
(* one that is not committed, and that of one run.                         *)
OneMeeting == \A r \in Recordings \ overlap : \A a, b \in Existing(r) : a = b
NotYetSaved == \A w \in Workers : \A n \in Unsaved(w) : n.rec \notin overlap => Existing(n.rec) = {}
OneRun ==
  \A v, w \in Workers : v # w =>
    \A n \in Unsaved(v), k \in Unsaved(w) : n.rec = k.rec => n.rec \in overlap

(* The inductive invariant. *)
ImportInv ==
  /\ TypeOK /\ RunOK /\ AddsOnce
  /\ OneMeeting /\ NotYetSaved /\ OneRun
-----------------------------------------------------------------------------
(* Runs and rows *)

(* The step of a run tells its fields.                                     *)
LEMMA RunKinds ==
  ASSUME RunOK, NEW w \in Workers
  PROVE  /\ run[w].step = "load" => run[w] \in Loads
         /\ run[w].step = "list" => run[w] \in Lists
         /\ run[w].step = "check" => run[w] \in Checks
         /\ run[w].step = "enqueue" => run[w] \in Sends
         /\ run[w].step # "idle" => run[w].retries \in 0 .. MaxRetries
BY DEF RunOK, Runs, Idles, Loads, Lists, Checks, Sends

(* The rows of a commit are drafts, one of each recording: as many indices *)
(* as recordings, and each of these has one.                               *)
LEMMA RowsOfType ==
  ASSUME NEW new \in SUBSET NewRows, IsFiniteSet(new),
         \A n, k \in new : n.rec = k.rec => n = k
  PROVE  /\ RowsOf(new) \in Seq(Rows)
         /\ \A k \in DOMAIN RowsOf(new) : \E n \in new : RowsOf(new)[k].rec = n.rec
         /\ \A j, k \in DOMAIN RowsOf(new) : RowsOf(new)[j].rec = RowsOf(new)[k].rec => j = k
<1> DEFINE N == Cardinality(new)
           drafts == {[rec |-> n.rec, text |-> n.text, status |-> "draft"] : n \in new}
           recs == {n.rec : n \in new}
           ok(q) == \A n \in new : \E k \in DOMAIN q : q[k].rec = n.rec
<1>1. N \in Nat /\ ExistsBijection(1 .. N, new)
  BY FS_CardinalityType
<1>2. PICK f \in Bijection(1 .. N, new) : TRUE
  BY <1>1, Fun_ExistsBij
<1>3. f \in [1 .. N -> new] /\ \A n \in new : \E k \in 1 .. N : f[k] = n
  <2> HIDE DEF N
  <2>1. \A n \in new : \E k \in 1 .. N : f[k] = n
    BY <1>2 DEF Bijection, Surjection
  <2>2. f \in [1 .. N -> new]
    BY <1>2, Fun_BijectionProperties
  <2> QED
    BY <2>1, <2>2
<1> DEFINE p == [k \in 1 .. N |-> [rec |-> f[k].rec, text |-> f[k].text, status |-> "draft"]]
<1>4. p \in [1 .. N -> drafts] /\ ok(p)
  <2>1. p \in [1 .. N -> drafts]
    BY <1>3
  <2>2. ASSUME NEW n \in new
        PROVE  \E k \in DOMAIN p : p[k].rec = n.rec
    BY <1>3
  <2> QED
    BY <2>1, <2>2
<1> DEFINE q == RowsOf(new)
<1>5. q \in [1 .. N -> drafts] /\ ok(q)
  <2>1. \E x \in [1 .. N -> drafts] : ok(x)
    BY <1>4
  <2>2. q = CHOOSE x \in [1 .. N -> drafts] : ok(x)
    BY DEF RowsOf
  <2> HIDE DEF q, ok, N, drafts
  <2> QED
    BY <2>1, <2>2
<1> HIDE DEF q
<1>6. \A d \in drafts : d \in Rows /\ \E n \in new : d.rec = n.rec
  BY DEF Rows, Statuses, NewRows
<1>7. q \in Seq(Rows) /\ DOMAIN q = 1 .. N
  <2>1. \A k \in 1 .. N : q[k] \in Rows
    BY <1>5, <1>6
  <2>2. DOMAIN q = 1 .. N /\ q = [k \in 1 .. N |-> q[k]]
    BY <1>5
  <2>3. q \in [1 .. N -> Rows]
    BY <2>1, <2>2
  <2> QED
    BY <1>1, <2>2, <2>3
<1>8. \A k \in DOMAIN q : \E n \in new : q[k].rec = n.rec
  BY <1>5, <1>6, <1>7
<1>9. IsFiniteSet(recs) /\ Cardinality(recs) = N
  <2> DEFINE g == [n \in new |-> n.rec]
  <2>1. g \in Bijection(new, recs)
    <3>1. g \in [new -> recs]
      OBVIOUS
    <3>2. \A n, k \in new : g[n] = g[k] => n = k
      OBVIOUS
    <3>3. \A r \in recs : \E n \in new : g[n] = r
      OBVIOUS
    <3> QED
      BY <3>1, <3>2, <3>3, Fun_IsBij
  <2>2. ExistsBijection(new, recs)
    BY <2>1, Fun_ExistsBij
  <2> QED
    BY <2>2, FS_Bijection
<1>10. \A j, k \in DOMAIN q : q[j].rec = q[k].rec => j = k
  <2> DEFINE h == [k \in 1 .. N |-> q[k].rec]
  <2>1. h \in [1 .. N -> recs]
    BY <1>7, <1>8
  <2>2. \A r \in recs : \E k \in 1 .. N : h[k] = r
    BY <1>5, <1>7
  <2>3. h \in Surjection(1 .. N, recs)
    BY <2>1, <2>2, Fun_IsSurj
  <2>4. IsFiniteSet(1 .. N) /\ Cardinality(1 .. N) = N
    BY <1>1, FS_Interval
  <2>5. h \in Injection(1 .. N, recs)
    BY <1>9, <2>3, <2>4, FS_SurjSameCardinalityImpliesInj
  <2>6. \A j, k \in 1 .. N : h[j] = h[k] => j = k
    <3> HIDE DEF h, N, recs
    <3> QED
      BY <2>5, Fun_InjectionProperties
  <2> QED
    BY <2>6, <1>7
<1> QED
  BY <1>7, <1>8, <1>10 DEF q
-----------------------------------------------------------------------------
(* Steps that import nothing *)

(* The meetings that v is about to import are not other ones than before.  *)
SameImport(v) ==
  \/ run'[v].step # "check"
  \/ run'[v].new = {}
  \/ run[v].step = "check" /\ run'[v].new = run[v].new /\ run'[v].todo \subseteq run[v].todo

Quiet ==
  /\ overlap' = overlap
  /\ \A v \in Workers : SameImport(v)
  /\ \A r \in Recordings : Existing(r)' \subseteq Existing(r)

(* Such a step disturbs nothing.                                           *)
LEMMA QuietStep ==
  ASSUME ImportInv, TypeOK', RunOK', Quiet
  PROVE  ImportInv'
<1>1. AddsOnce'
  <2> SUFFICES ASSUME NEW v \in Workers, run'[v].step = "check"
               PROVE  /\ IsFiniteSet(run'[v].new)
                      /\ \A n \in run'[v].new : n.rec \notin run'[v].todo
                      /\ \A n, k \in run'[v].new : n.rec = k.rec => n = k
    BY Zenon DEF AddsOnce
  <2>1. CASE run'[v].new = {}
    BY <2>1, FS_EmptySet
  <2>2. CASE run'[v].new # {}
    <3>1. run[v].step = "check" /\ run'[v].new = run[v].new /\ run'[v].todo \subseteq run[v].todo
      BY <2>2 DEF Quiet, SameImport
    <3>2. /\ IsFiniteSet(run[v].new)
          /\ \A n \in run[v].new : n.rec \notin run[v].todo
          /\ \A n, k \in run[v].new : n.rec = k.rec => n = k
      BY <3>1 DEF ImportInv, AddsOnce
    <3> QED
      BY <3>1, <3>2
  <2> QED
    BY <2>1, <2>2
<1>2. OneMeeting'
  <2> SUFFICES ASSUME NEW r \in Recordings \ overlap', NEW a \in Existing(r)', NEW b \in Existing(r)'
               PROVE  a = b
    BY Zenon DEF OneMeeting
  <2> QED
    BY DEF ImportInv, OneMeeting, Quiet
<1>3. \A v \in Workers : Unsaved(v)' \subseteq Unsaved(v)
  BY DEF Quiet, SameImport, Unsaved
<1>4. \A v \in Workers : \A n \in Unsaved(v) : n.rec \in Recordings
  BY RunKinds DEF ImportInv, Unsaved, Checks, NewRows
<1>5. NotYetSaved'
  <2> SUFFICES ASSUME NEW v \in Workers, NEW n \in Unsaved(v)', n.rec \notin overlap'
               PROVE  Existing(n.rec)' = {}
    BY Zenon DEF NotYetSaved
  <2>1. n \in Unsaved(v) /\ n.rec \in Recordings /\ n.rec \notin overlap
    BY <1>3, <1>4 DEF Quiet
  <2>2. Existing(n.rec) = {}
    BY <2>1 DEF ImportInv, NotYetSaved
  <2> QED
    BY <2>1, <2>2 DEF Quiet
<1>6. OneRun'
  <2> SUFFICES ASSUME NEW v \in Workers, NEW w \in Workers, v # w,
                      NEW n \in Unsaved(v)', NEW k \in Unsaved(w)', n.rec = k.rec
               PROVE  n.rec \in overlap'
    BY Zenon DEF OneRun
  <2> QED
    BY <1>3 DEF ImportInv, OneRun, Quiet
<1> QED
  BY <1>1, <1>2, <1>5, <1>6 DEF ImportInv

(* A worker goes over to j.                                                *)
LEMMA GoesOn ==
  ASSUME RunOK, NEW w \in Workers, NEW j \in Runs, run' = [run EXCEPT ![w] = j],
         \/ j.step # "check"
         \/ j.new = {}
         \/ run[w].step = "check" /\ j.new = run[w].new /\ j.todo \subseteq run[w].todo
  PROVE  RunOK' /\ \A v \in Workers : SameImport(v)
<1>1. run'[w] = j /\ \A v \in Workers \ {w} : run'[v] = run[v]
  BY DEF RunOK
<1>2. RunOK'
  BY DEF RunOK
<1>3. ASSUME NEW v \in Workers \ {w}
      PROVE  SameImport(v)
  BY <1>1 DEF SameImport
<1>4. SameImport(w)
  BY <1>1 DEF SameImport
<1> QED
  BY <1>2, <1>3, <1>4

(* Meetings that are left alone.                                           *)
LEMMA SameMeetings ==
  ASSUME meeting' = meeting
  PROVE  \A r : Existing(r)' = Existing(r)
BY DEF Existing

(* Parts of the types.                                                     *)
LEMMA Parts ==
  ASSUME TypeOK
  PROVE  /\ tasks \in [0 .. MaxRetries -> Nat] /\ events \in 0 .. MaxEvents
         /\ meeting \in Seq(Rows) /\ extractions \subseteq DOMAIN meeting
         /\ epoch \in Nat /\ issued \in Nat /\ overlap \subseteq Recordings
         /\ config \in {NoConfig} \union [id : Nat \ {0}, access : Nat, refresh : Nat]
BY Zenon DEF TypeOK, Rows, Statuses

(* A task is enqueued.                                                     *)
LEMMA EnqueueType ==
  ASSUME TypeOK, NEW k \in 0 .. MaxRetries, Enqueue(k)
  PROVE  tasks' \in [0 .. MaxRetries -> Nat]
BY Parts DEF Enqueue

(* A run that fails is sent again if it has retries left.                  *)
LEMMA FailForm ==
  ASSUME TypeOK, RunOK, NEW w \in Workers, run[w].step # "idle", Fail(w)
  PROVE  /\ tasks' \in [0 .. MaxRetries -> Nat]
         /\ RunOK' /\ \A v \in Workers : SameImport(v)
<1>1. NoRun \in Runs /\ NoRun.step # "check"
  BY DEF NoRun, Runs, Idles
<1>2. run[w].retries \in 0 .. MaxRetries
  BY RunKinds
<1>3. tasks' \in [0 .. MaxRetries -> Nat]
  <2>1. CASE run[w].retries < MaxRetries
    <3>1. run[w].retries + 1 \in 0 .. MaxRetries /\ Enqueue(run[w].retries + 1)
      BY <1>2, <2>1, PlatformAssumption DEF Fail
    <3> QED
      BY <3>1, EnqueueType
  <2>2. CASE ~(run[w].retries < MaxRetries)
    BY <2>2, Parts DEF Fail
  <2> QED
    BY <2>1, <2>2
<1>4. run' = [run EXCEPT ![w] = NoRun]
  BY DEF Fail
<1> QED
  BY <1>1, <1>3, <1>4, GoesOn

(* An event is counted.                                                    *)
LEMMA EventType ==
  ASSUME TypeOK, Event
  PROVE  events' \in 0 .. MaxEvents
BY Parts, PlatformAssumption DEF Event

(* The types after a step of a worker.                                     *)
LEMMA WorkerType ==
  ASSUME TypeOK, RunOK', UNCHANGED <<platform, logLevel, config, epoch, recording>>,
         issued' \in Nat, meeting' \in Seq(Rows), tasks' \in [0 .. MaxRetries -> Nat],
         extractions' \subseteq DOMAIN meeting', overlap' \subseteq Recordings, events' \in 0 .. MaxEvents
  PROVE  TypeOK'
<1>1. \A w \in Workers : run'[w].step \in {"idle", "load", "list", "check", "enqueue"}
  BY DEF RunOK, Runs, Idles, Loads, Lists, Checks, Sends
<1> QED
  BY Zenon, <1>1 DEF TypeOK, Rows, Statuses

(* Tokens are numbers, and so is the newest of them.                       *)
LEMMA TokenTypes ==
  ASSUME TypeOK, NEW t \in Pairs
  PROVE  Refreshed(t) \in Pairs /\ Issued(t) \in Nat
BY Parts DEF Refreshed, Issued, Pairs

(* A recording that is listed is one of the account.                       *)
LEMMA ListedType == Listed \subseteq Recordings
<1>1. ZoomRecordings \subseteq Recordings /\ TeamsMeetings \subseteq Recordings /\ MeetConferences \subseteq Recordings
  BY Zenon DEF ZoomRecordings, TeamsMeetings, MeetConferences
<1> QED
  BY <1>1 DEF Listed

(* A worker takes a task.                                                  *)
LEMMA ReceiveStep ==
  ASSUME TypeOK, RunOK, NEW w \in Workers, Receive(w)
  PROVE  TypeOK' /\ RunOK' /\ Quiet
<1>1. PICK k \in 0 .. MaxRetries :
        /\ tasks[k] > 0
        /\ tasks' = [tasks EXCEPT ![k] = @ - 1]
        /\ run' = [run EXCEPT ![w] = [step |-> "load", retries |-> k]]
  BY DEF Receive
<1>2. tasks' \in [0 .. MaxRetries -> Nat]
  BY <1>1, Parts
<1>3. UNCHANGED <<platform, logLevel, config, epoch, issued, recording, meeting, extractions, overlap, events>>
  BY DEF Receive, account
<1> DEFINE j == [step |-> "load", retries |-> k]
<1>4. j \in Runs /\ j.step # "check"
  BY DEF Runs, Loads
<1>5. RunOK' /\ \A v \in Workers : SameImport(v)
  <2> HIDE DEF j
  <2> QED
    BY <1>1, <1>4, GoesOn DEF j
<1>6. TypeOK'
  BY <1>2, <1>3, <1>5, Parts, WorkerType
<1>7. Quiet
  BY <1>3, <1>5, SameMeetings DEF Quiet
<1> QED
  BY <1>5, <1>6, <1>7

(* The connection is found.                                                *)
LEMMA LoadConfigStep ==
  ASSUME TypeOK, RunOK, NEW w \in Workers, LoadConfig(w)
  PROVE  TypeOK' /\ RunOK' /\ Quiet
<1> DEFINE j == [step |-> "list", retries |-> run[w].retries, config |-> config.id,
                 tokens |-> [access |-> config.access, refresh |-> config.refresh]]
<1>1. run' = [run EXCEPT ![w] = j]
  BY DEF LoadConfig
<1>2. run[w].step = "load" /\ config # NoConfig
  BY DEF LoadConfig
<1>3. config \in [id : Nat \ {0}, access : Nat, refresh : Nat]
  BY <1>2, Parts
<1>4. j \in Lists
  BY <1>2, <1>3, RunKinds DEF Lists, Pairs
<1>5. j \in Runs /\ j.step # "check"
  BY <1>4 DEF Runs, Lists
<1> HIDE DEF j
<1>6. RunOK' /\ \A v \in Workers : SameImport(v)
  BY <1>1, <1>5, GoesOn
<1>7. UNCHANGED <<platform, logLevel, config, epoch, issued, recording, meeting, tasks, extractions, overlap, events>>
  BY DEF LoadConfig, account, queues
<1>8. TypeOK'
  BY <1>6, <1>7, Parts, WorkerType
<1> QED
  BY <1>6, <1>7, <1>8, SameMeetings DEF Quiet

(* There is no connection any more.                                        *)
LEMMA ConfigNotFoundStep ==
  ASSUME TypeOK, RunOK, NEW w \in Workers, ConfigNotFound(w)
  PROVE  TypeOK' /\ RunOK' /\ Quiet
<1>1. run[w].step # "idle"
  BY DEF ConfigNotFound
<1>2. UNCHANGED <<platform, logLevel, config, epoch, issued, recording, meeting, extractions, overlap, events>>
  BY DEF ConfigNotFound, account
<1>3. /\ tasks' \in [0 .. MaxRetries -> Nat]
      /\ RunOK' /\ \A v \in Workers : SameImport(v)
  <2>1. CASE Fail(w)
    BY <1>1, <2>1, FailForm
  <2>2. CASE run' = [run EXCEPT ![w] = NoRun] /\ UNCHANGED tasks
    <3>1. NoRun \in Runs /\ NoRun.step # "check"
      BY DEF NoRun, Runs, Idles
    <3> QED
      BY <2>2, <3>1, GoesOn, Parts
  <2> QED
    BY <2>1, <2>2 DEF ConfigNotFound
<1>4. TypeOK'
  BY <1>2, <1>3, Parts, WorkerType
<1> QED
  BY <1>2, <1>3, <1>4, SameMeetings DEF Quiet

(* The recordings are listed, and nothing is added yet.                    *)
LEMMA ListRecordingsStep ==
  ASSUME TypeOK, RunOK, NEW w \in Workers, ListRecordings(w)
  PROVE  TypeOK' /\ RunOK' /\ Quiet
<1>1. run[w].step = "list" /\ run[w] \in Lists
  BY RunKinds DEF ListRecordings
<1>2. run[w].tokens \in Pairs
  BY <1>1 DEF Lists
<1>3. issued' = Issued(run[w].tokens)
  BY DEF ListRecordings
<1>4. UNCHANGED <<platform, logLevel, config, epoch, recording, meeting, extractions, overlap, events>>
  BY DEF ListRecordings
<1>5. /\ tasks' \in [0 .. MaxRetries -> Nat]
      /\ RunOK' /\ \A v \in Workers : SameImport(v)
  <2>1. CASE Fail(w)
    BY <1>1, <2>1, FailForm
  <2>2. CASE ~Fail(w)
    <3> DEFINE j == [step |-> "check", retries |-> run[w].retries, config |-> run[w].config,
                     tokens |-> Refreshed(run[w].tokens), todo |-> Listed, new |-> {}]
    <3>1. run' = [run EXCEPT ![w] = j] /\ UNCHANGED tasks
      BY <2>2 DEF ListRecordings
    <3>2. Refreshed(run[w].tokens) \in Pairs
      BY <1>2, TokenTypes
    <3>3. run[w].retries \in 0 .. MaxRetries /\ run[w].config \in Nat
      BY <1>1 DEF Lists
    <3>4. j \in Checks /\ j.new = {}
      BY <3>2, <3>3, ListedType DEF Checks
    <3>5. j \in Runs
      BY <3>4 DEF Runs
    <3> HIDE DEF j
    <3> QED
      BY <3>1, <3>4, <3>5, GoesOn, Parts
  <2> QED
    BY <2>1, <2>2
<1>6. TypeOK'
  BY <1>2, <1>3, <1>4, <1>5, Parts, TokenTypes, WorkerType
<1> QED
  BY <1>4, <1>5, <1>6, SameMeetings DEF Quiet

(* The recordings cannot be listed.                                        *)
LEMMA ListFailsStep ==
  ASSUME TypeOK, RunOK, NEW w \in Workers, ListFails(w)
  PROVE  TypeOK' /\ RunOK' /\ Quiet
<1>1. run[w].step # "idle" /\ Fail(w)
  BY DEF ListFails
<1>2. UNCHANGED <<platform, logLevel, config, epoch, issued, recording, meeting, extractions, overlap>>
  BY DEF ListFails, account
<1>3. events' \in 0 .. MaxEvents
  BY EventType, Parts DEF ListFails
<1>4. /\ tasks' \in [0 .. MaxRetries -> Nat]
      /\ RunOK' /\ \A v \in Workers : SameImport(v)
  BY <1>1, FailForm
<1>5. TypeOK'
  BY <1>2, <1>3, <1>4, Parts, WorkerType
<1> QED
  BY <1>2, <1>4, <1>5, SameMeetings DEF Quiet

(* A recording is passed over.                                             *)
LEMMA SkipImportedStep ==
  ASSUME TypeOK, RunOK, NEW w \in Workers, SkipImported(w)
  PROVE  TypeOK' /\ RunOK' /\ Quiet
<1>1. run[w].step = "check" /\ run[w] \in Checks
  BY RunKinds DEF SkipImported
<1>2. PICK r : run' = [run EXCEPT ![w].todo = @ \ {r}]
  BY DEF SkipImported
<1> DEFINE j == [run[w] EXCEPT !.todo = @ \ {r}]
<1>3. run' = [run EXCEPT ![w] = j]
  BY <1>2
<1>4. j \in Checks /\ j.new = run[w].new /\ j.todo \subseteq run[w].todo
  BY <1>1 DEF Checks
<1>5. j \in Runs
  BY <1>4 DEF Runs
<1> HIDE DEF j
<1>6. RunOK' /\ \A v \in Workers : SameImport(v)
  BY <1>1, <1>3, <1>4, <1>5, GoesOn
<1>7. UNCHANGED <<platform, logLevel, config, epoch, issued, recording, meeting, tasks, extractions, overlap, events>>
  BY DEF SkipImported, account, queues
<1>8. TypeOK'
  BY <1>6, <1>7, Parts, WorkerType
<1> QED
  BY <1>6, <1>7, <1>8, SameMeetings DEF Quiet

(* Two meetings of a recording end the run.                                *)
LEMMA FindTwoMeetingsStep ==
  ASSUME TypeOK, RunOK, NEW w \in Workers, FindTwoMeetings(w)
  PROVE  TypeOK' /\ RunOK' /\ Quiet
<1>1. run[w].step # "idle" /\ Fail(w)
  BY DEF FindTwoMeetings
<1>2. UNCHANGED <<platform, logLevel, config, epoch, issued, recording, meeting, extractions, overlap, events>>
  BY DEF FindTwoMeetings, account
<1>3. /\ tasks' \in [0 .. MaxRetries -> Nat]
      /\ RunOK' /\ \A v \in Workers : SameImport(v)
  BY <1>1, FailForm
<1>4. TypeOK'
  BY <1>2, <1>3, Parts, WorkerType
<1> QED
  BY <1>2, <1>3, <1>4, SameMeetings DEF Quiet

(* The extractions are enqueued and the run ends.                          *)
LEMMA EnqueueExtractionsStep ==
  ASSUME TypeOK, RunOK, NEW w \in Workers, EnqueueExtractions(w)
  PROVE  TypeOK' /\ RunOK' /\ Quiet
<1>1. NoRun \in Runs /\ NoRun.step # "check"
  BY DEF NoRun, Runs, Idles
<1>2. run' = [run EXCEPT ![w] = NoRun]
  BY DEF EnqueueExtractions
<1>3. RunOK' /\ \A v \in Workers : SameImport(v)
  BY <1>1, <1>2, GoesOn
<1>4. UNCHANGED <<platform, logLevel, config, epoch, issued, recording, meeting, tasks, overlap, events>>
  BY DEF EnqueueExtractions, account
<1>5. extractions' \subseteq DOMAIN meeting
  BY Parts DEF EnqueueExtractions, Send, Drafts
<1>6. TypeOK'
  BY <1>3, <1>4, <1>5, Parts, WorkerType
<1> QED
  BY <1>3, <1>4, <1>6, SameMeetings DEF Quiet

(* The broker takes some of them, and the run fails.                       *)
LEMMA EnqueueFailsStep ==
  ASSUME TypeOK, RunOK, NEW w \in Workers, EnqueueFails(w)
  PROVE  TypeOK' /\ RunOK' /\ Quiet
<1>1. run[w].step # "idle" /\ Fail(w) /\ Event
  BY DEF EnqueueFails
<1>2. UNCHANGED <<platform, logLevel, config, epoch, issued, recording, meeting, overlap>>
  BY DEF EnqueueFails, account
<1>3. /\ tasks' \in [0 .. MaxRetries -> Nat]
      /\ RunOK' /\ \A v \in Workers : SameImport(v)
  BY <1>1, FailForm
<1>4. extractions' \subseteq DOMAIN meeting
  BY Parts DEF EnqueueFails, Send, Drafts
<1>5. TypeOK'
  BY <1>1, <1>2, <1>3, <1>4, Parts, EventType, WorkerType
<1> QED
  BY <1>2, <1>3, <1>5, SameMeetings DEF Quiet

(* The process of a run dies.                                              *)
LEMMA CrashStep ==
  ASSUME TypeOK, RunOK, NEW w \in Workers, Crash(w)
  PROVE  TypeOK' /\ RunOK' /\ Quiet
<1>1. run[w].step # "idle" /\ Event /\ Enqueue(run[w].retries) /\ run' = [run EXCEPT ![w] = NoRun]
  BY DEF Crash
<1>2. UNCHANGED <<platform, logLevel, config, epoch, issued, recording, meeting, extractions, overlap>>
  BY DEF Crash, account
<1>3. NoRun \in Runs /\ NoRun.step # "check"
  BY DEF NoRun, Runs, Idles
<1>4. RunOK' /\ \A v \in Workers : SameImport(v)
  BY <1>1, <1>3, GoesOn
<1>5. tasks' \in [0 .. MaxRetries -> Nat]
  BY <1>1, RunKinds, EnqueueType
<1>6. TypeOK'
  BY <1>1, <1>2, <1>4, <1>5, Parts, EventType, WorkerType
<1> QED
  BY <1>2, <1>4, <1>6, SameMeetings DEF Quiet

(* Where no worker moves, the runs are as they were.                       *)
LEMMA RunsRest ==
  ASSUME RunOK, run' = run
  PROVE  RunOK' /\ \A v \in Workers : SameImport(v)
<1>1. RunOK'
  BY DEF RunOK
<1> QED
  BY <1>1 DEF SameImport

(* A sync task is enqueued, by Beat or by a user.                          *)
LEMMA SyncStep ==
  ASSUME TypeOK, RunOK, SyncAllPlatforms \/ TriggerSync
  PROVE  TypeOK' /\ RunOK' /\ Quiet
<1>1. /\ Enqueue(0) /\ (Event \/ UNCHANGED events)
      /\ UNCHANGED <<platform, logLevel, config, epoch, issued, recording, meeting, extractions, run, overlap>>
  BY DEF SyncAllPlatforms, TriggerSync, account
<1>2. tasks' \in [0 .. MaxRetries -> Nat] /\ events' \in 0 .. MaxEvents
  BY <1>1, Parts, EventType, EnqueueType, PlatformAssumption
<1>3. RunOK' /\ \A v \in Workers : SameImport(v)
  BY <1>1, RunsRest
<1>4. TypeOK'
  BY <1>1, <1>2, <1>3, Parts, WorkerType
<1> QED
  BY <1>1, <1>3, <1>4, SameMeetings DEF Quiet

(* A meeting changes its status, but a deleted one stays deleted.          *)
LEMMA StatusChange ==
  ASSUME TypeOK, NEW m \in DOMAIN meeting, NEW st \in Statuses,
         meeting[m].status = "deleted" => st = "deleted",
         meeting' = [meeting EXCEPT ![m].status = st]
  PROVE  /\ meeting' \in Seq(Rows) /\ DOMAIN meeting' = DOMAIN meeting /\ Len(meeting') = Len(meeting)
         /\ \A r : Existing(r)' \subseteq Existing(r)
<1>1. meeting \in Seq(Rows) /\ meeting[m] \in Rows
  BY Parts
<1> DEFINE x == [meeting[m] EXCEPT !.status = st]
<1>2. x \in Rows /\ x.rec = meeting[m].rec /\ x.status = st
  BY <1>1 DEF Rows
<1>3. meeting' = [meeting EXCEPT ![m] = x]
  OBVIOUS
<1> HIDE DEF x
<1>4. meeting' \in Seq(Rows) /\ DOMAIN meeting' = DOMAIN meeting /\ Len(meeting') = Len(meeting)
  BY <1>1, <1>2, <1>3
<1>5. meeting'[m] = x /\ \A k \in DOMAIN meeting \ {m} : meeting'[k] = meeting[k]
  BY <1>1, <1>3
<1>6. ASSUME NEW r, NEW k \in Existing(r)'
      PROVE  k \in Existing(r)
  <2>1. k \in DOMAIN meeting /\ meeting'[k].rec = r /\ meeting'[k].status # "deleted"
    BY <1>4, <1>6 DEF Existing
  <2>2. CASE k = m
    BY <1>2, <1>5, <2>1, <2>2 DEF Existing
  <2>3. CASE k # m
    BY <1>5, <2>1, <2>3 DEF Existing
  <2> QED
    BY <2>2, <2>3
<1> QED
  BY <1>4, <1>6

(* An extraction ends, well or not.                                        *)
LEMMA ExtractStep ==
  ASSUME TypeOK, RunOK, NEW m \in DOMAIN meeting, ExtractMeeting(m) \/ ExtractionFails(m)
  PROVE  TypeOK' /\ RunOK' /\ Quiet /\ Len(meeting') = Len(meeting)
<1>1. /\ extractions' = extractions \ {m} /\ (Event \/ UNCHANGED events)
      /\ UNCHANGED <<platform, logLevel, config, epoch, issued, recording, tasks, run, overlap>>
  <2>1. CASE ExtractMeeting(m)
    BY <2>1 DEF ExtractMeeting, account
  <2>2. CASE ExtractionFails(m)
    BY <2>2 DEF ExtractionFails, account
  <2> QED
    BY <2>1, <2>2
<1>2. meeting[m].status \in Statuses
  <2>1. meeting[m] \in Rows
    BY Parts
  <2> QED
    BY <2>1 DEF Rows
<1>3. PICK st \in Statuses : /\ meeting[m].status = "deleted" => st = "deleted"
                             /\ meeting' = [meeting EXCEPT ![m].status = st]
  <2>1. CASE ExtractMeeting(m)
    BY <2>1, <1>2 DEF ExtractMeeting, Statuses
  <2>2. CASE ExtractionFails(m)
    BY <2>2, <1>2 DEF ExtractionFails, FailedStatus, Statuses
  <2> QED
    BY <2>1, <2>2
<1>4. /\ meeting' \in Seq(Rows) /\ DOMAIN meeting' = DOMAIN meeting /\ Len(meeting') = Len(meeting)
      /\ \A r : Existing(r)' \subseteq Existing(r)
  BY <1>3, StatusChange
<1>5. RunOK' /\ \A v \in Workers : SameImport(v)
  BY <1>1, RunsRest
<1>6. TypeOK'
  BY <1>1, <1>4, <1>5, Parts, EventType, WorkerType
<1> QED
  BY <1>1, <1>4, <1>5, <1>6 DEF Quiet

(* A user deletes a meeting.                                               *)
LEMMA DeleteStep ==
  ASSUME TypeOK, RunOK, NEW m \in DOMAIN meeting, DeleteMeeting(m)
  PROVE  TypeOK' /\ RunOK' /\ Quiet /\ Len(meeting') = Len(meeting)
<1>1. /\ meeting' = [meeting EXCEPT ![m].status = "deleted"] /\ Event
      /\ UNCHANGED <<platform, logLevel, config, epoch, issued, recording, tasks, extractions, run, overlap>>
  BY DEF DeleteMeeting, account, queues
<1>2. "deleted" \in Statuses
  BY DEF Statuses
<1>3. /\ meeting' \in Seq(Rows) /\ DOMAIN meeting' = DOMAIN meeting /\ Len(meeting') = Len(meeting)
      /\ \A r : Existing(r)' \subseteq Existing(r)
  BY <1>1, <1>2, StatusChange
<1>4. RunOK' /\ \A v \in Workers : SameImport(v)
  BY <1>1, RunsRest
<1>5. TypeOK'
  BY <1>1, <1>3, <1>4, Parts, EventType, WorkerType
<1> QED
  BY <1>1, <1>3, <1>4, <1>5 DEF Quiet

(* Steps outside the workers and the meetings.                             *)
Ages == {"future", "recent", "same day", "old"}
Texts == {"not yet", "video", "header", "text"}
Sources == [age : Ages, text : Texts, report : BOOLEAN]
Elsewhere ==
  /\ platform' = platform /\ logLevel' = logLevel
  /\ config' \in {NoConfig} \union [id : Nat \ {0}, access : Nat, refresh : Nat]
  /\ epoch' \in Nat /\ issued' \in Nat
  /\ recording' \in [Recordings -> Sources]
  /\ meeting' = meeting /\ tasks' = tasks /\ extractions' = extractions /\ run' = run
  /\ overlap' = overlap /\ events' \in 0 .. MaxEvents

(* They disturb nothing.                                                   *)
LEMMA ElsewhereStep ==
  ASSUME TypeOK, RunOK, Elsewhere
  PROVE  TypeOK' /\ RunOK' /\ Quiet /\ meeting' = meeting
<1>1. RunOK' /\ \A v \in Workers : SameImport(v)
  BY RunsRest DEF Elsewhere
<1>2. \A w \in Workers : run'[w].step \in {"idle", "load", "list", "check", "enqueue"}
  BY <1>1 DEF RunOK, Runs, Idles, Loads, Lists, Checks, Sends
<1>3. /\ platform' \in Platforms /\ logLevel' \in LogLevels /\ overlap' \subseteq Recordings
      /\ meeting' \in Seq([rec : Recordings, text : BOOLEAN,
                           status : {"draft", "extracted", "deleted"}])
      /\ tasks' \in [0 .. MaxRetries -> Nat] /\ extractions' \subseteq DOMAIN meeting'
  BY Zenon DEF TypeOK, Elsewhere
<1>4. recording' \in [Recordings -> [age : {"future", "recent", "same day", "old"},
                                     text : {"not yet", "video", "header", "text"}, report : BOOLEAN]]
  BY Zenon DEF Elsewhere, Sources, Ages, Texts
<1>5. TypeOK'
  BY Zenon, <1>2, <1>3, <1>4 DEF TypeOK, Elsewhere
<1>6. overlap' = overlap /\ meeting' = meeting
  BY Zenon DEF Elsewhere
<1> QED
  BY <1>1, <1>5, <1>6, SameMeetings DEF Quiet

(* The recordings of the account.                                          *)
LEMMA SourcesType ==
  ASSUME TypeOK
  PROVE  recording \in [Recordings -> Sources]
BY Zenon DEF TypeOK, Sources, Ages, Texts

(* A user connects the platform, again perhaps.                            *)
LEMMA OAuthCallbackStep ==
  ASSUME TypeOK, OAuthCallback
  PROVE  Elsewhere
<1>1. /\ platform' = platform /\ logLevel' = logLevel /\ epoch' = epoch /\ recording' = recording
      /\ meeting' = meeting /\ tasks' = tasks /\ extractions' = extractions /\ run' = run
      /\ overlap' = overlap /\ Event /\ issued' = issued + 1
  BY Zenon DEF OAuthCallback, queues
<1>2. ExchangeCode \subseteq Nat
  <2>1. ExchangeZoomCode \subseteq Nat /\ ExchangeTeamsCode \subseteq Nat /\ ExchangeGoogleCode \subseteq Nat
    BY Parts DEF ExchangeZoomCode, ExchangeTeamsCode, ExchangeGoogleCode, NoToken
  <2> QED
    BY <2>1 DEF ExchangeCode
<1>3. PICK token \in ExchangeCode :
        config' = [id |-> IF config = NoConfig THEN issued' ELSE config.id,
                   access |-> epoch, refresh |-> token]
  BY DEF OAuthCallback
<1>4. issued' \in Nat \ {0} /\ epoch' \in Nat
  BY <1>1, Parts
<1>5. config # NoConfig => config.id \in Nat \ {0}
  BY Parts
<1>6. config' \in [id : Nat \ {0}, access : Nat, refresh : Nat]
  BY <1>2, <1>3, <1>4, <1>5, Parts
<1>7. events' \in 0 .. MaxEvents
  BY <1>1, EventType
<1> QED
  BY Zenon, <1>1, <1>4, <1>6, <1>7, SourcesType DEF Elsewhere

(* A user disconnects it, or the platform expires the tokens.              *)
LEMMA AccountStep ==
  ASSUME TypeOK, DisconnectPlatform \/ AccessExpires
  PROVE  Elsewhere
<1>1. CASE DisconnectPlatform
  <2>1. /\ platform' = platform /\ logLevel' = logLevel /\ epoch' = epoch /\ issued' = issued
        /\ recording' = recording /\ meeting' = meeting /\ tasks' = tasks /\ extractions' = extractions
        /\ run' = run /\ overlap' = overlap /\ Event /\ config' = NoConfig
    BY Zenon, <1>1 DEF DisconnectPlatform, account, queues
  <2>2. events' \in 0 .. MaxEvents
    BY <2>1, EventType
  <2> QED
    BY Zenon, <2>1, <2>2, Parts, SourcesType DEF Elsewhere
<1>2. CASE AccessExpires
  <2>1. /\ platform' = platform /\ logLevel' = logLevel /\ config' = config /\ issued' = issued
        /\ recording' = recording /\ meeting' = meeting /\ tasks' = tasks /\ extractions' = extractions
        /\ run' = run /\ overlap' = overlap /\ Event /\ epoch' = epoch + 1
    BY Zenon, <1>2 DEF AccessExpires, queues
  <2>2. events' \in 0 .. MaxEvents
    BY <2>1, EventType
  <2>3. epoch' \in Nat
    BY <2>1, Parts
  <2> QED
    BY Zenon, <2>1, <2>2, <2>3, Parts, SourcesType DEF Elsewhere
<1> QED
  BY <1>1, <1>2

(* A recording is made, transcribed, and gets old.                         *)
LEMMA RecordingChangesStep ==
  ASSUME TypeOK, NEW r \in Recordings, RecordingChanges(r)
  PROVE  Elsewhere
<1>1. /\ platform' = platform /\ logLevel' = logLevel /\ config' = config /\ epoch' = epoch
      /\ issued' = issued /\ meeting' = meeting /\ tasks' = tasks /\ extractions' = extractions
      /\ run' = run /\ overlap' = overlap /\ events' = events
  BY Zenon DEF RecordingChanges, account, queues
<1>2. recording[r] \in Sources /\ recording \in [Recordings -> Sources]
  BY SourcesType
<1>3. "recent" \in Ages
  BY Zenon DEF Ages
<1>4. {"same day", "old"} \subseteq Ages /\ {"video", "header", "text"} \subseteq Texts
  BY Zenon DEF Ages, Texts
<1>5. \E s \in Sources : recording' = [recording EXCEPT ![r] = s]
  <2>1. CASE recording' = [recording EXCEPT ![r].age = "recent"]
    <3> DEFINE s == [recording[r] EXCEPT !.age = "recent"]
    <3>1. s \in Sources
      BY <1>2, <1>3 DEF Sources
    <3>2. recording' = [recording EXCEPT ![r] = s]
      BY Zenon, <2>1
    <3> QED
      BY Zenon, <3>1, <3>2
  <2>2. CASE \E text \in Texts : recording' = [recording EXCEPT ![r].text = text]
    <3>1. PICK text \in Texts : recording' = [recording EXCEPT ![r].text = text]
      BY <2>2
    <3> DEFINE s == [recording[r] EXCEPT !.text = text]
    <3>2. s \in Sources
      BY <1>2 DEF Sources
    <3>3. recording' = [recording EXCEPT ![r] = s]
      BY Zenon, <3>1
    <3> QED
      BY Zenon, <3>2, <3>3
  <2>3. CASE \E age \in Ages : recording' = [recording EXCEPT ![r].age = age]
    <3>1. PICK age \in Ages : recording' = [recording EXCEPT ![r].age = age]
      BY <2>3
    <3> DEFINE s == [recording[r] EXCEPT !.age = age]
    <3>2. s \in Sources
      BY <1>2 DEF Sources
    <3>3. recording' = [recording EXCEPT ![r] = s]
      BY Zenon, <3>1
    <3> QED
      BY Zenon, <3>2, <3>3
  <2> QED
    BY Zenon, <1>4, <2>1, <2>2, <2>3 DEF RecordingChanges
<1>6. recording' \in [Recordings -> Sources]
  BY <1>2, <1>5
<1> QED
  BY Zenon, <1>1, <1>6, Parts DEF Elsewhere
-----------------------------------------------------------------------------
(* Steps that import *)

(* A meeting of recording r is added, not yet committed.                   *)
Adds(w, r) ==
  /\ run[w].step = "check" /\ r \in run[w].todo /\ Existing(r) = {} /\ meeting' = meeting
  /\ run'[w].step = "check" /\ run'[w].todo = run[w].todo \ {r}
  /\ \E text \in BOOLEAN : run'[w].new = run[w].new \union {[rec |-> r, text |-> text]}
  /\ \A v \in Workers \ {w} : run'[v] = run[v]
  /\ overlap \subseteq overlap'
  /\ \A v \in Workers \ {w} : \A n \in Unsaved(v) : n.rec = r => r \in overlap'

(* Adding is done with what the run knows.                                 *)
LEMMA AddForm ==
  ASSUME TypeOK, RunOK, NEW w \in Workers, NEW r \in run[w].todo, NEW text \in BOOLEAN,
         run[w].step = "check", Existing(r) = {}, Add(w, r, text), meeting' = meeting
  PROVE  /\ RunOK' /\ Adds(w, r)
         /\ issued' \in Nat /\ overlap' \subseteq Recordings
<1>1. run[w] \in Checks
  BY RunKinds
<1>2. r \in Recordings /\ run[w].tokens \in Pairs
  BY <1>1 DEF Checks
<1> DEFINE row == [rec |-> r, text |-> text]
           j == [run[w] EXCEPT !.todo = @ \ {r}, !.new = @ \union {row}, !.tokens = Refreshed(@)]
<1>3. run' = [run EXCEPT ![w] = j]
  BY DEF Add
<1>4. row \in NewRows /\ Refreshed(run[w].tokens) \in Pairs /\ Issued(run[w].tokens) \in Nat
  BY <1>2, TokenTypes DEF NewRows
<1>5. /\ j \in Checks /\ j.step = "check" /\ j.todo = run[w].todo \ {r}
      /\ j.new = run[w].new \union {row}
  <2> HIDE DEF row
  <2> QED
    BY <1>1, <1>4 DEF Checks
<1>6. j \in Runs
  BY <1>5 DEF Runs
<1>7. /\ run'[w].step = "check" /\ run'[w].todo = run[w].todo \ {r}
      /\ run'[w].new = run[w].new \union {row}
      /\ RunOK' /\ \A v \in Workers \ {w} : run'[v] = run[v]
  <2> HIDE DEF j, row
  <2> QED
    BY <1>3, <1>5, <1>6 DEF RunOK
<1>8. overlap' = overlap \union {q \in {r} : \E v \in Workers \ {w} : \E n \in Unsaved(v) : n.rec = q}
  BY DEF Add
<1>9. \A v \in Workers \ {w} : \A n \in Unsaved(v) : n.rec = r => r \in overlap'
  BY <1>8
<1>10. overlap' \subseteq Recordings /\ overlap \subseteq overlap'
  BY <1>2, <1>8, Parts
<1>11. issued' \in Nat
  BY <1>4 DEF Add
<1> QED
  BY <1>7, <1>9, <1>10, <1>11 DEF Adds

(* What is added stays one of a kind: the recording has no meeting, and    *)
(* if another run is about to import it, both are told.                    *)
LEMMA AddStep ==
  ASSUME ImportInv, TypeOK', RunOK', NEW w \in Workers, NEW r \in Recordings, Adds(w, r)
  PROVE  ImportInv'
<1>1. PICK text \in BOOLEAN : run'[w].new = run[w].new \union {[rec |-> r, text |-> text]}
  BY DEF Adds
<1> DEFINE row == [rec |-> r, text |-> text]
<1>2. row.rec = r
  OBVIOUS
<1> HIDE DEF row
<1>3. /\ run[w].step = "check" /\ r \in run[w].todo /\ Existing(r) = {}
      /\ run'[w].step = "check" /\ run'[w].todo = run[w].todo \ {r}
      /\ run'[w].new = run[w].new \union {row}
      /\ \A v \in Workers \ {w} : run'[v] = run[v]
  BY <1>1 DEF Adds, row
<1>4. overlap \subseteq overlap' /\ \A v \in Workers \ {w} : \A n \in Unsaved(v) : n.rec = r => r \in overlap'
  BY DEF Adds
<1>5. \A q : Existing(q)' = Existing(q)
  BY SameMeetings DEF Adds
<1>6. /\ Unsaved(w)' = Unsaved(w) \union {row}
      /\ \A v \in Workers \ {w} : Unsaved(v)' = Unsaved(v)
  BY <1>3 DEF Unsaved
<1>7. AddsOnce'
  <2> SUFFICES ASSUME NEW v \in Workers, run'[v].step = "check"
               PROVE  /\ IsFiniteSet(run'[v].new)
                      /\ \A n \in run'[v].new : n.rec \notin run'[v].todo
                      /\ \A n, k \in run'[v].new : n.rec = k.rec => n = k
    BY Zenon DEF AddsOnce
  <2>1. CASE v # w
    <3>1. run'[v] = run[v]
      BY <1>3, <2>1
    <3> QED
      BY <3>1 DEF ImportInv, AddsOnce
  <2>2. CASE v = w
    <3>1. /\ IsFiniteSet(run[w].new)
          /\ \A n \in run[w].new : n.rec \notin run[w].todo
          /\ \A n, k \in run[w].new : n.rec = k.rec => n = k
      BY <1>3 DEF ImportInv, AddsOnce
    <3>2. IsFiniteSet(run[w].new \union {row})
      BY <3>1, FS_AddElement
    <3> QED
      BY <1>2, <1>3, <2>2, <3>1, <3>2
  <2> QED
    BY <2>1, <2>2
<1>8. OneMeeting'
  <2> SUFFICES ASSUME NEW q \in Recordings \ overlap', NEW a \in Existing(q)', NEW b \in Existing(q)'
               PROVE  a = b
    BY Zenon DEF OneMeeting
  <2> QED
    BY <1>4, <1>5 DEF ImportInv, OneMeeting
<1>9. NotYetSaved'
  <2> SUFFICES ASSUME NEW v \in Workers, NEW n \in Unsaved(v)', n.rec \notin overlap'
               PROVE  Existing(n.rec)' = {}
    BY Zenon DEF NotYetSaved
  <2>1. CASE n \in Unsaved(v)
    <3>1. Existing(n.rec) = {}
      BY <1>4, <2>1 DEF ImportInv, NotYetSaved
    <3> QED
      BY <1>5, <3>1
  <2>2. CASE n = row
    BY <1>2, <1>3, <1>5, <2>2
  <2> QED
    BY <1>6, <2>1, <2>2
<1>10. OneRun'
  <2> SUFFICES ASSUME NEW u \in Workers, NEW v \in Workers, u # v,
                      NEW n \in Unsaved(u)', NEW k \in Unsaved(v)', n.rec = k.rec
               PROVE  n.rec \in overlap'
    BY Zenon DEF OneRun
  <2>1. CASE n \in Unsaved(u) /\ k \in Unsaved(v)
    BY <1>4, <2>1 DEF ImportInv, OneRun
  <2>2. CASE n \notin Unsaved(u)
    <3>1. u = w /\ n = row
      BY <1>6, <2>2
    <3>2. k \in Unsaved(v) /\ v \in Workers \ {w}
      BY <1>6, <3>1
    <3> QED
      BY <1>2, <1>4, <3>1, <3>2
  <2>3. CASE k \notin Unsaved(v)
    <3>1. v = w /\ k = row
      BY <1>6, <2>3
    <3>2. n \in Unsaved(u) /\ u \in Workers \ {w}
      BY <1>6, <3>1
    <3> QED
      BY <1>2, <1>4, <3>1, <3>2
  <2> QED
    BY <2>1, <2>2, <2>3
<1> QED
  BY <1>7, <1>8, <1>9, <1>10 DEF ImportInv

(* A run commits what it has added.                                        *)
Commits(w) ==
  /\ run[w].step = "check" /\ run[w].config = config.id
  /\ meeting' = meeting \o RowsOf(run[w].new)
  /\ run'[w].step = "enqueue" /\ \A v \in Workers \ {w} : run'[v] = run[v]
  /\ overlap' = overlap

(* The rows that a commit appends.                                         *)
LEMMA CommitForm ==
  ASSUME ImportInv, NEW w \in Workers, Commits(w)
  PROVE  /\ RowsOf(run[w].new) \in Seq(Rows) /\ meeting \in Seq(Rows) /\ meeting' \in Seq(Rows)
         /\ DOMAIN meeting \subseteq DOMAIN meeting'
         /\ \A m \in DOMAIN meeting : meeting'[m] = meeting[m]
         /\ \A m \in DOMAIN meeting' \ DOMAIN meeting :
              /\ m - Len(meeting) \in DOMAIN RowsOf(run[w].new)
              /\ meeting'[m] = RowsOf(run[w].new)[m - Len(meeting)]
         /\ \A k \in DOMAIN RowsOf(run[w].new) : \E n \in run[w].new : RowsOf(run[w].new)[k].rec = n.rec
         /\ \A j, k \in DOMAIN RowsOf(run[w].new) :
              RowsOf(run[w].new)[j].rec = RowsOf(run[w].new)[k].rec => j = k
<1> DEFINE new == run[w].new
           q == RowsOf(new)
<1>1. new \in SUBSET NewRows
  BY RunKinds DEF ImportInv, Commits, Checks
<1>2. IsFiniteSet(new) /\ \A n, k \in new : n.rec = k.rec => n = k
  BY DEF ImportInv, AddsOnce, Commits
<1> HIDE DEF new
<1>3. /\ q \in Seq(Rows)
      /\ \A k \in DOMAIN q : \E n \in new : q[k].rec = n.rec
      /\ \A j, k \in DOMAIN q : q[j].rec = q[k].rec => j = k
  BY <1>1, <1>2, RowsOfType
<1>4. meeting \in Seq(Rows) /\ meeting' = meeting \o q
  BY Parts DEF ImportInv, Commits, new
<1> HIDE DEF q
<1>5. /\ meeting' \in Seq(Rows) /\ DOMAIN meeting \subseteq DOMAIN meeting'
      /\ \A m \in DOMAIN meeting : meeting'[m] = meeting[m]
      /\ \A m \in DOMAIN meeting' \ DOMAIN meeting :
           m - Len(meeting) \in DOMAIN q /\ meeting'[m] = q[m - Len(meeting)]
  BY <1>3, <1>4
<1> QED
  BY <1>3, <1>4, <1>5 DEF new, q

(* After a commit a recording has a meeting it had, or the one of the run. *)
LEMMA CommitMeetings ==
  ASSUME ImportInv, NEW w \in Workers, Commits(w), NEW r, NEW m \in Existing(r)'
  PROVE  \/ m \in Existing(r)
         \/ /\ m \notin DOMAIN meeting
            /\ \E n \in Unsaved(w) : n.rec = r
            /\ m - Len(meeting) \in DOMAIN RowsOf(run[w].new)
            /\ RowsOf(run[w].new)[m - Len(meeting)].rec = r
<1>1. m \in DOMAIN meeting' /\ meeting'[m].rec = r /\ meeting'[m].status # "deleted"
  BY DEF Existing
<1>2. CASE m \in DOMAIN meeting
  <2>1. meeting'[m] = meeting[m]
    BY <1>2, CommitForm
  <2> QED
    BY <1>1, <1>2, <2>1 DEF Existing
<1>3. CASE m \notin DOMAIN meeting
  <2>1. /\ m - Len(meeting) \in DOMAIN RowsOf(run[w].new)
        /\ meeting'[m] = RowsOf(run[w].new)[m - Len(meeting)]
    BY <1>1, <1>3, CommitForm
  <2>2. \E n \in run[w].new : RowsOf(run[w].new)[m - Len(meeting)].rec = n.rec
    BY <2>1, CommitForm
  <2>3. Unsaved(w) = run[w].new
    BY DEF Unsaved, Commits
  <2> QED
    BY <1>1, <1>3, <2>1, <2>2, <2>3
<1> QED
  BY <1>2, <1>3

(* What is committed is the first meeting of its recording, or one that    *)
(* another run has imported as well.                                       *)
LEMMA CommitStep ==
  ASSUME ImportInv, TypeOK', RunOK', NEW w \in Workers, Commits(w)
  PROVE  ImportInv'
<1>1. /\ run'[w].step = "enqueue" /\ \A v \in Workers \ {w} : run'[v] = run[v]
      /\ overlap' = overlap /\ run[w].step = "check"
  BY DEF Commits
<1>2. /\ Unsaved(w)' = {}
      /\ \A v \in Workers \ {w} : Unsaved(v)' = Unsaved(v)
  BY <1>1 DEF Unsaved
<1>3. AddsOnce'
  <2> SUFFICES ASSUME NEW v \in Workers, run'[v].step = "check"
               PROVE  /\ IsFiniteSet(run'[v].new)
                      /\ \A n \in run'[v].new : n.rec \notin run'[v].todo
                      /\ \A n, k \in run'[v].new : n.rec = k.rec => n = k
    BY Zenon DEF AddsOnce
  <2>1. run'[v] = run[v]
    BY <1>1
  <2> QED
    BY <2>1 DEF ImportInv, AddsOnce
<1>4. OneMeeting'
  <2> SUFFICES ASSUME NEW r \in Recordings \ overlap', NEW a \in Existing(r)', NEW b \in Existing(r)'
               PROVE  a = b
    BY Zenon DEF OneMeeting
  <2>1. CASE \E n \in Unsaved(w) : n.rec = r
    <3>1. Existing(r) = {}
      BY <1>1, <2>1 DEF ImportInv, NotYetSaved
    <3> DEFINE q == RowsOf(run[w].new)
    <3>2. /\ a - Len(meeting) \in DOMAIN q /\ q[a - Len(meeting)].rec = r
          /\ b - Len(meeting) \in DOMAIN q /\ q[b - Len(meeting)].rec = r
      BY <3>1, CommitMeetings
    <3>3. \A j, k \in DOMAIN q : q[j].rec = q[k].rec => j = k
      BY CommitForm
    <3>4. a - Len(meeting) = b - Len(meeting)
      BY <3>2, <3>3
    <3>5. a \in DOMAIN meeting' /\ b \in DOMAIN meeting'
      BY DEF Existing
    <3>6. meeting \in Seq(Rows) /\ meeting' \in Seq(Rows)
      BY CommitForm
    <3> HIDE DEF q
    <3> QED
      BY <3>4, <3>5, <3>6
  <2>2. CASE ~ \E n \in Unsaved(w) : n.rec = r
    <3>1. a \in Existing(r) /\ b \in Existing(r)
      BY <2>2, CommitMeetings
    <3> QED
      BY <1>1, <3>1 DEF ImportInv, OneMeeting
  <2> QED
    BY <2>1, <2>2
<1>5. NotYetSaved'
  <2> SUFFICES ASSUME NEW v \in Workers, NEW n \in Unsaved(v)', n.rec \notin overlap', NEW m \in Existing(n.rec)'
               PROVE  FALSE
    BY Zenon DEF NotYetSaved
  <2>1. v # w /\ n \in Unsaved(v)
    BY <1>2
  <2>2. Existing(n.rec) = {}
    BY <1>1, <2>1 DEF ImportInv, NotYetSaved
  <2>3. PICK k \in Unsaved(w) : k.rec = n.rec
    BY <2>2, CommitMeetings
  <2> QED
    BY <1>1, <2>1, <2>3 DEF ImportInv, OneRun
<1>6. OneRun'
  <2> SUFFICES ASSUME NEW u \in Workers, NEW v \in Workers, u # v,
                      NEW n \in Unsaved(u)', NEW k \in Unsaved(v)', n.rec = k.rec
               PROVE  n.rec \in overlap'
    BY Zenon DEF OneRun
  <2> QED
    BY <1>1, <1>2 DEF ImportInv, OneRun
<1> QED
  BY <1>3, <1>4, <1>5, <1>6 DEF ImportInv

-----------------------------------------------------------------------------
(* The invariant *)

(* A fetch is made, and the meeting is added with what it yields.          *)
LEMMA FetchStep ==
  ASSUME ImportInv, NEW w \in Workers, AddMeeting(w) \/ FetchFails(w)
  PROVE  ImportInv' /\ meeting' = meeting
<1> USE DEF ImportInv
<1>1. /\ platform' = platform /\ logLevel' = logLevel /\ config' = config /\ epoch' = epoch
      /\ recording' = recording /\ meeting' = meeting /\ extractions' = extractions
  <2>1. CASE AddMeeting(w)
    BY Zenon, <2>1 DEF AddMeeting, queues
  <2>2. CASE FetchFails(w)
    BY Zenon, <2>2 DEF FetchFails
  <2> QED
    BY <2>1, <2>2
<1>2. run[w].step = "check" /\ events' \in 0 .. MaxEvents
  <2>1. CASE AddMeeting(w)
    BY <2>1, Parts DEF AddMeeting
  <2>2. CASE FetchFails(w)
    BY <2>2, Parts, EventType DEF FetchFails
  <2> QED
    BY <2>1, <2>2
<1>3. \A r : ParseVtt(Transcript(r)) \in BOOLEAN
  BY DEF ParseVtt
<1>4. CASE Fail(w) /\ UNCHANGED <<issued, overlap>>
  <2>1. /\ tasks' \in [0 .. MaxRetries -> Nat]
        /\ RunOK' /\ \A v \in Workers : SameImport(v)
    BY <1>2, <1>4, FailForm
  <2>2. TypeOK'
    BY <1>1, <1>2, <1>4, <2>1, Parts, WorkerType
  <2>3. Quiet
    BY <1>1, <1>4, <2>1, SameMeetings DEF Quiet
  <2> QED
    BY <1>1, <2>1, <2>2, <2>3, QuietStep
<1>5. CASE /\ UNCHANGED tasks
           /\ \E r \in run[w].todo, text \in BOOLEAN : Existing(r) = {} /\ Add(w, r, text)
  <2>1. PICK r \in run[w].todo, text \in BOOLEAN : Existing(r) = {} /\ Add(w, r, text)
    BY <1>5
  <2>2. r \in Recordings
    BY <1>2, RunKinds DEF Checks
  <2>3. RunOK' /\ Adds(w, r) /\ issued' \in Nat /\ overlap' \subseteq Recordings
    BY <1>1, <1>2, <2>1, AddForm
  <2>4. TypeOK'
    BY <1>1, <1>2, <1>5, <2>3, Parts, WorkerType
  <2> QED
    BY <1>1, <2>2, <2>3, <2>4, AddStep
<1>6. CASE AddMeeting(w)
  <2>1. PICK r \in run[w].todo : Imported(r) = {} /\ Add(w, r, ParseVtt(Transcript(r)))
    BY <1>6 DEF AddMeeting
  <2>2. UNCHANGED tasks
    BY <1>6 DEF AddMeeting, queues
  <2> QED
    BY <1>3, <1>5, <2>1, <2>2 DEF Imported
<1>7. CASE FetchFails(w)
  <2>1. PICK r \in run[w].todo :
          /\ Imported(r) = {}
          /\ \/ Fail(w) /\ UNCHANGED <<issued, overlap>>
             \/ /\ \E text \in {FALSE, ParseVtt(Transcript(r))} : Add(w, r, text)
                /\ UNCHANGED tasks
    BY Zenon, <1>7 DEF FetchFails
  <2> QED
    BY <1>3, <1>4, <1>5, <2>1 DEF Imported
<1> QED
  BY <1>6, <1>7

(* A run commits, or the connection is gone and it fails.                  *)
LEMMA CommitOrFail ==
  ASSUME ImportInv, NEW w \in Workers, Commit(w)
  PROVE  ImportInv' /\ (meeting' = meeting \/ Commits(w))
<1> USE DEF ImportInv
<1>1. /\ run[w].step = "check" /\ run[w] \in Checks
      /\ platform' = platform /\ logLevel' = logLevel /\ config' = config /\ epoch' = epoch /\ issued' = issued
      /\ recording' = recording /\ extractions' = extractions /\ overlap' = overlap /\ events' = events
  BY RunKinds DEF Commit, account
<1>2. CASE ~ConfigStands(w)
  <2>1. Fail(w) /\ meeting' = meeting
    BY <1>2 DEF Commit
  <2>2. /\ tasks' \in [0 .. MaxRetries -> Nat]
        /\ RunOK' /\ \A v \in Workers : SameImport(v)
    BY <1>1, <2>1, FailForm
  <2>3. TypeOK'
    BY <1>1, <2>1, <2>2, Parts, WorkerType
  <2>4. Quiet
    BY <1>1, <2>1, <2>2, SameMeetings DEF Quiet
  <2> QED
    BY <2>1, <2>2, <2>3, <2>4, QuietStep
<1>3. CASE ConfigStands(w)
  <2> DEFINE j == [step |-> "enqueue", retries |-> run[w].retries, new |-> {n.rec : n \in run[w].new}]
  <2>1. /\ meeting' = meeting \o RowsOf(run[w].new) /\ tasks' = tasks
        /\ run' = [run EXCEPT ![w] = j]
    BY <1>3 DEF Commit
  <2>2. run[w].retries \in 0 .. MaxRetries /\ {n.rec : n \in run[w].new} \subseteq Recordings
    BY <1>1 DEF Checks, NewRows
  <2>3. j \in Sends /\ j.step = "enqueue"
    BY <2>2 DEF Sends
  <2>4. j \in Runs
    BY <2>3 DEF Runs
  <2> HIDE DEF j
  <2>5. RunOK' /\ run'[w] = j /\ \A v \in Workers \ {w} : run'[v] = run[v]
    BY <2>1, <2>4 DEF RunOK
  <2>6. Commits(w)
    BY <1>1, <1>3, <2>1, <2>3, <2>5 DEF Commits, ConfigStands
  <2>7. meeting' \in Seq(Rows) /\ DOMAIN meeting \subseteq DOMAIN meeting'
    BY <2>6, CommitForm
  <2>8. TypeOK'
    BY <1>1, <2>1, <2>5, <2>7, Parts, WorkerType
  <2> QED
    BY <2>5, <2>6, <2>8, CommitStep
<1> QED
  BY <1>2, <1>3

(* No other step adds a meeting.                                           *)
Imports == meeting' = meeting \/ Len(meeting') = Len(meeting) \/ \E w \in Workers : Commits(w)

(* The steps of a worker.                                                  *)
LEMMA WorkerStep ==
  ASSUME ImportInv, NEW w \in Workers, Step(w)
  PROVE  ImportInv' /\ Imports
<1>1. TypeOK /\ RunOK
  BY DEF ImportInv
<1>2. CASE LoadConfig(w)
  <2>1. TypeOK' /\ RunOK' /\ Quiet
    BY <1>1, <1>2, LoadConfigStep
  <2> QED
    BY <1>2, <2>1, QuietStep DEF Imports, LoadConfig
<1>3. CASE ConfigNotFound(w)
  <2>1. TypeOK' /\ RunOK' /\ Quiet
    BY <1>1, <1>3, ConfigNotFoundStep
  <2> QED
    BY <1>3, <2>1, QuietStep DEF Imports, ConfigNotFound
<1>4. CASE ListRecordings(w)
  <2>1. TypeOK' /\ RunOK' /\ Quiet
    BY <1>1, <1>4, ListRecordingsStep
  <2> QED
    BY <1>4, <2>1, QuietStep DEF Imports, ListRecordings
<1>5. CASE ListFails(w)
  <2>1. TypeOK' /\ RunOK' /\ Quiet
    BY <1>1, <1>5, ListFailsStep
  <2> QED
    BY <1>5, <2>1, QuietStep DEF Imports, ListFails
<1>6. CASE SkipImported(w)
  <2>1. TypeOK' /\ RunOK' /\ Quiet
    BY <1>1, <1>6, SkipImportedStep
  <2> QED
    BY <1>6, <2>1, QuietStep DEF Imports, SkipImported
<1>7. CASE FindTwoMeetings(w)
  <2>1. TypeOK' /\ RunOK' /\ Quiet
    BY <1>1, <1>7, FindTwoMeetingsStep
  <2> QED
    BY <1>7, <2>1, QuietStep DEF Imports, FindTwoMeetings
<1>8. CASE AddMeeting(w) \/ FetchFails(w)
  BY <1>8, FetchStep DEF Imports
<1>9. CASE Commit(w)
  BY <1>9, CommitOrFail DEF Imports
<1>10. CASE EnqueueExtractions(w)
  <2>1. TypeOK' /\ RunOK' /\ Quiet
    BY <1>1, <1>10, EnqueueExtractionsStep
  <2> QED
    BY <1>10, <2>1, QuietStep DEF Imports, EnqueueExtractions
<1>11. CASE EnqueueFails(w)
  <2>1. TypeOK' /\ RunOK' /\ Quiet
    BY <1>1, <1>11, EnqueueFailsStep
  <2> QED
    BY <1>11, <2>1, QuietStep DEF Imports, EnqueueFails
<1> HIDE DEF ImportInv, Imports
<1> QED
  BY Zenon, <1>2, <1>3, <1>4, <1>5, <1>6, <1>7, <1>8, <1>9, <1>10, <1>11 DEF Step

(* Every step keeps the invariant.                                         *)
LEMMA NextStep ==
  ASSUME ImportInv, Next
  PROVE  ImportInv' /\ Imports
<1>1. TypeOK /\ RunOK
  BY DEF ImportInv
<1>2. CASE SyncAllPlatforms \/ TriggerSync
  <2>1. TypeOK' /\ RunOK' /\ Quiet
    BY <1>1, <1>2, SyncStep
  <2>2. meeting' = meeting
    BY <1>2 DEF SyncAllPlatforms, TriggerSync
  <2> QED
    BY <2>1, <2>2, QuietStep DEF Imports
<1>3. ASSUME NEW m \in DOMAIN meeting, ExtractMeeting(m) \/ ExtractionFails(m)
      PROVE  ImportInv' /\ Imports
  <2>1. TypeOK' /\ RunOK' /\ Quiet /\ Len(meeting') = Len(meeting)
    BY <1>1, <1>3, ExtractStep
  <2> QED
    BY <2>1, QuietStep DEF Imports
<1>4. ASSUME NEW m \in DOMAIN meeting, DeleteMeeting(m)
      PROVE  ImportInv' /\ Imports
  <2>1. TypeOK' /\ RunOK' /\ Quiet /\ Len(meeting') = Len(meeting)
    BY <1>1, <1>4, DeleteStep
  <2> QED
    BY <2>1, QuietStep DEF Imports
<1>5. CASE \/ OAuthCallback
           \/ DisconnectPlatform
           \/ AccessExpires
           \/ \E r \in Recordings : RecordingChanges(r)
  <2>1. Elsewhere
    BY <1>1, <1>5, OAuthCallbackStep, AccountStep, RecordingChangesStep
  <2>2. TypeOK' /\ RunOK' /\ Quiet /\ meeting' = meeting
    BY <1>1, <2>1, ElsewhereStep
  <2> QED
    BY <2>2, QuietStep DEF Imports
<1>6. ASSUME NEW w \in Workers, Receive(w)
      PROVE  ImportInv' /\ Imports
  <2>1. TypeOK' /\ RunOK' /\ Quiet
    BY <1>1, <1>6, ReceiveStep
  <2> QED
    BY <1>6, <2>1, QuietStep DEF Imports, Receive
<1>7. ASSUME NEW w \in Workers, Crash(w)
      PROVE  ImportInv' /\ Imports
  <2>1. TypeOK' /\ RunOK' /\ Quiet
    BY <1>1, <1>7, CrashStep
  <2> QED
    BY <1>7, <2>1, QuietStep DEF Imports, Crash
<1> HIDE DEF ImportInv, Imports
<1> QED
  BY Zenon, <1>2, <1>3, <1>4, <1>5, <1>6, <1>7, WorkerStep DEF Next, Extract, Environment

(* The invariant holds at the start.                                       *)
LEMMA InitImport ==
  ASSUME Init
  PROVE  ImportInv
<1>1. \A w \in Workers : run[w] = NoRun
  BY Zenon DEF Init
<1>2. NoRun \in Runs /\ NoRun.step = "idle"
  BY DEF NoRun, Runs, Idles
<1>3. run = [w \in Workers |-> NoRun] /\ meeting = << >>
  BY Zenon DEF Init
<1>4. RunOK
  BY <1>2, <1>3 DEF RunOK
<1>5. \A r : Existing(r) = {}
  BY <1>3 DEF Existing
<1>6. \A w \in Workers : Unsaved(w) = {}
  BY <1>1, <1>2 DEF Unsaved
<1>7. AddsOnce /\ OneMeeting /\ NotYetSaved /\ OneRun
  BY <1>1, <1>2, <1>5, <1>6 DEF AddsOnce, OneMeeting, NotYetSaved, OneRun
<1>8. /\ config = [id |-> 1, access |-> 0, refresh |-> 1] /\ epoch = 0 /\ issued = 1
      /\ tasks = [k \in 0 .. MaxRetries |-> 0] /\ extractions = {} /\ overlap = {} /\ events = 0
  BY Zenon DEF Init
<1>9. /\ config \in [id : Nat \ {0}, access : Nat, refresh : Nat] /\ epoch \in Nat /\ issued \in Nat
      /\ tasks \in [0 .. MaxRetries -> Nat] /\ extractions \subseteq DOMAIN meeting
      /\ overlap \subseteq Recordings /\ events \in 0 .. MaxEvents
      /\ meeting \in Seq([rec : Recordings, text : BOOLEAN,
                          status : {"draft", "extracted", "deleted"}])
  BY <1>3, <1>8, PlatformAssumption
<1>10. \A w \in Workers : run[w].step \in {"idle", "load", "list", "check", "enqueue"}
  BY <1>1, <1>2
<1>11. recording \in [Recordings -> Sources]
  <2> DEFINE starts == [age : {"future"}, text : {"not yet"}, report : BOOLEAN]
  <2>1. recording \in [Recordings -> starts]
    BY Zenon DEF Init
  <2>2. "future" \in Ages /\ {"not yet"} \subseteq Texts
    BY Zenon DEF Ages, Texts
  <2>3. \A future, texts : future \in Ages /\ texts \subseteq Texts =>
          [age : {future}, text : texts, report : BOOLEAN] \subseteq Sources
    BY DEF Sources
  <2>4. starts \subseteq Sources
    BY Zenon, <2>2, <2>3
  <2> HIDE DEF starts
  <2> QED
    BY <2>1, <2>4
<1>12. platform \in Platforms /\ logLevel \in LogLevels
  BY Zenon DEF Init
<1>13. TypeOK
  BY Zenon, <1>9, <1>10, <1>11, <1>12 DEF TypeOK, Sources, Ages, Texts
<1> QED
  BY <1>4, <1>7, <1>13 DEF ImportInv

(* A step that changes nothing.                                            *)
LEMMA Stutter ==
  ASSUME ImportInv, UNCHANGED vars
  PROVE  ImportInv' /\ Imports
<1>1. /\ platform' = platform /\ logLevel' = logLevel /\ config' = config /\ epoch' = epoch
      /\ issued' = issued /\ recording' = recording /\ meeting' = meeting /\ tasks' = tasks
      /\ extractions' = extractions /\ run' = run /\ overlap' = overlap /\ events' = events
  BY Zenon DEF vars
<1>2. TypeOK /\ RunOK
  BY DEF ImportInv
<1>3. RunOK' /\ \A v \in Workers : SameImport(v)
  BY <1>1, <1>2, RunsRest
<1>4. TypeOK'
  BY <1>1, <1>2, <1>3, Parts, WorkerType
<1>5. Quiet
  BY <1>1, <1>3, SameMeetings DEF Quiet
<1> QED
  BY <1>1, <1>3, <1>4, <1>5, QuietStep DEF Imports

-----------------------------------------------------------------------------
(* The theorems *)

(* The invariant is one.                                                   *)
THEOREM ImportInvariant == Spec => []ImportInv
<1>1. Init => ImportInv
  BY InitImport
<1>2. ImportInv /\ [Next]_vars => ImportInv'
  BY NextStep, Stutter
<1> QED
  BY <1>1, <1>2, PTL DEF Spec

(* What the module says of the types of its state holds, and what each     *)
(* worker does is a step of a sync with the fields of that step.           *)
THEOREM TypeCorrect == Spec => [](TypeOK /\ RunOK)
<1>1. ImportInv => TypeOK /\ RunOK
  BY DEF ImportInv
<1> QED
  BY <1>1, ImportInvariant, PTL

(* A recording has two meetings only if two runs imported it at a time:    *)
(* retries, crashes and repeated syncs never import one again.             *)
THEOREM SecondImports == Spec => []SecondImportNeedsOverlap
<1>1. ImportInv => SecondImportNeedsOverlap
  <2> SUFFICES ASSUME ImportInv, NEW r \in Recordings, Cardinality(Existing(r)) > 1, r \notin overlap
               PROVE  FALSE
    BY Zenon DEF SecondImportNeedsOverlap
  <2>1. \A a, b \in Existing(r) : a = b
    BY DEF ImportInv, OneMeeting
  <2>2. CASE Existing(r) = {}
    BY <2>2, FS_EmptySet
  <2>3. CASE \E a : Existing(r) = {a}
    BY <2>3, FS_Singleton
  <2> QED
    BY <2>1, <2>2, <2>3
<1> QED
  BY <1>1, ImportInvariant, PTL

(* Meetings appear only with the commit of a run whose connection is the   *)
(* one that stands.                                                        *)
THEOREM ImportsAreConnected == Spec => ImportsNeedConnection
<1>1. ImportInv /\ [Next]_vars =>
        [Len(meeting') > Len(meeting) =>
           \E w \in Workers : run[w].step = "check" /\ run[w].config = config.id]_vars
  <2> SUFFICES ASSUME ImportInv, [Next]_vars, Len(meeting') > Len(meeting)
               PROVE  \E w \in Workers : run[w].step = "check" /\ run[w].config = config.id
    OBVIOUS
  <2>1. Imports
    BY NextStep, Stutter
  <2>2. meeting \in Seq(Rows)
    BY Parts DEF ImportInv
  <2>3. ~(meeting' = meeting \/ Len(meeting') = Len(meeting))
    BY <2>2
  <2>4. \E w \in Workers : Commits(w)
    BY <2>1, <2>3 DEF Imports
  <2> QED
    BY <2>4 DEF Commits
<1> QED
  BY <1>1, ImportInvariant, PTL DEF Spec, ImportsNeedConnection
=============================================================================
