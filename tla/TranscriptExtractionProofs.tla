--------------------- MODULE TranscriptExtractionProofs ---------------------
(***************************************************************************)
(* The safety properties of TranscriptExtraction for every transcript,     *)
(* size, overlap and set of items.                                         *)
(***************************************************************************)
EXTENDS TranscriptExtraction, SequenceTheorems, WellFoundedInduction, TLAPS

-----------------------------------------------------------------------------
(* The inductive invariant. *)

\* Which steps a service takes, and that nothing has happened at the first.
StepsOfService ==
  /\ step = "begin" =>
       /\ start = 0 /\ end = 0 /\ size = 0
       /\ sent = {} /\ pending = <<>> /\ kept = <<>> /\ heard = {}
  /\ service = "older" => step = "begin"
  /\ Windows => step # "again"
  /\ service = "whole" => step # "cut"

\* How far the chunk that is cut reaches.
ChunkShape ==
  /\ Windows /\ step \in {"ask", "take"} => end = Lesser(start + Size, Len(text))
  /\ service = "whole" /\ step \in {"ask", "again"} => start = 0 /\ end = Len(text)
  /\ service = "segments" => size <= Size \/ end = start + 1

Seen(u) == \E c \in sent : c.start < u /\ Reach(u) <= c.end

\* Everything before the chunk has been sent, and with its answer the chunk.
SeenSoFar ==
  /\ step \in {"begin", "cut", "ask", "again"} \/ (Windows /\ step = "take") =>
       \A u \in 1 .. start : Seen(u)
  /\ Windows /\ step = "take" => \E c \in sent : c.start = start /\ c.end = end
  /\ ~Windows /\ step = "take" => \A u \in 1 .. Len(text) : Seen(u)
  /\ step = "done" => \A u \in 1 .. Len(text) : Seen(u)

\* In windows, every text answered is kept or still to be looked at.
TextIn(x, s) == \E i \in DOMAIN s : Key[s[i]] = Key[x]
TextsKept ==
  /\ Windows => \A i, j \in DOMAIN kept : Key[kept[i]] = Key[kept[j]] => i = j
  /\ Windows => \A x \in heard : TextIn(x, kept) \/ TextIn(x, pending)
  /\ step = "done" => pending = <<>>

\* Elsewhere, nothing answered is better than all that is kept or to come.
MatchedIn(x, s) == \E i \in DOMAIN s : Confidence[s[i]] >= Confidence[x]
BestSoFar ==
  ~Windows => \A x \in heard : MatchedIn(x, kept) \/ MatchedIn(x, pending)

IInv ==
  /\ TypeOK /\ StepsOfService /\ ChunkShape /\ ChunksAreShort
  /\ SeenSoFar /\ TextsKept /\ BestSoFar

-----------------------------------------------------------------------------
(* Lemmas. *)

\* An answer is a sequence of items.
LEMMA AnswersAreSequences == \A items \in Answers : items \in Seq(Items)
BY AnswerAssumption DEF Answers

\* A non-empty set of naturals has a least element: what `break` at the first
\* similar item relies on.
LEMMA LeastExists ==
  ASSUME NEW S \in SUBSET Nat, S # {}
  PROVE  \E x \in S : \A y \in S : x <= y
<1> DEFINE R == OpToRel(<, Nat)
<1>1. \A x, y \in Nat : <<y, x>> \in R <=> y < x
  BY DEF OpToRel
<1>2. IsWellFoundedOn(R, Nat)
  BY NatLessThanWellFounded
<1> HIDE DEF R
<1>3. PICK x \in S : \A y \in S : ~(<<y, x>> \in R)
  BY <1>2, WFMin, Zenon
<1>4. ASSUME NEW y \in S
      PROVE  ~(y < x)
  <2>1. x \in Nat /\ y \in Nat /\ ~(<<y, x>> \in R)
    BY <1>3
  <2> QED BY <1>1, <2>1, Zenon
<1> QED BY <1>4

\* The last element of a longer sequence, and the others.
LEMMA AppendElements ==
  ASSUME NEW S, NEW s \in Seq(S), NEW x \in S
  PROVE  /\ Append(s, x) \in Seq(S)
         /\ DOMAIN Append(s, x) = DOMAIN s \union {Len(s) + 1}
         /\ \A i \in DOMAIN s : Append(s, x)[i] = s[i]
         /\ Append(s, x)[Len(s) + 1] = x
         /\ Len(s) + 1 \notin DOMAIN s
BY AppendProperties, LenProperties

\* The elements of a concatenation.
LEMMA ConcatElements ==
  \A S : \A s, t \in Seq(S) :
         /\ s \o t \in Seq(S)
         /\ \A i \in DOMAIN s : \E k \in DOMAIN (s \o t) : (s \o t)[k] = s[i]
         /\ \A i \in DOMAIN t : \E k \in DOMAIN (s \o t) : (s \o t)[k] = t[i]
<1> SUFFICES ASSUME NEW S, NEW s \in Seq(S), NEW t \in Seq(S)
             PROVE  /\ s \o t \in Seq(S)
                    /\ \A i \in DOMAIN s : \E k \in DOMAIN (s \o t) : (s \o t)[k] = s[i]
                    /\ \A i \in DOMAIN t : \E k \in DOMAIN (s \o t) : (s \o t)[k] = t[i]
  OBVIOUS
<1>1. s \o t \in Seq(S) /\ Len(s \o t) = Len(s) + Len(t)
  BY ConcatProperties
<1>2. \A i \in DOMAIN s : i \in DOMAIN (s \o t) /\ (s \o t)[i] = s[i]
  BY <1>1, ConcatProperties, LenProperties
<1>3. ASSUME NEW i \in DOMAIN t
      PROVE  Len(s) + i \in DOMAIN (s \o t) /\ (s \o t)[Len(s) + i] = t[i]
  <2>1. i \in 1 .. Len(t) /\ Len(s) \in Nat /\ Len(t) \in Nat
    BY LenProperties
  <2>2. Len(s) + i \in 1 .. Len(s) + Len(t) /\ ~(Len(s) + i <= Len(s))
    BY <2>1
  <2>3. DOMAIN (s \o t) = 1 .. Len(s) + Len(t)
    BY <1>1, LenProperties
  <2>4. (s \o t)[Len(s) + i] = t[Len(s) + i - Len(s)]
    BY <2>2, ConcatProperties
  <2>5. Len(s) + i - Len(s) = i
    BY <2>1
  <2> QED BY <2>2, <2>3, <2>4, <2>5
<1> QED BY <1>1, <1>2, <1>3

\* The elements of a sequence are its first and those of the rest.
LEMMA TailElements ==
  ASSUME NEW S, NEW s \in Seq(S), s # <<>>
  PROVE  /\ Head(s) \in S /\ Tail(s) \in Seq(S)
         /\ \A i \in DOMAIN s : s[i] = Head(s) \/ \E k \in DOMAIN Tail(s) : Tail(s)[k] = s[i]
<1>1. Head(s) \in S /\ Tail(s) \in Seq(S) /\ Len(Tail(s)) = Len(s) - 1 /\ Len(s) \in Nat
  BY HeadTailProperties, LenProperties
<1>2. ASSUME NEW i \in DOMAIN s, i # 1
      PROVE  i - 1 \in DOMAIN Tail(s) /\ Tail(s)[i - 1] = s[i]
  <2>1. i \in 1 .. Len(s)
    BY LenProperties
  <2>2. i - 1 \in 1 .. Len(Tail(s)) /\ i - 1 + 1 = i
    BY <1>1, <1>2, <2>1
  <2>3. DOMAIN Tail(s) = 1 .. Len(Tail(s))
    BY <1>1, LenProperties
  <2> QED BY <1>1, <2>2, <2>3, HeadTailProperties
<1>3. s[1] = Head(s)
  BY HeadTailProperties
<1> QED BY <1>1, <1>2, <1>3
\* What is in one of two sequences is in their concatenation, by its text ...
LEMMA TextInConcat ==
  ASSUME NEW s \in Seq(Items), NEW t \in Seq(Items), NEW x, TextIn(x, s) \/ TextIn(x, t)
  PROVE  TextIn(x, s \o t)
<1>1. ASSUME TextIn(x, s) PROVE TextIn(x, s \o t)
  <2>1. PICK i \in DOMAIN s : Key[s[i]] = Key[x]
    BY <1>1 DEF TextIn
  <2>2. PICK k \in DOMAIN (s \o t) : (s \o t)[k] = s[i]
    BY ConcatElements
  <2> QED BY <2>1, <2>2 DEF TextIn
<1>2. ASSUME TextIn(x, t) PROVE TextIn(x, s \o t)
  <2>1. PICK i \in DOMAIN t : Key[t[i]] = Key[x]
    BY <1>2 DEF TextIn
  <2>2. PICK k \in DOMAIN (s \o t) : (s \o t)[k] = t[i]
    BY ConcatElements
  <2> QED BY <2>1, <2>2 DEF TextIn
<1> QED BY <1>1, <1>2

\* ... and by a confidence that is at least as high.
LEMMA MatchedInConcat ==
  ASSUME NEW s \in Seq(Items), NEW t \in Seq(Items), NEW x, MatchedIn(x, s) \/ MatchedIn(x, t)
  PROVE  MatchedIn(x, s \o t)
<1>1. ASSUME MatchedIn(x, s) PROVE MatchedIn(x, s \o t)
  <2>1. PICK i \in DOMAIN s : Confidence[s[i]] >= Confidence[x]
    BY <1>1 DEF MatchedIn
  <2>2. PICK k \in DOMAIN (s \o t) : (s \o t)[k] = s[i]
    BY ConcatElements
  <2> QED BY <2>1, <2>2 DEF MatchedIn
<1>2. ASSUME MatchedIn(x, t) PROVE MatchedIn(x, s \o t)
  <2>1. PICK i \in DOMAIN t : Confidence[t[i]] >= Confidence[x]
    BY <1>2 DEF MatchedIn
  <2>2. PICK k \in DOMAIN (s \o t) : (s \o t)[k] = t[i]
    BY ConcatElements
  <2> QED BY <2>1, <2>2 DEF MatchedIn
<1> QED BY <1>1, <1>2

-----------------------------------------------------------------------------
(* The steps. *)

\* The invariant holds at the start.
LEMMA InitInv == Init => IInv
<1> SUFFICES ASSUME Init PROVE IInv
  OBVIOUS
<1> USE ChunkAssumption, AnswerAssumption DEF Init
<1>1. Len(text) \in Nat
  BY LenProperties
<1>2. TypeOK
  BY <1>1 DEF TypeOK, Steps, Chunk
<1>3. StepsOfService /\ ChunkShape /\ ChunksAreShort
  BY DEF StepsOfService, ChunkShape, ChunksAreShort, Windows
<1>4. SeenSoFar /\ TextsKept /\ BestSoFar
  BY DEF SeenSoFar, TextsKept, BestSoFar
<1> QED BY <1>2, <1>3, <1>4 DEF IInv

\* Lengths are numbers and the smaller of two is one of them.
LEMMA Numbers ==
  ASSUME IInv
  PROVE  /\ Len(text) \in Nat /\ start \in Nat /\ end \in Nat /\ size \in Nat
         /\ start <= end /\ end <= Len(text)
         /\ Size \in Nat /\ Size > 0 /\ Overlap \in Nat /\ Overlap < Size
         /\ text \in Seq(Nat \ {0}) /\ DOMAIN text = 1 .. Len(text)
<1>1. text \in Seq(Nat \ {0})
  BY ChunkAssumption DEF IInv, TypeOK
<1>2. Len(text) \in Nat /\ DOMAIN text = 1 .. Len(text)
  BY <1>1, LenProperties
<1> QED BY <1>1, <1>2, ChunkAssumption DEF IInv, TypeOK

\* A transcript is refused.
LEMMA RefuseInv == IInv /\ Refuse => IInv'
<1> SUFFICES ASSUME IInv, Refuse PROVE IInv'
  OBVIOUS
<1> USE DEF Refuse, chunk, found
<1>1. TypeOK'
  BY DEF IInv, TypeOK, Steps
<1>2. StepsOfService' /\ ChunkShape' /\ ChunksAreShort'
  BY DEF IInv, StepsOfService, ChunkShape, ChunksAreShort, Windows
<1>3. SeenSoFar' /\ TextsKept' /\ BestSoFar'
  BY DEF IInv, SeenSoFar, TextsKept, BestSoFar, Windows, Seen, Reach, TextIn, MatchedIn
<1> QED BY <1>1, <1>2, <1>3 DEF IInv

\* A window is cut.
LEMMA CutWindowInv == IInv /\ CutWindow => IInv'
<1> SUFFICES ASSUME IInv, CutWindow PROVE IInv'
  OBVIOUS
<1> USE DEF CutWindow, found
<1>1. TypeOK'
  BY Numbers DEF IInv, TypeOK, Steps, Lesser
<1>2. StepsOfService' /\ ChunkShape' /\ ChunksAreShort'
  BY DEF IInv, StepsOfService, ChunkShape, ChunksAreShort, Windows
<1>3. SeenSoFar' /\ TextsKept' /\ BestSoFar'
  BY DEF IInv, SeenSoFar, TextsKept, BestSoFar, Windows, Seen, Reach, TextIn, MatchedIn
<1> QED BY <1>1, <1>2, <1>3 DEF IInv

\* The older service takes the whole transcript.
LEMMA SinglePassInv == IInv /\ SinglePass => IInv'
<1> SUFFICES ASSUME IInv, SinglePass PROVE IInv'
  OBVIOUS
<1> USE DEF SinglePass, found
<1>1. TypeOK'
  BY Numbers DEF IInv, TypeOK, Steps
<1>2. StepsOfService' /\ ChunkShape' /\ ChunksAreShort'
  BY DEF IInv, StepsOfService, ChunkShape, ChunksAreShort, Windows
<1>3. SeenSoFar' /\ TextsKept' /\ BestSoFar'
  BY DEF IInv, StepsOfService, SeenSoFar, TextsKept, BestSoFar, Windows
<1> QED BY <1>1, <1>2, <1>3 DEF IInv

\* The older service begins to cut chunks.
LEMMA BeginChunksInv == IInv /\ BeginChunks => IInv'
<1> SUFFICES ASSUME IInv, BeginChunks PROVE IInv'
  OBVIOUS
<1> USE DEF BeginChunks, chunk, found
<1>1. TypeOK'
  BY Numbers DEF IInv, TypeOK, Steps
<1>2. StepsOfService' /\ ChunkShape' /\ ChunksAreShort'
  BY Numbers DEF IInv, StepsOfService, ChunkShape, ChunksAreShort, Windows
<1>3. SeenSoFar' /\ TextsKept' /\ BestSoFar'
  BY DEF IInv, StepsOfService, SeenSoFar, TextsKept, BestSoFar, Windows
<1> QED BY <1>1, <1>2, <1>3 DEF IInv

\* A segment joins the chunk.
LEMMA TakeSegmentInv == IInv /\ TakeSegment => IInv'
<1> SUFFICES ASSUME IInv, TakeSegment PROVE IInv'
  OBVIOUS
<1> USE DEF TakeSegment, found
<1>1. text[end + 1] \in Nat
  BY Numbers, ElementOfSeq
<1>2. TypeOK'
  BY <1>1, Numbers DEF IInv, TypeOK, Steps
<1>3. StepsOfService' /\ ChunkShape' /\ ChunksAreShort'
  BY <1>1, Numbers DEF IInv, StepsOfService, ChunkShape, ChunksAreShort, Windows, Fits
<1>4. SeenSoFar' /\ TextsKept' /\ BestSoFar'
  BY DEF IInv, SeenSoFar, TextsKept, BestSoFar, Windows, Seen, Reach, TextIn, MatchedIn
<1> QED BY <1>2, <1>3, <1>4 DEF IInv

\* A chunk is full, a call is repeated or raises.
LEMMA StepOnlyInv == IInv /\ (CutChunk \/ AskAgain \/ CallFails) => IInv'
<1> SUFFICES ASSUME IInv, CutChunk \/ AskAgain \/ CallFails PROVE IInv'
  OBVIOUS
<1> USE DEF CutChunk, AskAgain, CallFails, chunk, found
<1>1. TypeOK'
  BY DEF IInv, TypeOK, Steps
<1>2. StepsOfService' /\ ChunkShape' /\ ChunksAreShort'
  BY DEF IInv, StepsOfService, ChunkShape, ChunksAreShort, Windows
<1>3. SeenSoFar' /\ TextsKept' /\ BestSoFar'
  BY DEF IInv, SeenSoFar, TextsKept, BestSoFar, Windows, Seen, Reach, TextIn, MatchedIn
<1> QED BY <1>1, <1>2, <1>3 DEF IInv

\* The answers to a chunk are all looked at: the next chunk, or the end.
LEMMA TakenInv == IInv /\ Taken => IInv'
<1> SUFFICES ASSUME IInv, Taken PROVE IInv'
  OBVIOUS
<1> USE DEF Taken, NextChunk, chunk, found
<1>1. Windows' = Windows /\ text' = text /\ sent' = sent
  BY DEF Windows
<1>2. CASE Windows /\ Last
  <2>1. TypeOK'
    BY <1>2 DEF IInv, TypeOK, Steps
  <2>2. StepsOfService' /\ ChunkShape' /\ ChunksAreShort'
    BY <1>2 DEF IInv, StepsOfService, ChunkShape, ChunksAreShort, Windows
  <2>3. ASSUME NEW u \in 1 .. Len(text) PROVE Seen(u)
    <3>1. CASE u <= start
      BY <1>2, <3>1, Numbers DEF IInv, SeenSoFar
    <3>2. CASE start < u
      <4>1. PICK c \in sent : c.start = start /\ c.end = end
        BY <1>2 DEF IInv, SeenSoFar
      <4> QED BY <1>2, <3>2, <4>1, Numbers DEF Seen, Reach, Last, Lesser
    <3> QED BY <3>1, <3>2, Numbers
  <2>4. SeenSoFar'
    BY <1>1, <1>2, <2>3 DEF SeenSoFar, Seen, Reach
  <2>5. TextsKept' /\ BestSoFar'
    BY <1>1, <1>2 DEF IInv, TextsKept, BestSoFar, TextIn, MatchedIn
  <2> QED BY <2>1, <2>2, <2>4, <2>5 DEF IInv
<1>3. CASE Windows /\ ~Last
  <2>1. end = start + Size /\ end < Len(text)
    BY <1>3, Numbers DEF IInv, ChunkShape, Last, Lesser
  <2>2. start' = end - Overlap /\ end' = end - Overlap /\ size' = 0 /\ tail' = 0 /\ step' = "cut"
    BY <1>3 DEF NextStart
  <2>3. TypeOK'
    <3>1. end - Overlap \in 0 .. Len(text) /\ 0 \in 0 .. Overlap
      BY <2>1, Numbers
    <3>2. end' \in 0 .. Len(text') /\ start' \in 0 .. end'
      BY <1>1, <2>2, <3>1
    <3>3. size' \in Nat /\ tail' \in 0 .. Overlap /\ step' \in Steps
      BY <2>2, <3>1 DEF Steps
    <3> QED BY <3>2, <3>3 DEF IInv, TypeOK
  <2>4. StepsOfService' /\ ChunkShape' /\ ChunksAreShort'
    BY <1>1, <1>3, <2>2 DEF IInv, StepsOfService, ChunkShape, ChunksAreShort, Windows
  <2>5. ASSUME NEW u \in 1 .. end - Overlap PROVE Seen(u)
    <3>1. CASE u <= start
      BY <1>3, <3>1, Numbers DEF IInv, SeenSoFar
    <3>2. CASE start < u
      <4>1. PICK c \in sent : c.start = start /\ c.end = end
        BY <1>3 DEF IInv, SeenSoFar
      <4>2. u + Overlap <= end /\ Reach(u) = u + Overlap
        BY <1>3, <2>1, Numbers DEF Reach, Lesser
      <4> QED BY <3>2, <4>1, <4>2 DEF Seen
    <3> QED BY <3>1, <3>2, Numbers
  <2>6. SeenSoFar'
    BY <1>1, <1>3, <2>2, <2>5 DEF SeenSoFar, Seen, Reach
  <2>7. TextsKept' /\ BestSoFar'
    BY <1>1, <1>3, <2>2 DEF IInv, TextsKept, BestSoFar, TextIn, MatchedIn
  <2> QED BY <2>3, <2>4, <2>6, <2>7 DEF IInv
<1>4. CASE ~Windows
  <2>1. TypeOK'
    BY <1>4 DEF IInv, TypeOK, Steps
  <2>2. StepsOfService' /\ ChunkShape' /\ ChunksAreShort'
    BY <1>4 DEF IInv, StepsOfService, ChunkShape, ChunksAreShort, Windows
  <2>3. SeenSoFar'
    BY <1>1, <1>4 DEF IInv, SeenSoFar, Seen, Reach
  <2>4. TextsKept' /\ BestSoFar'
    BY <1>1, <1>4 DEF IInv, TextsKept, BestSoFar, TextIn, MatchedIn
  <2> QED BY <2>1, <2>2, <2>3, <2>4 DEF IInv
<1> QED BY <1>2, <1>3, <1>4

\* The model answers about a chunk.
LEMMA AnswerInv == ASSUME IInv, NEW items \in Answers, Answer(items) PROVE IInv'
<1> USE DEF Answer, chunk
<1> DEFINE record == [start |-> start, end |-> end, size |-> size, tail |-> tail]
<1>1. /\ Windows' = Windows /\ text' = text /\ kept' = kept /\ service' = service
      /\ sent' = sent \union {record}
  BY DEF Windows
<1>2. items \in Seq(Items) /\ pending \in Seq(Items) /\ kept \in Seq(Items)
  BY AnswersAreSequences DEF IInv, TypeOK
<1>3. pending' = pending \o items /\ pending \o items \in Seq(Items)
  BY <1>2, ConcatElements
<1>4. \A x \in heard' : x \in heard \/ \E i \in DOMAIN items : items[i] = x
  BY DEF Occurring
<1>5. heard' \subseteq Items
  BY <1>2, ElementOfSeq, LenProperties DEF IInv, TypeOK, Occurring
<1>6. record \in Chunk /\ sent' \subseteq Chunk
  <2>1. start \in Nat /\ end \in Nat /\ size \in Nat /\ tail \in 0 .. Overlap /\ sent \subseteq Chunk
    BY Numbers DEF IInv, TypeOK
  <2>2. record \in Chunk
    BY <2>1 DEF Chunk
  <2> QED BY <1>1, <2>1, <2>2
<1>7. \/ step' = "take" /\ UNCHANGED chunk /\ (Windows \/ Last)
      \/ /\ ~Windows /\ ~Last /\ start' = end /\ end' = end /\ size' = 0
         /\ tail' = Lesser(Overlap, size) /\ step' = "cut"
  BY DEF NextChunk, NextStart
<1>8. TypeOK'
  BY <1>1, <1>2, <1>3, <1>5, <1>6, <1>7, Numbers DEF IInv, TypeOK, Steps, Lesser
<1>9. StepsOfService' /\ ChunkShape'
  BY <1>1, <1>7, Numbers DEF IInv, StepsOfService, ChunkShape, Windows, Last
<1>10. ChunksAreShort'
  <2>1. Windows => record.end - record.start <= Size
    BY Numbers DEF IInv, StepsOfService, ChunkShape, Lesser
  <2>2. service = "segments" => record.size <= Size \/ record.end = record.start + 1
    BY DEF IInv, ChunkShape
  <2> QED BY <1>1, <2>1, <2>2 DEF IInv, ChunksAreShort
<1>11. SeenSoFar'
  <2>1. ASSUME NEW u \in 1 .. start PROVE Seen(u)'
    BY <1>1, <2>1 DEF IInv, SeenSoFar, Seen, Reach
  <2>2. ASSUME ~Windows, NEW u \in 1 .. end PROVE Seen(u)'
    <3>1. CASE u <= start
      BY <2>1, <3>1, Numbers
    <3>2. CASE start < u
      <4>1. record \in sent' /\ record.start < u /\ u <= record.end
        BY <1>1, <2>2, <3>2, Numbers
      <4>2. Reach(u)' = u
        BY <1>1, <2>2 DEF Reach
      <4> QED BY <4>1, <4>2 DEF Seen
    <3> QED BY <3>1, <3>2, Numbers
  <2>3. CASE Windows
    <3>1. record \in sent' /\ record.start = start' /\ record.end = end'
      BY <1>1, <1>7, <2>3
    <3>2. \A u \in 1 .. start' : Seen(u)'
      BY <1>7, <2>1, <2>3
    <3> QED BY <1>1, <1>7, <2>3, <3>1, <3>2 DEF SeenSoFar
  <2>4. CASE ~Windows
    BY <1>1, <1>7, <2>2, <2>4 DEF SeenSoFar, Last
  <2> QED BY <2>3, <2>4
<1>12. TextsKept'
  <2>1. ASSUME Windows, NEW x \in heard' PROVE TextIn(x, kept) \/ TextIn(x, pending \o items)
    <3>1. CASE x \in heard
      BY <1>2, <2>1, <3>1, TextInConcat DEF IInv, TextsKept
    <3>2. CASE \E i \in DOMAIN items : items[i] = x
      <4>1. TextIn(x, items)
        BY <3>2 DEF TextIn
      <4> QED BY <1>2, <4>1, TextInConcat
    <3> QED BY <1>4, <3>1, <3>2
  <2>2. step' # "done"
    BY <1>7
  <2> QED BY <1>1, <1>3, <2>1, <2>2 DEF IInv, TextsKept
<1>13. BestSoFar'
  <2>1. ASSUME ~Windows, NEW x \in heard' PROVE MatchedIn(x, kept) \/ MatchedIn(x, pending \o items)
    <3>1. CASE x \in heard
      BY <1>2, <2>1, <3>1, MatchedInConcat DEF IInv, BestSoFar
    <3>2. CASE \E i \in DOMAIN items : items[i] = x
      <4>1. Confidence[x] \in Nat
        BY <1>5, AnswerAssumption
      <4>2. MatchedIn(x, items)
        BY <3>2, <4>1 DEF MatchedIn
      <4> QED BY <1>2, <4>2, MatchedInConcat
    <3> QED BY <1>4, <3>1, <3>2
  <2> QED BY <1>1, <1>3, <2>1 DEF BestSoFar
<1> QED BY <1>8, <1>9, <1>10, <1>11, <1>12, <1>13 DEF IInv

\* The first of the texts is kept: no text twice, and none lost.
LEMMA KeepFirstKeeps ==
  ASSUME NEW s \in Seq(Items), NEW x \in Items,
         \A i, j \in DOMAIN s : Key[s[i]] = Key[s[j]] => i = j
  PROVE  /\ KeepFirst(s, x) \in Seq(Items)
         /\ \A i, j \in DOMAIN KeepFirst(s, x) :
              Key[KeepFirst(s, x)[i]] = Key[KeepFirst(s, x)[j]] => i = j
         /\ TextIn(x, KeepFirst(s, x))
         /\ \A y : TextIn(y, s) => TextIn(y, KeepFirst(s, x))
<1>1. CASE \E i \in DOMAIN s : Key[s[i]] = Key[x]
  BY <1>1 DEF KeepFirst, TextIn
<1>2. CASE ~\E i \in DOMAIN s : Key[s[i]] = Key[x]
  <2> DEFINE t == Append(s, x)
  <2>1. KeepFirst(s, x) = t
    BY <1>2 DEF KeepFirst
  <2>2. /\ t \in Seq(Items) /\ DOMAIN t = DOMAIN s \union {Len(s) + 1}
        /\ \A i \in DOMAIN s : t[i] = s[i]
        /\ t[Len(s) + 1] = x
    BY AppendElements
  <2> HIDE DEF t
  <2>3. \A i, j \in DOMAIN t : Key[t[i]] = Key[t[j]] => i = j
    BY <1>2, <2>2
  <2>4. TextIn(x, t) /\ \A y : TextIn(y, s) => TextIn(y, t)
    BY <2>2 DEF TextIn
  <2> QED BY <2>1, <2>2, <2>3, <2>4
<1> QED BY <1>1, <1>2

\* A duplicate replaces at most what is worth less: whatever was matched by a
\* kept item still is, and so is the new one.
LEMMA KeepBetterKeeps ==
  ASSUME NEW s \in Seq(Items), NEW x \in Items
  PROVE  /\ KeepBetter(s, x) \in Seq(Items)
         /\ MatchedIn(x, KeepBetter(s, x))
         /\ \A y \in Items : MatchedIn(y, s) => MatchedIn(y, KeepBetter(s, x))
<1> DEFINE similar == {i \in DOMAIN s : <<s[i], x>> \in Near}
           first == CHOOSE i \in similar : \A j \in similar : i <= j
<1>1. \A y \in Items : Confidence[y] \in Nat
  BY AnswerAssumption
<1>2. \A i \in DOMAIN s : s[i] \in Items
  BY ElementOfSeq, LenProperties
<1>3. CASE similar = {}
  <2> DEFINE t == Append(s, x)
  <2>1. KeepBetter(s, x) = t
    BY <1>3 DEF KeepBetter
  <2>2. /\ t \in Seq(Items) /\ DOMAIN t = DOMAIN s \union {Len(s) + 1}
        /\ \A i \in DOMAIN s : t[i] = s[i]
        /\ t[Len(s) + 1] = x
    BY AppendElements
  <2> HIDE DEF t
  <2>3. MatchedIn(x, t) /\ \A y \in Items : MatchedIn(y, s) => MatchedIn(y, t)
    BY <1>1, <2>2 DEF MatchedIn
  <2> QED BY <2>1, <2>2, <2>3
<1>4. CASE similar # {}
  <2>1. first \in similar
    <3>1. similar \in SUBSET Nat
      BY LenProperties
    <3>2. \E i \in similar : \A j \in similar : i <= j
      BY <1>4, <3>1, LeastExists
    <3> QED BY <3>2
  <2>2. KeepBetter(s, x) = IF Confidence[x] > Confidence[s[first]]
                           THEN [s EXCEPT ![first] = x] ELSE s
    BY <1>4 DEF KeepBetter
  <2>3. first \in DOMAIN s /\ s[first] \in Items
    BY <1>2, <2>1
  <2> HIDE DEF first, similar
  <2>4. CASE Confidence[x] > Confidence[s[first]]
    <3> DEFINE t == [s EXCEPT ![first] = x]
    <3>1. t \in Seq(Items)
      BY <2>3, ExceptSeq, LenProperties
    <3>2. DOMAIN t = DOMAIN s /\ t[first] = x /\ \A i \in DOMAIN s \ {first} : t[i] = s[i]
      BY <2>3
    <3> HIDE DEF t
    <3>3. MatchedIn(x, t)
      BY <1>1, <2>3, <3>2 DEF MatchedIn
    <3>4. ASSUME NEW y \in Items, MatchedIn(y, s) PROVE MatchedIn(y, t)
      <4>1. PICK i \in DOMAIN s : Confidence[s[i]] >= Confidence[y]
        BY <3>4 DEF MatchedIn
      <4>2. CASE i = first
        BY <1>1, <2>3, <2>4, <3>2, <4>1, <4>2 DEF MatchedIn
      <4>3. CASE i # first
        BY <3>2, <4>1, <4>3 DEF MatchedIn
      <4> QED BY <4>2, <4>3
    <3> QED BY <2>2, <2>4, <3>1, <3>3, <3>4 DEF t
  <2>5. CASE ~(Confidence[x] > Confidence[s[first]])
    <3>1. Confidence[s[first]] >= Confidence[x]
      BY <1>1, <2>3, <2>5
    <3>2. KeepBetter(s, x) = s
      BY <2>2, <2>5
    <3> QED BY <2>3, <3>1, <3>2 DEF MatchedIn
  <2> QED BY <2>4, <2>5
<1> QED BY <1>3, <1>4

\* An item of an answer is looked at.
LEMMA TakeItemInv == IInv /\ TakeItem => IInv'
<1> SUFFICES ASSUME IInv, TakeItem PROVE IInv'
  OBVIOUS
<1> DEFINE x == Head(pending)
<1>1. /\ step = "take" /\ step' = step /\ service' = service /\ text' = text
      /\ sent' = sent /\ heard' = heard /\ start' = start /\ end' = end /\ size' = size /\ tail' = tail
      /\ pending' = Tail(pending) /\ (Windows' <=> Windows)
      /\ kept' = CASE Windows -> KeepFirst(kept, x)
                   [] service = "segments" -> KeepBetter(kept, x)
                   [] OTHER -> Append(kept, x)
  BY DEF TakeItem, chunk, Windows
<1>2. kept \in Seq(Items) /\ pending \in Seq(Items) /\ pending # <<>>
  BY DEF IInv, TypeOK, TakeItem
<1>3. /\ x \in Items /\ Tail(pending) \in Seq(Items)
      /\ \A i \in DOMAIN pending :
           pending[i] = x \/ \E k \in DOMAIN Tail(pending) : Tail(pending)[k] = pending[i]
  BY <1>2, TailElements
<1> HIDE DEF x
<1>4. \A y : TextIn(y, pending) => Key[x] = Key[y] \/ TextIn(y, Tail(pending))
  BY <1>3 DEF TextIn
<1>5. \A y : MatchedIn(y, pending) => Confidence[x] >= Confidence[y] \/ MatchedIn(y, Tail(pending))
  BY <1>3 DEF MatchedIn
<1>6. /\ Windows =>
           /\ kept' = KeepFirst(kept, x) /\ kept' \in Seq(Items)
           /\ \A i, j \in DOMAIN kept' : Key[kept'[i]] = Key[kept'[j]] => i = j
           /\ TextIn(x, kept')
           /\ \A y : TextIn(y, kept) => TextIn(y, kept')
  <2>1. SUFFICES ASSUME Windows
                 PROVE  /\ kept' = KeepFirst(kept, x) /\ kept' \in Seq(Items)
                        /\ \A i, j \in DOMAIN kept' : Key[kept'[i]] = Key[kept'[j]] => i = j
                        /\ TextIn(x, kept')
                        /\ \A y : TextIn(y, kept) => TextIn(y, kept')
    OBVIOUS
  <2>2. kept' = KeepFirst(kept, x)
    BY <1>1, <2>1 DEF Windows
  <2>3. \A i, j \in DOMAIN kept : Key[kept[i]] = Key[kept[j]] => i = j
    BY <2>1 DEF IInv, TextsKept
  <2>4. /\ KeepFirst(kept, x) \in Seq(Items)
        /\ \A i, j \in DOMAIN KeepFirst(kept, x) :
             Key[KeepFirst(kept, x)[i]] = Key[KeepFirst(kept, x)[j]] => i = j
        /\ TextIn(x, KeepFirst(kept, x))
        /\ \A y : TextIn(y, kept) => TextIn(y, KeepFirst(kept, x))
    BY <1>2, <1>3, <2>3, KeepFirstKeeps
  <2> QED BY <2>2, <2>4
<1>7. ~Windows =>
           /\ kept' \in Seq(Items)
           /\ MatchedIn(x, kept')
           /\ \A y \in Items : MatchedIn(y, kept) => MatchedIn(y, kept')
  <2>1. CASE ~Windows /\ service = "segments"
    BY <1>1, <1>2, <1>3, <2>1, KeepBetterKeeps
  <2>2. CASE ~Windows /\ service # "segments"
    <3>1. kept' = Append(kept, x)
      BY <1>1, <2>2
    <3>2. /\ kept' \in Seq(Items)
          /\ DOMAIN kept' = DOMAIN kept \union {Len(kept) + 1}
          /\ \A i \in DOMAIN kept : kept'[i] = kept[i]
          /\ kept'[Len(kept) + 1] = x
      BY <1>2, <1>3, <3>1, AppendElements
    <3>3. Confidence[x] \in Nat
      BY <1>3, AnswerAssumption
    <3> QED BY <3>2, <3>3 DEF MatchedIn
  <2> QED BY <2>1, <2>2
<1>8. TypeOK'
  BY <1>1, <1>3, <1>6, <1>7 DEF IInv, TypeOK
<1>9. StepsOfService' /\ ChunkShape' /\ ChunksAreShort'
  BY <1>1 DEF IInv, StepsOfService, ChunkShape, ChunksAreShort, Windows
<1>10. SeenSoFar'
  BY <1>1 DEF IInv, SeenSoFar, Seen, Reach
<1>11. TextsKept'
  <2>1. ASSUME Windows, NEW y \in heard PROVE TextIn(y, kept') \/ TextIn(y, pending')
    <3>1. TextIn(y, kept) \/ TextIn(y, pending)
      BY <2>1 DEF IInv, TextsKept
    <3>2. Key[x] = Key[y] => TextIn(y, kept')
      BY <1>6, <2>1 DEF TextIn
    <3> QED BY <1>1, <1>4, <1>6, <2>1, <3>1, <3>2
  <2> QED BY <1>1, <1>6, <2>1 DEF TextsKept
<1>12. BestSoFar'
  <2>1. ASSUME ~Windows, NEW y \in heard PROVE MatchedIn(y, kept') \/ MatchedIn(y, pending')
    <3>1. MatchedIn(y, kept) \/ MatchedIn(y, pending)
      BY <2>1 DEF IInv, BestSoFar
    <3>2. y \in Items /\ Confidence[y] \in Nat /\ Confidence[x] \in Nat
      BY <1>3, AnswerAssumption DEF IInv, TypeOK
    <3>3. \A i \in DOMAIN kept' : Confidence[kept'[i]] \in Nat
      BY <1>7, <2>1, ElementOfSeq, LenProperties, AnswerAssumption
    <3>4. Confidence[x] >= Confidence[y] => MatchedIn(y, kept')
      BY <1>7, <2>1, <3>2, <3>3 DEF MatchedIn
    <3> QED BY <1>1, <1>5, <1>7, <2>1, <3>1, <3>2, <3>4
  <2> QED BY <1>1, <2>1 DEF BestSoFar
<1> QED BY <1>8, <1>9, <1>10, <1>11, <1>12 DEF IInv

-----------------------------------------------------------------------------
(* The theorems. *)

\* The invariant is inductive.
LEMMA Inductive == IInv /\ [Next]_vars => IInv'
<1> SUFFICES ASSUME IInv, [Next]_vars PROVE IInv'
  OBVIOUS
<1>1. CASE UNCHANGED vars
  <2>1. Windows' = Windows /\ UNCHANGED <<service, text, start, end, size, tail, step, sent, pending, kept, heard>>
    BY <1>1 DEF vars, chunk, found, Windows
  <2>2. TypeOK' /\ StepsOfService' /\ ChunkShape' /\ ChunksAreShort'
    BY <2>1 DEF IInv, TypeOK, StepsOfService, ChunkShape, ChunksAreShort
  <2>3. SeenSoFar' /\ TextsKept' /\ BestSoFar'
    BY <2>1 DEF IInv, SeenSoFar, Seen, Reach, TextsKept, TextIn, BestSoFar, MatchedIn
  <2> QED BY <2>2, <2>3 DEF IInv
<1>2. CASE Next
  BY <1>2, RefuseInv, CutWindowInv, SinglePassInv, BeginChunksInv, TakeSegmentInv, StepOnlyInv,
     TakeItemInv, TakenInv, AnswerInv DEF Next
<1> QED BY <1>1, <1>2

\* The invariant always holds.
THEOREM Invariant == Spec => []IInv
BY InitInv, Inductive, PTL DEF Spec

\* Types: chunks are parts of their transcript, and a window that goes on has
\* more than an overlap behind it.
THEOREM TypeCorrect == Spec => []TypeOK
<1>1. IInv => TypeOK
  BY DEF IInv
<1> QED BY <1>1, Invariant, PTL

\* The model sees all of a transcript, and in windows every passage of the
\* overlap's length and one more in one piece, whatever its length, the size
\* and the overlap (_chunk_transcript of the three services).
THEOREM EverythingIsSeen == Spec => []Covered
<1>1. IInv => Covered
  BY DEF IInv, SeenSoFar, Covered, Seen
<1> QED BY <1>1, Invariant, PTL

\* No chunk is longer than its size, one of a single long segment excepted.
THEOREM ChunksStayShort == Spec => []ChunksAreShort
<1>1. IInv => ChunksAreShort
  BY DEF IInv
<1> QED BY <1>1, Invariant, PTL

\* Windows keep every text that was found, and none twice.
THEOREM TextsAreKeptOnce == Spec => []EachTextOnce
<1>1. IInv => EachTextOnce
  <2> SUFFICES ASSUME IInv, Windows PROVE EachTextOnce
    BY DEF EachTextOnce
  <2>1. \A i, j \in DOMAIN kept : Key[kept[i]] = Key[kept[j]] => i = j
    BY DEF IInv, TextsKept
  <2>2. ASSUME step = "done", NEW x \in heard
        PROVE  \E i \in DOMAIN kept : Key[kept[i]] = Key[x]
    BY <2>2 DEF IInv, TextsKept, TextIn
  <2> QED BY <2>1, <2>2 DEF EachTextOnce
<1> QED BY <1>1, Invariant, PTL

\* The older service keeps, for all it heard, something at least as sure,
\* although similarity is not transitive.
THEOREM TheBestIsKept == Spec => []BestIsKept
<1>1. IInv => BestIsKept
  BY DEF IInv, TextsKept, BestSoFar, MatchedIn, BestIsKept
<1> QED BY <1>1, Invariant, PTL
=============================================================================
