------------------------ MODULE TranscriptExtraction ------------------------
(***************************************************************************)
(* How the model is asked about a transcript, and what is kept of its      *)
(* answers: the windows of extraction_service and knowledge_service, and   *)
(* the chunks of segments of the older services/extraction.                *)
(*                                                                         *)
(* A transcript is the sequence of the lengths of its units: speaker turns *)
(* or paragraphs for segments, characters, all of length 1, for windows.   *)
(***************************************************************************)
EXTENDS Integers, Sequences

CONSTANTS
  Texts,       \* transcripts
  Size,        \* _CHUNK_SIZE, and the target length of a chunk of segments
  Overlap,     \* _CHUNK_OVERLAP, and the length of the tail that is repeated
  MaxLength,   \* MAX_TRANSCRIPT_CHARS
  Items,       \* what the model may find: tasks or knowledge entries,
  Key,         \* their text without case and outer spaces, and of a knowledge
               \* entry only the first 100 characters of that,
  Confidence,  \* the model's confidence in them,
  Near,        \* and the pairs that are similar enough to be duplicates
  MaxAnswer    \* bound: items in an answer

ASSUME ChunkAssumption ==
  /\ Texts \subseteq Seq(Nat \ {0})
  /\ Size \in Nat \ {0} /\ Overlap \in 0 .. Size - 1 /\ MaxLength \in Nat
ASSUME AnswerAssumption ==
  /\ Confidence \in [Items -> Nat] /\ DOMAIN Key = Items /\ MaxAnswer \in Nat

VARIABLES
  service,     \* "window"; "older", then "whole" or "segments"
  text,        \* the transcript
  start, end,  \* units of the chunk: start + 1 to end
  size,        \* their length, for segments
  tail,        \* length of what is repeated of the chunk before, for segments
  step,        \* what comes next
  sent,        \* chunks the model was asked about
  pending,     \* items answered and not yet looked at
  kept,        \* the result so far
  heard        \* history: every item answered

chunk == <<start, end, size, tail>>
found == <<pending, kept, heard>>
vars == <<service, text, chunk, step, sent, found>>

Windows == service = "window"
Lesser(a, b) == IF a < b THEN a ELSE b
Occurring(s) == {s[i] : i \in DOMAIN s}

-----------------------------------------------------------------------------
(* Chunks. *)

\* A transcript over the limit raises, in the two services that have one.
Refuse ==
  /\ step = "begin" /\ Windows /\ Len(text) > MaxLength
  /\ step' = "failed"
  /\ UNCHANGED <<service, text, chunk, sent, found>>

CutWindow ==
  /\ Windows
  /\ step \in {"begin", "cut"} /\ (step = "begin" => Len(text) <= MaxLength)
  /\ end' = Lesser(start + Size, Len(text))
  /\ step' = "ask"
  /\ UNCHANGED <<service, text, start, size, tail, sent, found>>

\* The older service sends in one piece what is counted as short enough.
SinglePass ==
  /\ step = "begin" /\ service = "older"
  /\ service' = "whole" /\ end' = Len(text) /\ step' = "ask"
  /\ UNCHANGED <<text, start, size, tail, sent, found>>

BeginChunks ==
  /\ step = "begin" /\ service = "older"
  /\ service' = "segments" /\ step' = "cut"
  /\ UNCHANGED <<text, chunk, sent, found>>

\* The next segment fits, or is the first and goes in whatever its length.
Fits == end = start \/ size + text[end + 1] <= Size

TakeSegment ==
  /\ step = "cut" /\ service = "segments" /\ end < Len(text) /\ Fits
  /\ end' = end + 1 /\ size' = size + text[end + 1]
  /\ UNCHANGED <<service, text, start, tail, step, sent, found>>

CutChunk ==
  /\ step = "cut" /\ service = "segments" /\ (end < Len(text) => ~Fits)
  /\ step' = "ask"
  /\ UNCHANGED <<service, text, chunk, sent, found>>

\* Bug: windows do not overlap.
Beside == end

\* Where the next chunk starts.
NextStart == IF Windows THEN end - Overlap ELSE end

\* Bug: the last window is followed by one of its overlap.
NeverLast == end = Len(text) /\ (Windows => Len(text) <= Size)

Last == end = Len(text)

NextChunk(after) ==
  IF Last THEN step' = after /\ UNCHANGED chunk
  ELSE /\ start' = NextStart /\ end' = NextStart /\ size' = 0
       /\ tail' = IF Windows THEN 0 ELSE Lesser(Overlap, size)
       /\ step' = "cut"

-----------------------------------------------------------------------------
(* Answers. *)

\* An answer that cannot be read is empty; the older service asks once more.
Answer(items) ==
  /\ step \in {"ask", "again"}
  /\ pending' = pending \o items
  /\ heard' = heard \union Occurring(items)
  /\ sent' = sent \union {[start |-> start, end |-> end, size |-> size, tail |-> tail]}
  /\ IF Windows THEN step' = "take" /\ UNCHANGED chunk ELSE NextChunk("take")
  /\ UNCHANGED <<service, text, kept>>

AskAgain ==
  /\ step = "ask" /\ ~Windows
  /\ step' = "again"
  /\ UNCHANGED <<service, text, chunk, sent, found>>

\* The call raises.
CallFails ==
  /\ step \in {"ask", "again"}
  /\ step' = "failed"
  /\ UNCHANGED <<service, text, chunk, sent, found>>

\* Bug: a text found before is kept again when its item differs.
KeepOther(items, x) == IF x \in Occurring(items) THEN items ELSE Append(items, x)

\* The first item with a text is kept.
KeepFirst(items, x) ==
  IF \E i \in DOMAIN items : Key[items[i]] = Key[x] THEN items ELSE Append(items, x)

\* Bug: the first of two duplicates is kept.
KeepEarlier(items, x) == IF \E i \in DOMAIN items : <<items[i], x>> \in Near THEN items ELSE Append(items, x)

\* A duplicate takes the place of the first item it is similar to, if the
\* model is more confident of it.
KeepBetter(items, x) ==
  LET similar == {i \in DOMAIN items : <<items[i], x>> \in Near}
  IN IF similar = {} THEN Append(items, x)
     ELSE LET first == CHOOSE i \in similar : \A j \in similar : i <= j
          IN IF Confidence[x] > Confidence[items[first]] THEN [items EXCEPT ![first] = x] ELSE items

\* Windows are merged one by one, segments at the end; a single piece is not.
TakeItem ==
  /\ step = "take" /\ pending # <<>>
  /\ kept' = CASE Windows -> KeepFirst(kept, Head(pending))
               [] service = "segments" -> KeepBetter(kept, Head(pending))
               [] OTHER -> Append(kept, Head(pending))
  /\ pending' = Tail(pending)
  /\ UNCHANGED <<service, text, chunk, step, sent, heard>>

Taken ==
  /\ step = "take" /\ pending = <<>>
  /\ IF Windows THEN NextChunk("done") ELSE step' = "done" /\ UNCHANGED chunk
  /\ UNCHANGED <<service, text, sent, found>>

-----------------------------------------------------------------------------
Answers == UNION {[1 .. n -> Items] : n \in 0 .. MaxAnswer}

Init ==
  /\ service \in {"window", "older"} /\ text \in Texts
  /\ start = 0 /\ end = 0 /\ size = 0 /\ tail = 0 /\ step = "begin"
  /\ sent = {} /\ pending = <<>> /\ kept = <<>> /\ heard = {}

Next ==
  \/ Refuse \/ CutWindow \/ SinglePass \/ BeginChunks \/ TakeSegment \/ CutChunk
  \/ AskAgain \/ CallFails \/ TakeItem \/ Taken
  \/ \E items \in Answers : Answer(items)

Spec == Init /\ [][Next]_vars

\* The loops go on by themselves.
FairSpec == Spec /\ WF_vars(Next)

-----------------------------------------------------------------------------
(* Properties. *)

Steps == {"begin", "cut", "ask", "again", "take", "done", "failed"}

Chunk == [start : Nat, end : Nat, size : Nat, tail : 0 .. Overlap]

\* Types; a chunk is a part of the transcript (_chunk_transcript).
TypeOK ==
  /\ service \in {"window", "older", "whole", "segments"} /\ text \in Texts /\ step \in Steps
  /\ end \in 0 .. Len(text) /\ start \in 0 .. end /\ size \in Nat /\ tail \in 0 .. Overlap
  /\ sent \subseteq Chunk
  /\ pending \in Seq(Items) /\ kept \in Seq(Items) /\ heard \subseteq Items

\* What the window that contains a unit should still contain of its context.
Reach(u) == IF Windows THEN Lesser(u + Overlap, Len(text)) ELSE u

\* The model has seen every unit, and in windows every passage of the overlap's
\* length and one more in one piece: the loop of _chunk_transcript skips
\* nothing and the overlap does what it is there for.
Covered ==
  step = "done" =>
    \A u \in 1 .. Len(text) : \E c \in sent : c.start < u /\ Reach(u) <= c.end

\* No chunk is longer than it should be, one of a single long segment excepted
\* (_chunk_transcript of both services).
ChunksAreShort ==
  \A c \in sent :
    /\ Windows => c.end - c.start <= Size
    /\ service = "segments" => c.size <= Size \/ c.end = c.start + 1

\* Windows that overlap find the same task twice: it is kept once, and none is
\* lost (extract of extraction_service and knowledge_service). The same is what
\* has the same Key: of long entries that begin alike one is kept.
EachTextOnce ==
  Windows =>
    /\ \A i, j \in DOMAIN kept : Key[kept[i]] = Key[kept[j]] => i = j
    /\ step = "done" => \A x \in heard : \E i \in DOMAIN kept : Key[kept[i]] = Key[x]

\* What the model was most confident of is never lost to a duplicate
\* (_deduplicate_raw).
BestIsKept ==
  ~Windows /\ step = "done" =>
    \A x \in heard : \E i \in DOMAIN kept : Confidence[kept[i]] >= Confidence[x]

\* Every window moves on: an extraction ends (extract).
Terminates == <>(step \in {"done", "failed"})

=============================================================================
