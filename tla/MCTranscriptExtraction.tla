---------------------- MODULE MCTranscriptExtraction ----------------------
(* Transcripts and items for TLC. *)
EXTENDS TranscriptExtraction

MCTexts == {<<>>, <<1, 1, 1, 1>>, <<3, 2, 6, 1, 1>>, [i \in 1 .. 8 |-> 1], [i \in 1 .. 9 |-> 1]}

\* Two wordings of one task with different confidence, and a third similar to
\* the second only.
MCItems == {"a", "b", "c"}
MCKey == [a |-> "send", b |-> "send", c |-> "resend"]
MCConfidence == [a |-> 4, b |-> 9, c |-> 6]
MCNear == {<<x, x>> : x \in MCItems} \union {<<"a", "b">>, <<"b", "a">>, <<"b", "c">>, <<"c", "b">>}

===========================================================================
