------------------------ MODULE MCExtractionPipeline ------------------------
(* Finite instances of ExtractionPipeline for TLC. *)
EXTENDS ExtractionPipeline, TLC

(* Executors, requests and tasks are interchangeable; meetings are not     *)
(* (a run about one meeting is not a run about another).                   *)
Symmetric == Permutations(Workers) \cup Permutations(Requests) \cup Permutations(Tasks)
=============================================================================
