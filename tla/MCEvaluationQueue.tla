------------------------- MODULE MCEvaluationQueue -------------------------
(* Small instances of EvaluationQueue for TLC. *)
EXTENDS EvaluationQueue, TLC

\* The handlers are interchangeable: no definition names one of them.
Symmetry == Permutations(Requests)
=============================================================================
