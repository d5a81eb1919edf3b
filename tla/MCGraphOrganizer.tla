-------------------------- MODULE MCGraphOrganizer --------------------------
(* Small instances of GraphOrganizer for TLC. *)
EXTENDS GraphOrganizer, TLC

\* The handlers are interchangeable: no definition names one of them.
Symmetry == Permutations(Requests)
=============================================================================
