----------------------------- MODULE MCEditorial -----------------------------
(* The editorial tasks with interchangeable workers and requests, for TLC. *)
EXTENDS Editorial

Symmetry == Permutations(Worker) \cup Permutations(Request)
=============================================================================
