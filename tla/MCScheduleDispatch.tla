------------------------- MODULE MCScheduleDispatch --------------------------
(* The scheduler with interchangeable evaluations and relays, for TLC. *)
EXTENDS ScheduleDispatch, TLC

Symmetry == Permutations(Evaluator) \cup Permutations(Relay)
=============================================================================
