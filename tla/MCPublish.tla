------------------------------ MODULE MCPublish ------------------------------
(* The publication with interchangeable workers and relays.                    *)
EXTENDS Publish, TLC

Symmetry == Permutations(Worker) \cup Permutations(Relay)
=============================================================================
