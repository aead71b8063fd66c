------------------------------ MODULE MCMission ------------------------------
(* A chain of three tasks like the planner's: a stage, a production that waits *)
(* for its render, and a stage behind an approval.                             *)
EXTENDS Mission, TLC

CONSTANTS t1, t2, t3

ChainTasks == {t1, t2, t3}
Chain == [t \in ChainTasks |-> CASE t = t1 -> {} [] t = t2 -> {t1} [] t = t3 -> {t2}]
Pair == {t1, t2}
PairPrereq == [t \in Pair |-> IF t = t1 THEN {} ELSE {t1}]

Symmetry == Permutations(Evaluator) \cup Permutations(Worker)
=============================================================================
